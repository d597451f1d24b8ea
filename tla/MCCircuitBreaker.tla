-------------------------- MODULE MCCircuitBreaker --------------------------
(* Instances of CircuitBreaker for TLC.                                    *)
EXTENDS CircuitBreaker

CONSTANTS r1, r2, r3, r4

FourRequests == {r1, r2, r3, r4}
=============================================================================
