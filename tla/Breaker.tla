------------------------------- MODULE Breaker ------------------------------
(***************************************************************************)
(* The calls of one CircuitBreaker (common/circuit_breaker.cpp) as         *)
(* operators on its state, a record.  Each call runs under the mutex of    *)
(* the breaker, so it is one step of whoever makes it.                     *)
(*                                                                         *)
(* elapsed is the time since last_failure_time_, counted up to the         *)
(* timeout: the code only asks whether the timeout has passed.  failures   *)
(* is counted up to the threshold: once there, it is only compared with it.*)
(***************************************************************************)
EXTENDS Integers

CONSTANTS FailureThreshold, RecoveryTimeout, SuccessThreshold

ASSUME BreakerAssumption ==
    /\ FailureThreshold \in Nat \ {0}
    /\ RecoveryTimeout \in Nat \ {0}
    /\ SuccessThreshold \in Nat \ {0}

States == {"CLOSED", "OPEN", "HALF_OPEN"}

BreakerState == [state : States, failures : 0..FailureThreshold,
                 successes : 0..SuccessThreshold, elapsed : 0..RecoveryTimeout]

\* The constructor; no failure yet, so any timeout has passed.
NewBreaker == [state |-> "CLOSED", failures |-> 0, successes |-> 0,
               elapsed |-> RecoveryTimeout]

Upto(n, bound) == IF n < bound THEN n ELSE bound

Later(b) == [b EXCEPT !.elapsed = Upto(@ + 1, RecoveryTimeout)]

\* allowRequest: what it answers, and what it leaves behind.
Admits(b) == b.state # "OPEN" \/ b.elapsed >= RecoveryTimeout

\* Wrong variant: a refused request starts the timeout again.
AskedRestartsTimeout(b) ==
    IF b.state # "OPEN" THEN b
    ELSE IF Admits(b) THEN [b EXCEPT !.state = "HALF_OPEN"]
    ELSE [b EXCEPT !.elapsed = 0]

Asked(b) == IF b.state = "OPEN" /\ Admits(b) THEN [b EXCEPT !.state = "HALF_OPEN"] ELSE b

\* Wrong variant: keeps the successes of the probe phase that failed.
TripKeepsSuccesses(b) == [b EXCEPT !.state = "OPEN"]

TripOpen(b) == [b EXCEPT !.state = "OPEN", !.successes = 0]

\* Wrong variant: keeps the failures that opened the breaker.
ResetKeepsFailures(b) == [b EXCEPT !.state = "CLOSED", !.successes = 0]

ResetToClosed(b) == [b EXCEPT !.state = "CLOSED", !.failures = 0, !.successes = 0]

\* Wrong variant: a success does not end the row of failures.
SucceededKeepsFailures(b) ==
    IF b.state # "HALF_OPEN" THEN b
    ELSE LET c == [b EXCEPT !.successes = @ + 1]
         IN  IF c.successes >= SuccessThreshold THEN ResetToClosed(c) ELSE c

\* recordSuccess
Succeeded(b) ==
    CASE b.state = "HALF_OPEN" ->
           LET c == [b EXCEPT !.successes = @ + 1]
           IN  IF c.successes >= SuccessThreshold THEN ResetToClosed(c) ELSE c
      [] b.state = "CLOSED" -> [b EXCEPT !.failures = 0]
      [] OTHER -> b

\* recordFailure
Failed(b) ==
    LET c == [b EXCEPT !.failures = Upto(@ + 1, FailureThreshold), !.elapsed = 0]
    IN  IF \/ b.state = "HALF_OPEN"
           \/ b.state = "CLOSED" /\ c.failures >= FailureThreshold
        THEN TripOpen(c) ELSE c
=============================================================================
