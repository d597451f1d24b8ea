------------------------------ MODULE MCWorker ------------------------------
(* Instances of Worker for TLC.                                            *)
EXTENDS Worker

CONSTANTS p1, p2

TwoProcesses == {p1, p2}
OneWorker == {p1}
OneLister == {p2}
=============================================================================
