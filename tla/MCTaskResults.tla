--------------------------- MODULE MCTaskResults ---------------------------
(* An instance of TaskResults for TLC.                                     *)
EXTENDS TaskResults

CONSTANTS t1, t2, w1, w2, c1, c2

TwoTasks == {t1, t2}
TwoWorkers == {w1, w2}
TwoCallers == {c1, c2}
OneTwice == [t \in Task |-> IF t = t1 THEN 1 ELSE 0]
=============================================================================
