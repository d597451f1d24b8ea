-------------------------- MODULE MCTaskDispatcher --------------------------
(* Instances of TaskDispatcher for TLC.                                    *)
EXTENDS TaskDispatcher, TLC

CONSTANTS t1, t2, w1, w2

TwoTasks == {t1, t2}
OneWorker == {w1}
TwoWorkers == {w1, w2}
AllPriorities == {0, 1, 2}
TwoPriorities == {0, 2}

Symmetry == Permutations(Task) \cup Permutations(Worker)
=============================================================================
