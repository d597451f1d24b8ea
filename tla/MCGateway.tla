----------------------------- MODULE MCGateway -----------------------------
(* Instances of Gateway for TLC.                                           *)
EXTENDS Gateway

CONSTANTS t1, t2, t3, w1, c1, k1, k2

TwoTasks == {t1, t2}
ThreeTasks == {t1, t2, t3}
OneWorker == {w1}
OneClient == {c1}
TwoConns == {k1, k2}
OneConn == {k1}
OnePriority == {1}
HighAndMedium == {1, 2}
=============================================================================
