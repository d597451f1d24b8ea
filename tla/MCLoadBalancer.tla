--------------------------- MODULE MCLoadBalancer ---------------------------
(* Instances of LoadBalancer for TLC.                                      *)
EXTENDS LoadBalancer

OneTask == {101}
TwoTasks == {101, 102}
TwoWorkers == {1, 2}
ThreeWorkers == {1, 2, 3}

\* Workers at 10, 20 and 30 on the circle, the tasks before and behind them.
Circle == [x \in ThreeWorkers \cup TwoTasks |->
              IF x = 101 THEN 15 ELSE IF x = 102 THEN 35 ELSE 10 * x]

Turns == {"round_robin"}
ByLoadOrHash == {"least_connection", "consistent_hash"}
ByLoad == {"least_connection"}

Nothing == {}
BothResults == {"success", "failure"}
=============================================================================
