---------------------------- MODULE MCRedisPool ----------------------------
(* Instances of RedisPool for TLC.                                         *)
EXTENDS RedisPool, TLC

CONSTANTS u1, u2, u3, d1, d2

Users == {u1, u2, u3}
OneReporter == {u1}
TrackerThreads == {d1, d2}

Symmetry == Permutations({u2, u3}) \cup Permutations({d1, d2})
=============================================================================
