---------------------------- MODULE MCSnowflake -----------------------------
(* Instances of Snowflake for TLC.                                         *)
EXTENDS Snowflake, TLC

CONSTANTS c1, c2

TwoCallers == {c1, c2}
Symmetry == Permutations(Caller)
=============================================================================
