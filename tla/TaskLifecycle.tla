--------------------------- MODULE TaskLifecycle ----------------------------
(***************************************************************************)
(* What the deployed scheduler promises about a task record, whatever the  *)
(* queues, threads, connections and restarts in between do: a record is    *)
(* created once, it starts running once, and it is given to one worker,    *)
(* once and for good.                                                      *)
(***************************************************************************)
CONSTANTS Task, Worker, None

VARIABLES phase, owner

vars == <<phase, owner>>

Init ==
    /\ phase = [t \in Task |-> "absent"]
    /\ owner = [t \in Task |-> None]

Create(t) ==
    /\ phase[t] = "absent"
    /\ phase' = [phase EXCEPT ![t] = "pending"]
    /\ UNCHANGED owner

Begin(t) ==
    /\ phase[t] = "pending"
    /\ phase' = [phase EXCEPT ![t] = "running"]
    /\ UNCHANGED owner

Own(t, w) ==
    /\ phase[t] = "running" /\ owner[t] = None
    /\ owner' = [owner EXCEPT ![t] = w]
    /\ UNCHANGED phase

Next == \E t \in Task : Create(t) \/ Begin(t) \/ (\E w \in Worker : Own(t, w))

Spec == Init /\ [][Next]_vars
=============================================================================
