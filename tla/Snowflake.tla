------------------------------ MODULE Snowflake -----------------------------
(***************************************************************************)
(* The task-id generator (common/snowflake.cpp): gRPC threads call nextId, *)
(* which runs under one mutex.  When the sequence of a millisecond is used *)
(* up the caller spins in waitNextMillis and keeps the mutex.  The system  *)
(* clock may be stepped back, and the process may be restarted, which      *)
(* forgets last_timestamp_ and sequence_.  Times are milliseconds since    *)
(* kTwepoch; datacenter_id_ is always 0.                                   *)
(***************************************************************************)
EXTENDS Integers, Sequences

CONSTANTS
    Caller,        \* threads that call nextId
    None,
    SequenceSize,  \* kSequenceMask + 1, 4096 in the code
    WorkerId,      \* the argument of init, 1 in the scheduler
    MaxClock,      \* bound: the clock stops here unless a thread waits for it
    MaxIds,        \* bound: ids handed out
    MaxStepsBack,  \* bound: how often the clock is stepped back
    MaxRestarts    \* bound: how often the process is restarted

ASSUME IdAssumption ==
    /\ None \notin Caller
    /\ SequenceSize \in Nat \ {0}
    /\ WorkerId \in 0..31

VARIABLES
    clock,           \* the system clock
    last_timestamp, sequence,
    pc,              \* each thread: "idle", "want" the mutex, or "spin" with it
    issued,          \* the ids returned by this process, in order
    earlier,         \* the ids returned by its predecessors
    stepsBack, restarts

generator == <<last_timestamp, sequence>>
bounds == <<stepsBack, restarts>>
vars == <<clock, generator, pc, issued, earlier, bounds>>

\* Five bits of datacenter, five bits of worker, then the sequence.
Id(ts, s) == ts * (1024 * SequenceSize) + (WorkerId * SequenceSize + s)

Spinning == \E c \in Caller : pc[c] = "spin"

Init ==
    /\ clock = 0
    /\ last_timestamp = -1 /\ sequence = 0
    /\ pc = [c \in Caller |-> "idle"]
    /\ issued = <<>> /\ earlier = {}
    /\ stepsBack = 0 /\ restarts = 0

Call(c) ==
    /\ pc[c] = "idle"
    /\ Len(issued) < MaxIds
    /\ pc' = [pc EXCEPT ![c] = "want"]
    /\ UNCHANGED <<clock, generator, issued, earlier, bounds>>

\* Return with the id of timestamp ts and sequence number s.
Return(c, ts, s) ==
    /\ last_timestamp' = ts /\ sequence' = s
    /\ issued' = Append(issued, Id(ts, s))
    /\ pc' = [pc EXCEPT ![c] = "idle"]

\* The clock is behind the last id: nextIdLocked throws.
Throw(c) ==
    /\ pc[c] = "want" /\ ~Spinning
    /\ clock < last_timestamp
    /\ pc' = [pc EXCEPT ![c] = "idle"]
    /\ UNCHANGED <<clock, generator, issued, earlier, bounds>>

\* Wrong variant: does not look whether the sequence wrapped.
SameMillisNoWait(c) ==
    /\ pc[c] = "want" /\ ~Spinning
    /\ clock = last_timestamp
    /\ Return(c, clock, (sequence + 1) % SequenceSize)
    /\ UNCHANGED <<clock, earlier, bounds>>

\* Another id in the same millisecond, or a wait for the next one.
SameMillis(c) ==
    /\ pc[c] = "want" /\ ~Spinning
    /\ clock = last_timestamp
    /\ LET next == (sequence + 1) % SequenceSize IN
       IF next # 0
       THEN Return(c, clock, next)
       ELSE /\ sequence' = 0
            /\ pc' = [pc EXCEPT ![c] = "spin"]
            /\ UNCHANGED <<last_timestamp, issued>>
    /\ UNCHANGED <<clock, earlier, bounds>>

\* Wrong variant: goes on counting where the last millisecond stopped.
NewMillisKeepsSequence(c) ==
    /\ pc[c] = "want" /\ ~Spinning
    /\ clock > last_timestamp
    /\ Return(c, clock, sequence + 1)
    /\ UNCHANGED <<clock, earlier, bounds>>

NewMillis(c) ==
    /\ pc[c] = "want" /\ ~Spinning
    /\ clock > last_timestamp
    /\ Return(c, clock, 0)
    /\ UNCHANGED <<clock, earlier, bounds>>

\* Wrong variant: compares the timestamp it was given, never a new reading.
WaitNextMillisStale(c) ==
    /\ pc[c] = "spin"
    /\ last_timestamp > last_timestamp
    /\ Return(c, clock, sequence)
    /\ UNCHANGED <<clock, earlier, bounds>>

\* Wrong variant: takes the next millisecond before the clock has reached it.
WaitNextMillisBorrows(c) ==
    /\ pc[c] = "spin"
    /\ Return(c, last_timestamp + 1, sequence)
    /\ UNCHANGED <<clock, earlier, bounds>>

\* waitNextMillis leaves its loop and nextIdLocked returns.
WaitNextMillis(c) ==
    /\ pc[c] = "spin"
    /\ clock > last_timestamp
    /\ Return(c, clock, sequence)
    /\ UNCHANGED <<clock, earlier, bounds>>

NextId(c) == Throw(c) \/ SameMillis(c) \/ NewMillis(c) \/ WaitNextMillis(c)

Tick ==
    /\ clock < MaxClock \/ (Spinning /\ clock <= last_timestamp)
    /\ clock' = clock + 1
    /\ UNCHANGED <<generator, pc, issued, earlier, bounds>>

\* NTP or an operator sets the clock back.
StepBack ==
    /\ stepsBack < MaxStepsBack
    /\ stepsBack' = stepsBack + 1
    /\ clock' \in 0..(clock - 1)
    /\ UNCHANGED <<generator, pc, issued, earlier, restarts>>

\* The process dies and comes back, which takes longer than a millisecond.
Restart ==
    /\ restarts < MaxRestarts
    /\ restarts' = restarts + 1
    /\ clock' = clock + 1
    /\ last_timestamp' = -1 /\ sequence' = 0
    /\ pc' = [c \in Caller |-> "idle"]
    /\ issued' = <<>>
    /\ earlier' = earlier \cup {issued[i] : i \in DOMAIN issued}
    /\ UNCHANGED stepsBack

Next ==
    \/ \E c \in Caller : Call(c) \/ NextId(c)
    \/ Tick \/ StepBack \/ Restart

Spec == Init /\ [][Next]_vars

\* The thread that can take the mutex or leave the loop does, and time passes.
FairSpec == Spec /\ WF_vars(Tick) /\ \A c \in Caller : WF_vars(NextId(c))

-----------------------------------------------------------------------------
TypeOK ==
    /\ clock \in Nat
    /\ last_timestamp \in Nat \cup {-1}
    /\ sequence \in 0..(SequenceSize - 1)
    /\ pc \in [Caller -> {"idle", "want", "spin"}]
    /\ issued \in Seq(Nat)
    /\ stepsBack \in Nat /\ restarts \in Nat

(* Within one process every id is larger than the ones before it, however  *)
(* the clock is stepped back and whoever waits for the next millisecond.   *)
StrictlyIncreasing ==
    \A i, j \in DOMAIN issued : i < j => issued[i] < issued[j]

(* No id is handed out twice, over all processes: the code cannot promise  *)
(* as much, for a restart forgets last_timestamp_.                         *)
UniqueAcrossRestarts ==
    /\ \A i, j \in DOMAIN issued : issued[i] = issued[j] => i = j
    /\ \A i \in DOMAIN issued : issued[i] \notin earlier

(* While nobody steps the clock back, restarts repeat no id either: what a *)
(* new process forgets, the clock still knows.                             *)
UniqueUnlessSteppedBack == stepsBack = 0 => UniqueAcrossRestarts

(* Every call returns, with an id or an exception, though a thread waits   *)
(* for the clock while it keeps the mutex from all the others.             *)
EveryCallReturns == \A c \in Caller : (pc[c] # "idle") ~> (pc[c] = "idle")
=============================================================================
