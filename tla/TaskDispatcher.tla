--------------------------- MODULE TaskDispatcher ---------------------------
(***************************************************************************)
(* The scheduler process around Redis: the gRPC threads that submit tasks  *)
(* (SchedulerServiceImpl::SubmitTask, TaskDispatcher::submitTask), the one *)
(* dispatcher thread that pops a task, selects a worker and hands the task *)
(* over (taskDispatchLoop, popNextTask, assignTaskToWorker), the periodic  *)
(* refresh of the known workers, shutdown, crash and restart.              *)
(*                                                                         *)
(* One action is one Redis command (or one locked call of the load         *)
(* balancer), because every thread has a connection of its own and Redis   *)
(* interleaves their commands.  What survives a crash is the state of      *)
(* Redis: the hash task:<id> of each task, the three lists queue:high,     *)
(* queue:medium and queue:low, and the counters worker:load:<id>.          *)
(***************************************************************************)
EXTENDS Integers, Sequences, FiniteSets

CONSTANTS
    Task,        \* task ids, each handed out once by Snowflake::nextId
    Worker,      \* worker ids found in the service registry
    None,        \* the empty string: no task, no worker
    NoKey,       \* the value of a counter that Redis does not hold
    Priorities,  \* the priorities a request may carry
    MaxCrashes,  \* bound: how often the scheduler process is killed
    MaxBreaks    \* bound: how often a Redis connection fails

ASSUME NamesAssumption ==
    /\ None \notin Task \cup Worker
    /\ NoKey \notin Nat
    /\ Priorities \subseteq Int

ASSUME FaultsAssumption == MaxCrashes \in Nat /\ MaxBreaks \in Nat

VARIABLES
    \* Redis
    status,      \* field status of task:<id>; "absent" when there is no hash
    priority,    \* field priority of task:<id>
    worker_id,   \* field worker_id of task:<id>; None when not set
    queue,       \* the three lists
    load,        \* worker:load:<id>
    \* the load balancer
    workers,     \* known worker -> cached current_load
    dead,        \* known workers whose status is "dead"
    \* the scheduler process
    proc,        \* "up", "stopping" (signal received) or "down"
    pool,        \* {"live"}, or {"live", "dead"} once a connection has failed
    sub,         \* SubmitTask of each task: how far it is, what it replied
    dpc,         \* where the dispatcher thread is
    dtask,       \* its task_id
    dworker,     \* its worker_id
    dload,       \* the load it read back from Redis
    conn,        \* its Redis connection, "live" or "dead"
    \* history, read by no action
    atPop,       \* the tasks queued when the current pop began
    crashes, breaks

redisVars == <<status, priority, worker_id, queue, load>>
lbVars == <<workers, dead>>
loopVars == <<dpc, dtask, dworker, dload, conn, atPop>>
faultVars == <<pool, crashes, breaks>>
vars == <<redisVars, lbVars, loopVars, faultVars, proc, sub>>

Classes == {"high", "medium", "low"}

\* Wrong variant: the enum taken to start at 1.
QueueOfOffByOne(p) == CASE p = 3 -> "high"
                        [] p = 2 -> "medium"
                        [] OTHER -> "low"

\* The list a priority is pushed to: 2 and 1 have their own, the rest share one.
QueueOf(p) == CASE p = 2 -> "high"
                [] p = 1 -> "medium"
                [] OTHER -> "low"

Queued(c) == {queue[c][i] : i \in DOMAIN queue[c]}
AllQueued == UNION {Queued(c) : c \in Classes}

LoadOf(w) == IF load[w] = NoKey THEN 0 ELSE load[w]

\* RPUSH of a task to the list of its priority.
Push(t, p) == queue' = [queue EXCEPT ![QueueOf(p)] = Append(@, t)]

\* updateWorkers: new workers start with load 0, the missing ones are erased.
Refreshed(old, S) == [w \in S |-> IF w \in DOMAIN old THEN old[w] ELSE 0]

Selectable == DOMAIN workers \ dead

-----------------------------------------------------------------------------
Init ==
    /\ status = [t \in Task |-> "absent"]
    /\ priority = [t \in Task |-> 0]
    /\ worker_id = [t \in Task |-> None]
    /\ queue = [c \in Classes |-> <<>>]
    /\ load = [w \in Worker |-> NoKey]
    /\ \E S \in SUBSET Worker : workers = [w \in S |-> 0]
    /\ dead = {}
    /\ proc = "up"
    /\ sub = [t \in Task |-> "none"]
    /\ dpc = "top" /\ dtask = None /\ dworker = None
    /\ dload = 0 /\ conn = "live" /\ atPop = {}
    /\ pool = {"live"} /\ crashes = 0 /\ breaks = 0

-----------------------------------------------------------------------------
(* submitTask: HMSET of the record, then RPUSH of the id.                  *)

\* Wrong variant: an id handed out twice overwrites the first record.
SubmitSaveOverwrites(t, p) ==
    /\ proc # "down"
    /\ sub[t] \in {"none", "accepted"}
    /\ sub' = [sub EXCEPT ![t] = "saved"]
    /\ status' = [status EXCEPT ![t] = "pending"]
    /\ priority' = [priority EXCEPT ![t] = p]
    /\ UNCHANGED <<worker_id, queue, load, lbVars, loopVars, faultVars, proc>>

SubmitSave(t, p) ==
    /\ proc # "down"
    /\ sub[t] = "none"
    /\ sub' = [sub EXCEPT ![t] = "saved"]
    /\ status' = [status EXCEPT ![t] = "pending"]
    /\ priority' = [priority EXCEPT ![t] = p]
    /\ UNCHANGED <<worker_id, queue, load, lbVars, loopVars, faultVars, proc>>

\* A dead connection refuses the HMSET: "Failed to submit task".
SubmitRefused(t) ==
    /\ proc # "down" /\ "dead" \in pool
    /\ sub[t] = "none"
    /\ sub' = [sub EXCEPT ![t] = "rejected"]
    /\ UNCHANGED <<redisVars, lbVars, loopVars, faultVars, proc>>

SubmitPush(t) ==
    /\ sub[t] = "saved"
    /\ Push(t, priority[t])
    /\ sub' = [sub EXCEPT ![t] = "accepted"]
    /\ UNCHANGED <<status, priority, worker_id, load, lbVars, loopVars,
                   faultVars, proc>>

-----------------------------------------------------------------------------
(* taskDispatchLoop.                                                       *)

LoopReset ==
    /\ dtask' = None /\ dworker' = None /\ dload' = 0
    /\ conn' = "live" /\ atPop' = {}

LoopTop ==
    /\ dpc = "top"
    /\ IF proc = "up"
       THEN /\ dpc' = "high"
            /\ conn' \in pool
            /\ atPop' = AllQueued
            /\ UNCHANGED <<dtask, dworker, dload>>
       ELSE /\ proc = "stopping"
            /\ dpc' = "stopped"
            /\ UNCHANGED <<dtask, dworker, dload, conn, atPop>>
    /\ UNCHANGED <<redisVars, lbVars, faultVars, proc, sub>>

\* Wrong variant: two lists are looked at.
NextClassSkips(c) == "low"

NextClass(c) == IF c = "high" THEN "medium" ELSE "low"

\* Wrong variant: reads the head of the list and leaves it there.
LpopPeeks(c) ==
    /\ dpc = c
    /\ IF conn = "live" /\ queue[c] # <<>>
       THEN /\ dtask' = Head(queue[c])
            /\ dpc' = "select"
            /\ UNCHANGED <<dworker, dload, conn, atPop>>
       ELSE IF c = "low"
            THEN dpc' = "top" /\ LoopReset
            ELSE dpc' = NextClass(c) /\ UNCHANGED <<dtask, dworker, dload, conn, atPop>>
    /\ UNCHANGED <<redisVars, lbVars, faultVars, proc, sub>>

\* One LPOP of popFromPriorityQueue; an empty reply falls through to the next.
Lpop(c) ==
    /\ dpc = c
    /\ IF conn = "live" /\ queue[c] # <<>>
       THEN /\ dtask' = Head(queue[c])
            /\ queue' = [queue EXCEPT ![c] = Tail(@)]
            /\ dpc' = "select"
            /\ UNCHANGED <<dworker, dload, conn, atPop>>
       ELSE /\ UNCHANGED queue
            /\ IF c = "low"
               THEN dpc' = "top" /\ LoopReset
               ELSE /\ dpc' = NextClass(c)
                    /\ UNCHANGED <<dtask, dworker, dload, conn, atPop>>
    /\ UNCHANGED <<status, priority, worker_id, load, lbVars, faultVars, proc, sub>>

\* selectWorker: some active worker (module LoadBalancer says which one).
Select ==
    /\ dpc = "select"
    /\ conn' \in pool
    /\ IF Selectable = {}
       THEN dpc' = "requeue" /\ UNCHANGED dworker
       ELSE dpc' = "assign" /\ dworker' \in Selectable
    /\ UNCHANGED <<dtask, dload, atPop, redisVars, lbVars, faultVars, proc, sub>>

\* Wrong variant: gives the task up when no worker is available.
RequeueForgets ==
    /\ dpc = "requeue"
    /\ dpc' = "top" /\ LoopReset
    /\ UNCHANGED <<redisVars, lbVars, faultVars, proc, sub>>

\* getTask for the priority, then RPUSH; the result of neither is looked at.
Requeue ==
    /\ dpc = "requeue"
    /\ IF conn = "live" THEN Push(dtask, priority[dtask]) ELSE UNCHANGED queue
    /\ dpc' = "top" /\ LoopReset
    /\ UNCHANGED <<status, priority, worker_id, load, lbVars, faultVars, proc, sub>>

AssignStatus ==
    /\ dpc = "assign"
    /\ status' = [status EXCEPT ![dtask] = IF conn = "live" THEN "running" ELSE @]
    /\ dpc' = "setWorker"
    /\ UNCHANGED <<dtask, dworker, dload, conn, atPop, priority, worker_id, queue,
                   load, lbVars, faultVars, proc, sub>>

AssignWorker ==
    /\ dpc = "setWorker"
    /\ worker_id' = [worker_id EXCEPT ![dtask] = IF conn = "live" THEN dworker ELSE @]
    /\ dpc' = "incr"
    /\ UNCHANGED <<dtask, dworker, dload, conn, atPop, status, priority, queue,
                   load, lbVars, faultVars, proc, sub>>

\* Wrong variant: skips the INCR when the worker left since it was selected.
IncrLoadOfKnown ==
    /\ dpc = "incr"
    /\ load' = IF conn = "live" /\ dworker \in DOMAIN workers
               THEN [load EXCEPT ![dworker] = LoadOf(dworker) + 1] ELSE load
    /\ dpc' = "readLoad"
    /\ UNCHANGED <<dtask, dworker, dload, conn, atPop, status, priority, worker_id,
                   queue, lbVars, faultVars, proc, sub>>

IncrLoad ==
    /\ dpc = "incr"
    /\ load' = IF conn = "live" THEN [load EXCEPT ![dworker] = LoadOf(dworker) + 1] ELSE load
    /\ dpc' = "readLoad"
    /\ UNCHANGED <<dtask, dworker, dload, conn, atPop, status, priority, worker_id,
                   queue, lbVars, faultVars, proc, sub>>

ReadLoad ==
    /\ dpc = "readLoad"
    /\ dload' = IF conn = "live" THEN LoadOf(dworker) ELSE 0
    /\ dpc' = "cacheLoad"
    /\ UNCHANGED <<dtask, dworker, conn, atPop, redisVars, lbVars, faultVars,
                   proc, sub>>

CacheLoad ==
    /\ dpc = "cacheLoad"
    /\ workers' = IF dworker \in DOMAIN workers
                  THEN [workers EXCEPT ![dworker] = dload] ELSE workers
    /\ dpc' = "top" /\ LoopReset
    /\ UNCHANGED <<redisVars, dead, faultVars, proc, sub>>

Dispatch ==
    \/ LoopTop \/ (\E c \in Classes : Lpop(c)) \/ Select \/ Requeue
    \/ AssignStatus \/ AssignWorker \/ IncrLoad \/ ReadLoad \/ CacheLoad

-----------------------------------------------------------------------------
(* The other threads of the process, as far as dispatching depends on them.*)

\* Wrong variant: keeps the status of a worker it erases.
UpdateWorkersKeepsDead(S) ==
    /\ proc # "down"
    /\ workers' = Refreshed(workers, S)
    /\ UNCHANGED <<dead, redisVars, loopVars, faultVars, proc, sub>>

UpdateWorkers(S) ==
    /\ proc # "down"
    /\ workers' = Refreshed(workers, S)
    /\ dead' = dead \cap S
    /\ UNCHANGED <<redisVars, loopVars, faultVars, proc, sub>>

MarkWorkerDead(w) ==
    /\ proc # "down"
    /\ w \in DOMAIN workers
    /\ dead' = dead \cup {w}
    /\ UNCHANGED <<redisVars, workers, loopVars, faultVars, proc, sub>>

Signal ==
    /\ proc = "up"
    /\ proc' = "stopping"
    /\ UNCHANGED <<redisVars, lbVars, loopVars, faultVars, sub>>

\* The load balancer and the pool live in the process.
ProcessGone == workers' = [w \in {} |-> 0] /\ dead' = {} /\ pool' = {"live"}

\* Wrong variant: exits without joining the dispatcher thread.
ShutdownWithoutJoin ==
    /\ proc = "stopping"
    /\ \A t \in Task : sub[t] # "saved"
    /\ proc' = "down"
    /\ ProcessGone
    /\ UNCHANGED <<redisVars, loopVars, crashes, breaks, sub>>

\* The dispatcher is joined first; server->Shutdown() waits for the handlers.
Shutdown ==
    /\ proc = "stopping" /\ dpc = "stopped"
    /\ \A t \in Task : sub[t] # "saved"
    /\ proc' = "down"
    /\ ProcessGone
    /\ UNCHANGED <<redisVars, loopVars, crashes, breaks, sub>>

\* A new process: fresh connections, workers as the registry lists them.
Start ==
    /\ proc = "down"
    /\ proc' = "up"
    /\ dpc' = "top" /\ LoopReset
    /\ \E S \in SUBSET Worker : workers' = [w \in S |-> 0]
    /\ dead' = {} /\ pool' = {"live"}
    /\ UNCHANGED <<redisVars, crashes, breaks, sub>>

-----------------------------------------------------------------------------
(* Faults.                                                                 *)

Crash ==
    /\ proc # "down" /\ crashes < MaxCrashes
    /\ crashes' = crashes + 1
    /\ proc' = "down"
    /\ sub' = [t \in Task |-> IF sub[t] = "saved" THEN "aborted" ELSE sub[t]]
    /\ dpc' = "stopped" /\ LoopReset
    /\ ProcessGone
    /\ UNCHANGED <<redisVars, breaks>>

\* A connection fails; the pool keeps it, for connected_ stays true.
Break ==
    /\ proc # "down" /\ breaks < MaxBreaks
    /\ breaks' = breaks + 1
    /\ pool' = pool \cup {"dead"}
    /\ UNCHANGED <<crashes, proc, lbVars>>

\* The command was executed, its reply is lost: submitTask returns false.
BreakSave(t, p) ==
    /\ Break
    /\ sub[t] = "none"
    /\ sub' = [sub EXCEPT ![t] = "rejected"]
    /\ status' = [status EXCEPT ![t] = "pending"]
    /\ priority' = [priority EXCEPT ![t] = p]
    /\ UNCHANGED <<worker_id, queue, load, loopVars>>

BreakPush(t, executed) ==
    /\ Break
    /\ sub[t] = "saved"
    /\ sub' = [sub EXCEPT ![t] = "rejected"]
    /\ IF executed THEN Push(t, priority[t]) ELSE UNCHANGED queue
    /\ UNCHANGED <<status, priority, worker_id, load, loopVars>>

\* LPOP removed the head, the reply is lost: the loop sees an empty queue.
BreakLpop(c) ==
    /\ Break
    /\ dpc = c /\ conn = "live" /\ queue[c] # <<>>
    /\ queue' = [queue EXCEPT ![c] = Tail(@)]
    /\ conn' = "dead"
    /\ UNCHANGED <<status, priority, worker_id, load, dpc, dtask, dworker, dload,
                   atPop, sub>>

BreakLoop ==
    /\ Break
    /\ conn = "live"
    /\ dpc \in Classes \cup {"requeue", "assign", "setWorker", "incr", "readLoad"}
    /\ conn' = "dead"
    /\ UNCHANGED <<redisVars, dpc, dtask, dworker, dload, atPop, sub>>

Fault ==
    \/ Crash
    \/ \E t \in Task : (\E p \in Priorities : BreakSave(t, p))
                       \/ (\E executed \in BOOLEAN : BreakPush(t, executed))
    \/ \E c \in Classes : BreakLpop(c)
    \/ BreakLoop

-----------------------------------------------------------------------------
Submit(t) == (\E p \in Priorities : SubmitSave(t, p)) \/ SubmitRefused(t) \/ SubmitPush(t)

Environment ==
    \/ \E S \in SUBSET Worker : UpdateWorkers(S)
    \/ \E w \in Worker : MarkWorkerDead(w)
    \/ Signal \/ Shutdown \/ Start

Next == (\E t \in Task : Submit(t)) \/ Dispatch \/ Environment \/ Fault

Spec == Init /\ [][Next]_vars

\* The threads run: a loop iteration is not suspended for ever and a
\* submission that has saved its record goes on to push it.
Fairness == WF_vars(Dispatch) /\ \A t \in Task : WF_vars(SubmitPush(t))

FairSpec == Spec /\ Fairness
-----------------------------------------------------------------------------
(* Properties.                                                             *)

RedisTypeOK ==
    /\ status \in [Task -> {"absent", "pending", "running"}]
    /\ priority \in [Task -> Priorities \cup {0}]
    /\ worker_id \in [Task -> Worker \cup {None}]
    /\ queue \in [Classes -> Seq(Task)]
    /\ load \in [Worker -> Nat \cup {NoKey}]

BalancerTypeOK ==
    /\ \E S \in SUBSET Worker : workers \in [S -> Nat]
    /\ dead \subseteq DOMAIN workers

LoopTypeOK ==
    /\ dpc \in Classes \cup {"top", "select", "requeue", "assign", "setWorker",
                             "incr", "readLoad", "cacheLoad", "stopped"}
    /\ dtask \in Task \cup {None} /\ dworker \in Worker \cup {None}
    /\ dload \in Nat /\ conn \in {"live", "dead"}
    /\ atPop \subseteq Task

ProcessTypeOK ==
    /\ proc \in {"up", "stopping", "down"}
    /\ sub \in [Task -> {"none", "saved", "accepted", "rejected", "aborted"}]
    /\ pool \in {{"live"}, {"live", "dead"}}
    /\ crashes \in 0..MaxCrashes /\ breaks \in 0..MaxBreaks

(* The variables hold what the program can hold; a dead worker is a known  *)
(* one, for updateWorkers erases the node together with its status.        *)
TypeOK == RedisTypeOK /\ BalancerTypeOK /\ LoopTypeOK /\ ProcessTypeOK

\* The dispatcher has popped dtask and not yet marked it running.
Holding == dpc \in {"select", "requeue", "assign"}

\* No id twice in the lists.
NoDuplicates ==
    \A c, d \in Classes : \A i \in DOMAIN queue[c], j \in DOMAIN queue[d] :
        queue[c][i] = queue[d][j] => c = d /\ i = j

\* A record that was saved and not yet given to a worker.
Unassigned(t) == status[t] = "pending" /\ worker_id[t] = None

(* A task is never in two places: once in the lists or in the hands of the *)
(* dispatcher, and in either place nobody has been given it.  A second     *)
(* copy would be dispatched twice, since a pop does not look at the status.*)
AtOnePlace ==
    /\ NoDuplicates
    /\ \A t \in AllQueued : Unassigned(t)
    /\ Holding => dtask \notin AllQueued /\ Unassigned(dtask)

\* Accepted, not running, and no longer anywhere it could be run from.
Lost == {t \in Task : /\ sub[t] = "accepted" /\ status[t] = "pending"
                      /\ t \notin AllQueued
                      /\ ~(Holding /\ dtask = t)}

(* An accepted task is lost only by a fault, and a crash loses one task at *)
(* most: the one taken off its list and not yet handed over.  Signals,     *)
(* joins, restarts, workers that come and go and re-queueing lose none.    *)
BoundedLoss == breaks = 0 => Cardinality(Lost) <= crashes

\* The dispatcher has named w in the record and still has to do the INCR.
Counting(w) == IF dpc = "incr" /\ conn = "live" /\ dworker = w THEN 1 ELSE 0

Owned(w) == {t \in Task : worker_id[t] = w}

(* worker:load:<w> counts the tasks handed to w: never more than those,    *)
(* and less only by the faults that struck between the HSET and the INCR.  *)
LoadAccounting ==
    \A w \in Worker :
        LET owned == Cardinality(Owned(w)) - Counting(w)
        IN  LoadOf(w) <= owned /\ owned - LoadOf(w) <= crashes + breaks

\* How urgent a task is: 2 is high, 1 is medium, anything else is low.
Level(t) == IF priority[t] \in {1, 2} THEN priority[t] ELSE 0

(* The popped task is as urgent as any that was queued when the pop began, *)
(* though the three LPOPs are separate commands and tasks arrive between.  *)
PopsHighestFirst == Holding => \A t \in atPop : Level(t) <= Level(dtask)

(* Every behaviour of the records is one TaskLifecycle allows: no crash,   *)
(* re-queue or restart runs a task twice or changes its worker.            *)
Lifecycle == INSTANCE TaskLifecycle WITH phase <- status, owner <- worker_id

ImplementsLifecycle == Lifecycle!Spec

\* The counters never go down: from some time on is from the start.
NoFaults == <>[](crashes = 0 /\ breaks = 0)

\* From some time on nothing more urgent than t is queued.
NothingBefore(t) == <>[](\A u \in AllQueued : Level(u) <= Level(t))

(* Without faults an accepted task is dispatched, provided the scheduler   *)
(* stays up, always has some worker to select, and more urgent tasks stop  *)
(* coming: going back to the tail with every Requeue, equally or less      *)
(* urgent tasks, and workers that come and go starve nobody.  A steady     *)
(* stream of more urgent tasks does: the pop asks the high list first,     *)
(* each time (redis_client.cpp:431-439), and the code has no aging.        *)
(* Accepted and running are for good, so that []<> says eventually.        *)
EventuallyDispatched ==
    NoFaults /\ <>[](proc = "up") /\ <>[](Selectable # {}) =>
        \A t \in Task :
            NothingBefore(t) => []<>(sub[t] = "accepted" => status[t] = "running")

(* README.md:13 gives workers the execution of tasks: one that was handed  *)
(* to a worker ends as a success (2) or a failure (3).                     *)
EventuallyFinished ==
    \A t \in Task : (status[t] = "running") ~> (status[t] \in {"success", "failed"})
=============================================================================
