---------------------------- MODULE TaskResults ----------------------------
(***************************************************************************)
(* What is reported of the tasks: completeTask, failTask and retryTask of  *)
(* the TaskDispatcher, which any number of threads may call at any time    *)
(* for any task, with assignTaskToWorker of the dispatcher thread between  *)
(* them.  All of them work on the counters worker:load:<id> and the fields *)
(* of task:<id>, one Redis command at a time; none of them looks at the    *)
(* status of the task or at who else is at work on it.                     *)
(*                                                                         *)
(* The program has no caller of the three functions.  A hand-over is       *)
(* reported at least once here; any further call, of a task that is        *)
(* queued, running or ended, is a repeated report, MaxExtra of each task.  *)
(* Crashes and failed connections are in TaskDispatcher; updateWorkerLoad, *)
(* recordSuccess and recordFailure, with which the calls inform the load   *)
(* balancer, are operations of LoadBalancer.                               *)
(***************************************************************************)
EXTENDS Integers, FiniteSets

CONSTANTS
    Task,
    Worker,
    Caller,      \* threads that report
    Dispatcher,  \* the dispatcher thread
    None,        \* no task, no worker
    RetryLimit,  \* retries granted to a task; 3 in retryTask
    MaxExtra     \* bound on the repeated reports of each task

Thread == Caller \cup {Dispatcher}

ASSUME ResultsAssumption ==
    /\ None \notin Worker /\ None \notin Task /\ Dispatcher \notin Caller
    /\ RetryLimit \in Nat /\ MaxExtra \in [Task -> Nat]

VARIABLES
    \* Redis
    queued,     \* how often the task is in the lists
    status, worker_id, retry_count,   \* fields of task:<id>
    load, keys, \* worker:load:<id>, 0 while the key is missing, and the keys there are
    \* the call each thread is in, and its local variables
    call, pc, task, worker, seen, retry,
    \* history: what the callers still owe and what they have done twice
    out,        \* hand-overs nobody has reported yet
    extra,      \* repeated reports of the task
    runs,       \* how often the task was handed over, up to RetryLimit + 2
    hosts       \* the workers the task was assigned to

redisVars == <<queued, status, worker_id, retry_count, load, keys>>
localVars == <<task, worker, seen, retry>>
history == <<out, extra, runs, hosts>>
vars == <<redisVars, call, pc, localVars, history>>

Reports == {"complete", "fail", "retry"}
Goto(th, label) == pc' = [pc EXCEPT ![th] = label]

\* All tasks are submitted, in the lists.
Init ==
    /\ queued = [t \in Task |-> 1] /\ status = [t \in Task |-> "pending"]
    /\ worker_id = [t \in Task |-> None] /\ retry_count = [t \in Task |-> 0]
    /\ load = [w \in Worker |-> 0] /\ keys = {}
    /\ call = [th \in Thread |-> "none"] /\ pc = [th \in Thread |-> "idle"]
    /\ task = [th \in Thread |-> None] /\ worker = [th \in Thread |-> None]
    /\ seen = [th \in Thread |-> 0] /\ retry = [th \in Thread |-> 0]
    /\ out = [t \in Task |-> 0] /\ extra = [t \in Task |-> 0]
    /\ runs = [t \in Task |-> 0] /\ hosts = [t \in Task |-> {}]

\* The local variables are gone with the call.
Return(th) ==
    /\ call' = [call EXCEPT ![th] = "none"] /\ Goto(th, "idle")
    /\ task' = [task EXCEPT ![th] = None] /\ worker' = [worker EXCEPT ![th] = None]
    /\ seen' = [seen EXCEPT ![th] = 0] /\ retry' = [retry EXCEPT ![th] = 0]

GoOn(th, label) == Goto(th, label) /\ UNCHANGED <<call, localVars>>

-----------------------------------------------------------------------------
(* assignTaskToWorker, called by the one dispatcher thread.                *)

\* The pop and selectWorker, both before the call.
Pop(t, w) ==
    /\ call[Dispatcher] = "none" /\ queued[t] > 0
    /\ queued' = [queued EXCEPT ![t] = @ - 1]
    /\ call' = [call EXCEPT ![Dispatcher] = "assign"]
    /\ task' = [task EXCEPT ![Dispatcher] = t]
    /\ worker' = [worker EXCEPT ![Dispatcher] = w]
    /\ Goto(Dispatcher, "status")
    /\ UNCHANGED <<status, worker_id, retry_count, load, keys, seen, retry, history>>

SetRunning(th) ==
    /\ pc[th] = "status"
    /\ status' = [status EXCEPT ![task[th]] = "running"]
    /\ Goto(th, "owner")
    /\ UNCHANGED <<queued, worker_id, retry_count, load, keys, call, localVars, history>>

SetOwner(th) ==
    /\ pc[th] = "owner"
    /\ worker_id' = [worker_id EXCEPT ![task[th]] = worker[th]]
    /\ hosts' = [hosts EXCEPT ![task[th]] = @ \cup {worker[th]}]
    /\ Goto(th, "incr")
    /\ UNCHANGED <<queued, status, retry_count, load, keys, call, localVars, out, extra, runs>>

\* With the end of assignTaskToWorker the task is handed over.
IncrementLoad(th) ==
    LET t == task[th] IN
    /\ pc[th] = "incr"
    /\ load' = [load EXCEPT ![worker[th]] = @ + 1]
    /\ keys' = keys \cup {worker[th]}
    /\ out' = [out EXCEPT ![t] = @ + 1]
    /\ runs' = [runs EXCEPT ![t] = IF @ <= RetryLimit + 1 THEN @ + 1 ELSE @]
    /\ Return(th)
    /\ UNCHANGED <<queued, status, worker_id, retry_count, extra, hosts>>

-----------------------------------------------------------------------------
(* completeTask, failTask, retryTask.                                      *)

\* Wrong variant: one retry too many.
ExhaustedPastLimit(t) == retry_count[t] > RetryLimit

\* getTask(task_id).retry_count >= 3
Exhausted(t) == retry_count[t] >= RetryLimit

\* The call and its first command: HGET worker_id in completeTask and failTask,
\* getTask(task_id).retry_count in retryTask. When retryTask refuses, who
\* reports a hand-over goes on to fail the task; a repeated call just returns.
Enter(c, t, function) ==
    /\ call[c] = "none"
    /\ task' = [task EXCEPT ![c] = t]
    /\ \/ /\ function \in {"complete", "fail"}
          /\ call' = [call EXCEPT ![c] = function] /\ Goto(c, "finish")
          /\ worker' = [worker EXCEPT ![c] = worker_id[t]]
       \/ /\ function = "retry"
          /\ call' = [call EXCEPT ![c] = IF Exhausted(t) THEN "fail" ELSE "retry"]
          /\ Goto(c, "findOwner")
          /\ UNCHANGED worker
    /\ UNCHANGED <<redisVars, seen, retry, runs, hosts>>

\* A hand-over is reported.
ReportOnce(c, t, function) ==
    /\ out[t] > 0
    /\ out' = [out EXCEPT ![t] = @ - 1] /\ UNCHANGED extra
    /\ Enter(c, t, function)

\* A task is reported that is not handed over, or again.
ReportAgain(c, t, function) ==
    /\ extra[t] < MaxExtra[t] /\ ~(function = "retry" /\ Exhausted(t))
    /\ extra' = [extra EXCEPT ![t] = @ + 1] /\ UNCHANGED out
    /\ Enter(c, t, function)

\* HGET worker_id; a task that was never assigned has none.
FindOwner(c) ==
    LET owner == worker_id[task[c]] IN
    /\ pc[c] = "findOwner"
    /\ worker' = [worker EXCEPT ![c] = owner]
    /\ Goto(c, CASE call[c] = "fail" -> "finish"
                 [] call[c] = "retry" /\ owner # None -> "readLoad"
                 [] OTHER -> "readCount")
    /\ UNCHANGED <<redisVars, call, task, seen, retry, history>>

\* Wrong variant: takes the load off a worker, whether there is one or not.
FinishAnyOwner(c) ==
    /\ pc[c] = "finish"
    /\ status' = [status EXCEPT ![task[c]] = IF call[c] = "complete" THEN "success" ELSE "failed"]
    /\ Goto(c, "readLoad")
    /\ UNCHANGED <<queued, worker_id, retry_count, load, keys, call, localVars, history>>

\* updateTaskStatus with 2 or 3, whatever the status is.
Finish(c) ==
    /\ pc[c] = "finish"
    /\ status' = [status EXCEPT ![task[c]] = IF call[c] = "complete" THEN "success" ELSE "failed"]
    /\ IF worker[c] = None THEN Return(c) ELSE GoOn(c, "readLoad")
    /\ UNCHANGED <<queued, worker_id, retry_count, load, keys, out, extra, runs, hosts>>

\* decrementWorkerLoad is two commands: GET, and INCRBY if that was positive.
\* std::stoll throws on the empty answer for a missing key, and nothing more
\* of the call is done.
ReadLoad(c) ==
    /\ pc[c] = "readLoad"
    /\ IF worker[c] \in keys
       THEN /\ seen' = [seen EXCEPT ![c] = load[worker[c]]] /\ Goto(c, "decr")
            /\ UNCHANGED <<call, task, worker, retry>>
       ELSE Return(c)
    /\ UNCHANGED <<redisVars, out, extra, runs, hosts>>

\* Wrong variant: writes the difference to what it has read.
DecrementSeen(c) ==
    /\ pc[c] = "decr"
    /\ load' = [load EXCEPT ![worker[c]] = IF seen[c] > 0 THEN seen[c] - 1 ELSE @]
    /\ IF call[c] = "retry" THEN GoOn(c, "readCount") ELSE Return(c)
    /\ UNCHANGED <<queued, status, worker_id, retry_count, keys, out, extra, runs, hosts>>

Decrement(c) ==
    /\ pc[c] = "decr"
    /\ load' = [load EXCEPT ![worker[c]] = IF seen[c] > 0 THEN @ - 1 ELSE @]
    /\ IF call[c] = "retry" THEN GoOn(c, "readCount") ELSE Return(c)
    /\ UNCHANGED <<queued, status, worker_id, retry_count, keys, out, extra, runs, hosts>>

\* incrementTaskRetry: HGET, then HSET.
ReadCount(c) ==
    /\ pc[c] = "readCount"
    /\ retry' = [retry EXCEPT ![c] = retry_count[task[c]]]
    /\ Goto(c, "writeCount")
    /\ UNCHANGED <<redisVars, call, task, worker, seen, history>>

\* Wrong variant: writes back what it has read.
WriteCountUnchanged(c) ==
    /\ pc[c] = "writeCount"
    /\ retry_count' = [retry_count EXCEPT ![task[c]] = retry[c]]
    /\ Goto(c, "push")
    /\ UNCHANGED <<queued, status, worker_id, load, keys, call, localVars, history>>

WriteCount(c) ==
    /\ pc[c] = "writeCount"
    /\ retry_count' = [retry_count EXCEPT ![task[c]] = retry[c] + 1]
    /\ Goto(c, "push")
    /\ UNCHANGED <<queued, status, worker_id, load, keys, call, localVars, history>>

\* The push is immediate: the key retry:<delay>:<id> is read by nobody.
PushAgain(c) ==
    /\ pc[c] = "push"
    /\ queued' = [queued EXCEPT ![task[c]] = @ + 1]
    /\ Return(c)
    /\ UNCHANGED <<status, worker_id, retry_count, load, keys, out, extra, runs, hosts>>

Command(th) ==
    \/ SetRunning(th) \/ SetOwner(th) \/ IncrementLoad(th)
    \/ FindOwner(th) \/ Finish(th) \/ ReadLoad(th)
    \/ Decrement(th) \/ ReadCount(th) \/ WriteCount(th) \/ PushAgain(th)

Report(t) == \E c \in Caller, function \in Reports : ReportOnce(c, t, function)

Next ==
    \/ \E t \in Task, w \in Worker : Pop(t, w)
    \/ \E t \in Task : Report(t)
    \/ \E c \in Caller, t \in Task, function \in Reports : ReportAgain(c, t, function)
    \/ \E th \in Thread : Command(th)

Spec == Init /\ [][Next]_vars

\* The dispatcher thread runs, hand-overs are reported and calls go on.
Fairness ==
    /\ WF_vars(\E t \in Task, w \in Worker : Pop(t, w))
    /\ \A t \in Task : WF_vars(Report(t))
    /\ \A th \in Thread : WF_vars(Command(th))

FairSpec == Spec /\ Fairness
-----------------------------------------------------------------------------
(* The fields of the records, the counters and the calls at work: a        *)
(* command on a counter has a worker, and only the dispatcher assigns.     *)
TypeOK ==
    /\ queued \in [Task -> Nat] /\ retry_count \in [Task -> Nat]
    /\ status \in [Task -> {"pending", "running", "success", "failed"}]
    /\ worker_id \in [Task -> Worker \cup {None}]
    /\ load \in [Worker -> Int] /\ keys \subseteq Worker
    /\ call \in [Thread -> Reports \cup {"assign", "none"}]
    /\ pc \in [Thread -> {"idle", "status", "owner", "incr", "findOwner", "finish",
                          "readLoad", "decr", "readCount", "writeCount", "push"}]
    /\ task \in [Thread -> Task \cup {None}] /\ worker \in [Thread -> Worker \cup {None}]
    /\ seen \in [Thread -> Int] /\ retry \in [Thread -> Nat]
    /\ out \in [Task -> Nat] /\ extra \in [Task -> Nat]
    /\ runs \in [Task -> 0..(RetryLimit + 2)] /\ hosts \in [Task -> SUBSET Worker]
    /\ \A th \in Thread :
          /\ call[th] = "none" <=> pc[th] = "idle"
          /\ call[th] = "assign" => th = Dispatcher
          /\ call[th] # "none" => task[th] \in Task
          /\ pc[th] \in {"status", "owner", "incr", "readLoad", "decr"} => worker[th] \in Worker

\* Reported at most once for every hand-over, so far.
Once(t) == extra[t] = 0

\* Handed over to w, and not yet taken off its load.
Loads(t, w) ==
    /\ worker_id[t] = w
    /\ \/ out[t] > 0
       \/ \E th \in Thread : task[th] = t /\ pc[th] \in {"findOwner", "finish", "readLoad", "decr"}

(* The counter of a worker is exactly the number of tasks it has, although *)
(* a decrement reads and writes in two commands and others come between,   *)
(* as long as no task that was assigned to it is reported twice: reports   *)
(* of other workers' tasks do no harm, whatever they are.                  *)
LoadExact ==
    \A w \in Worker :
        (\A t \in Task : w \in hosts[t] => Once(t))
            => load[w] = Cardinality({t \in Task : Loads(t, w)})

(* The limit of retryTask bounds the hand-overs of a task that is reported *)
(* once for each, though its test, the counting and the push are commands  *)
(* far apart.                                                              *)
AttemptsBounded == \A t \in Task : Once(t) => runs[t] <= RetryLimit + 1

(* Every task ends for good, however often its worker fails and whatever   *)
(* is reported twice: a retry may take it up again after the end, and two  *)
(* at once may lose a count or fail with an exception, but not for ever.   *)
EveryTaskEnds == \A t \in Task : <>[](status[t] \in {"success", "failed"})
=============================================================================
