-------------------------- MODULE TaskResultsProofs --------------------------
(***************************************************************************)
(* For any tasks, workers and callers, every limit and any number of       *)
(* repeated reports: the reports are typed, retryTask hands a task over a  *)
(* bounded number of times, and the counter of a worker is exactly the     *)
(* number of tasks it has, as long as they are reported once.              *)
(***************************************************************************)
EXTENDS TaskResults, FiniteSetTheorems, TLAPS

(* Which call may be at which command, and the worker it works on: one the *)
(* task was assigned to, whose key there is once it is to be decremented.  *)
AtWork(th) ==
    /\ call[th] = "none" <=> task[th] = None
    /\ call[th] = "assign" <=> pc[th] \in {"status", "owner", "incr"}
    /\ pc[th] = "finish" => call[th] \in {"complete", "fail"}
    /\ pc[th] = "findOwner" => call[th] \in {"fail", "retry"}
    /\ pc[th] \in {"readCount", "writeCount", "push"} => call[th] = "retry"
    /\ pc[th] = "incr" => worker[th] = worker_id[task[th]]
    /\ pc[th] \in {"incr", "finish", "readLoad", "decr"} /\ worker[th] # None
           => worker[th] \in hosts[task[th]]
    /\ pc[th] = "decr" => worker[th] \in keys

Recorded(t) == worker_id[t] # None => worker_id[t] \in hosts[t]

(* A task reported once for each hand-over is in one place only: once in   *)
(* the lists, handed over, or with one thread.                             *)
Single(t) ==
    /\ queued[t] + out[t] <= 1
    /\ \A th \in Thread : task[th] = t => queued[t] = 0 /\ out[t] = 0
    /\ \A th, v \in Thread : task[th] = t /\ task[v] = t => th = v

(* The hand-overs are the retries and at most one more, and a retry is     *)
(* under way only if there was one left.                                   *)
Attempts(t) ==
    /\ retry_count[t] <= RetryLimit
    /\ runs[t] <= retry_count[t] + 1
    /\ queued[t] > 0 => runs[t] <= retry_count[t]
    /\ \A th \in Thread : task[th] = t =>
          /\ call[th] = "assign" \/ pc[th] = "push" => runs[t] <= retry_count[t]
          /\ call[th] = "retry" /\ pc[th] # "push" => retry_count[t] < RetryLimit
          /\ pc[th] = "writeCount" => retry[th] = retry_count[t]

\* Who reports a hand-over takes it off the load of the worker that has it.
Owner(t) ==
    /\ out[t] > 0 => worker_id[t] \in Worker
    /\ \A th \in Thread : task[th] = t =>
          /\ pc[th] \in {"findOwner", "finish", "readLoad", "decr"} => worker_id[t] \in Worker
          /\ pc[th] \in {"finish", "readLoad", "decr"} => worker[th] = worker_id[t]

Orderly(t) == Recorded(t) /\ (Once(t) => Single(t) /\ Attempts(t) /\ Owner(t))

IInv == TypeOK /\ (\A th \in Thread : AtWork(th)) /\ (\A t \in Task : Orderly(t))

USE ResultsAssumption DEF ResultsAssumption

-----------------------------------------------------------------------------
LEMMA InitIInv == Init => IInv
  BY DEF Init, IInv, TypeOK, AtWork, Orderly, Recorded, Once, Single, Attempts, Owner, Reports, Thread

\* What an action of a thread on a task leaves alone.
Frame(th, t) ==
    /\ \A u \in Task \ {t} : UNCHANGED <<queued[u], retry_count[u], worker_id[u],
                                         out[u], extra[u], runs[u], hosts[u]>>
    /\ \A v \in Thread \ {th} : UNCHANGED <<call[v], pc[v], task[v], worker[v], seen[v], retry[v]>>
    /\ task[th] \in {t, None} /\ task'[th] \in {t, None}
    /\ keys \subseteq keys' /\ hosts[t] \subseteq hosts'[t] /\ extra[t] <= extra'[t]
    /\ worker_id'[t] = worker_id[t] \/ pc[th] = "owner"

LEMMA OtherThreads ==
    ASSUME IInv, NEW th \in Thread, NEW t \in Task, Frame(th, t), NEW v \in Thread, v # th
    PROVE  AtWork(v)'
<1>1. AtWork(v) /\ AtWork(th) /\ UNCHANGED <<call[v], pc[v], task[v], worker[v], seen[v], retry[v]>>
  BY DEF IInv, Frame
<1>2. task[v] \in Task \cup {None}
  BY DEF IInv, TypeOK
<1>3. CASE task[v] = None
  BY <1>1, <1>3 DEF AtWork, IInv, TypeOK
<1>4. CASE task[v] \in Task
  <2>1. hosts[task[v]] \subseteq hosts'[task[v]] /\ keys \subseteq keys'
    BY <1>4 DEF Frame
  <2>2. pc[v] = "incr" => worker_id'[task[v]] = worker_id[task[v]]
    <3>1. call[v] = "assign" /\ call[th] = "assign" => v = th
      BY DEF IInv, TypeOK
    <3> QED
      BY <1>1, <1>4, <3>1 DEF Frame, AtWork
  <2> QED
    BY <1>1, <2>1, <2>2 DEF AtWork
<1> QED
  BY <1>2, <1>3, <1>4

LEMMA OtherTasks ==
    ASSUME IInv, NEW th \in Thread, NEW t \in Task, Frame(th, t), NEW u \in Task, u # t
    PROVE  Orderly(u)'
<1>1. Orderly(u) /\ UNCHANGED <<queued[u], retry_count[u], worker_id[u], out[u], extra[u], runs[u], hosts[u]>>
  BY DEF IInv, Frame
<1>2. \A v \in Thread : task'[v] = u =>
          v # th /\ task[v] = u /\ UNCHANGED <<call[v], pc[v], worker[v], retry[v]>>
  BY DEF Frame
<1>3. ASSUME Single(u) PROVE Single(u)'
  BY <1>1, <1>2, <1>3 DEF Single
<1>4. ASSUME Attempts(u) PROVE Attempts(u)'
  BY <1>1, <1>2, <1>4 DEF Attempts
<1>5. ASSUME Owner(u) PROVE Owner(u)'
  BY <1>1, <1>2, <1>5 DEF Owner
<1> QED
  BY <1>1, <1>3, <1>4, <1>5 DEF Orderly, Recorded, Once

Step(th, t) == Frame(th, t) /\ TypeOK' /\ AtWork(th)' /\ Orderly(t)'

LEMMA StepKeepsIInv ==
    ASSUME IInv, NEW th \in Thread, NEW t \in Task, Step(th, t) PROVE IInv'
  BY OtherThreads, OtherTasks DEF Step, IInv
-----------------------------------------------------------------------------
LEMMA PopSteps ==
    ASSUME IInv, NEW t \in Task, NEW w \in Worker, Pop(t, w) PROVE Step(Dispatcher, t)
<1> USE DEF Pop, Goto, history
<1>0. Dispatcher \in Thread /\ TypeOK /\ AtWork(Dispatcher) /\ Orderly(t)
  BY DEF IInv, Thread
<1>1. Frame(Dispatcher, t)
  BY <1>0 DEF Frame, TypeOK, AtWork
<1>2. TypeOK'
  BY <1>0 DEF TypeOK, Reports
<1>3. AtWork(Dispatcher)'
  BY <1>0 DEF AtWork, TypeOK
<1>4. Orderly(t)'
  BY <1>0 DEF Orderly, Recorded, Once, Single, Attempts, Owner, TypeOK
<1> QED
  BY <1>1, <1>2, <1>3, <1>4 DEF Step

LEMMA EnterSteps ==
    ASSUME IInv, NEW c \in Caller, NEW t \in Task, NEW function \in Reports,
           ReportOnce(c, t, function) \/ ReportAgain(c, t, function)
    PROVE  Step(c, t)
<1>0. /\ c \in Thread /\ TypeOK /\ AtWork(c) /\ Orderly(t)
      /\ call[c] = "none" /\ task[c] = None /\ t # None
  BY DEF IInv, Thread, ReportOnce, ReportAgain, Enter, AtWork
<1>1. Enter(c, t, function)
  BY DEF ReportOnce, ReportAgain
<1>2. \/ out[t] > 0 /\ out' = [out EXCEPT ![t] = @ - 1] /\ extra' = extra
      \/ extra' = [extra EXCEPT ![t] = @ + 1] /\ out' = out
  BY DEF ReportOnce, ReportAgain
<1>3. PICK f, l, w : /\ call' = [call EXCEPT ![c] = f] /\ pc' = [pc EXCEPT ![c] = l]
                     /\ worker' = [worker EXCEPT ![c] = w]
                     /\ \/ f \in {"complete", "fail"} /\ l = "finish" /\ w = worker_id[t]
                        \/ /\ f \in {"fail", "retry"} /\ l = "findOwner" /\ w = worker[c]
                           /\ f = "retry" => retry_count[t] < RetryLimit
  BY <1>0, <1>1 DEF Enter, Goto, Exhausted, TypeOK
<1>4. /\ task' = [task EXCEPT ![c] = t]
      /\ UNCHANGED <<redisVars, seen, retry, runs, hosts>>
  BY <1>1 DEF Enter
<1> HIDE DEF Reports
<1> USE DEF redisVars
<1>5. Frame(c, t)
  BY <1>0, <1>2, <1>3, <1>4 DEF Frame, TypeOK
<1>6. TypeOK'
  <2>1. out' \in [Task -> Nat] /\ extra' \in [Task -> Nat]
    BY <1>0, <1>2 DEF TypeOK
  <2>2. f \in Reports \cup {"assign", "none"} /\ w \in Worker \cup {None} /\ f # "none" /\ f # "assign"
    BY <1>0, <1>3 DEF TypeOK, Reports
  <2> QED
    BY <1>0, <1>3, <1>4, <2>1, <2>2 DEF TypeOK
<1>7. AtWork(c)'
  BY <1>0, <1>3, <1>4 DEF AtWork, TypeOK, Orderly, Recorded
<1>8. Orderly(t)'
  <2>1. CASE extra'[t] = extra[t]
    <3>1. out[t] > 0 /\ out' = [out EXCEPT ![t] = @ - 1]
      BY <1>0, <1>2, <2>1 DEF TypeOK
    <3>2. ASSUME Single(t) PROVE Single(t)'
      BY <1>0, <1>4, <3>1, <3>2 DEF Single, TypeOK
    <3>3. ASSUME Single(t), Attempts(t) PROVE Attempts(t)'
      BY <1>0, <1>3, <1>4, <3>1, <3>3 DEF Single, Attempts, TypeOK
    <3>4. ASSUME Single(t), Owner(t) PROVE Owner(t)'
      BY <1>0, <1>3, <1>4, <3>1, <3>4 DEF Single, Owner, TypeOK
    <3> QED
      BY <1>0, <1>4, <2>1, <3>2, <3>3, <3>4 DEF Orderly, Recorded, Once
  <2>2. CASE extra'[t] = extra[t] + 1
    BY <1>0, <1>4, <2>2 DEF Orderly, Recorded, Once, TypeOK
  <2> QED
    BY <1>0, <1>2, <2>1, <2>2 DEF TypeOK
<1> QED
  BY <1>5, <1>6, <1>7, <1>8 DEF Step

\* What a thread that is at a command knows of its task.
LEMMA AtCommand ==
    ASSUME IInv, NEW th \in Thread, pc[th] # "idle"
    PROVE  /\ task[th] \in Task /\ task[th] # None /\ TypeOK /\ AtWork(th) /\ Orderly(task[th])
           /\ call[th] # "none"
  BY DEF IInv, TypeOK, AtWork

LEMMA CommandSteps ==
    ASSUME IInv, NEW th \in Thread, Command(th) PROVE \E t \in Task : task[th] = t /\ Step(th, t)
<1> USE DEF Goto, GoOn, Return, redisVars, localVars, history
<1>0. pc[th] # "idle"
  BY DEF Command, SetRunning, SetOwner, IncrementLoad, FindOwner, Finish, ReadLoad, Decrement,
         ReadCount, WriteCount, PushAgain
<1>t. PICK t \in Task : /\ t = task[th] /\ t # None /\ TypeOK /\ AtWork(th) /\ Orderly(t)
                        /\ call[th] # "none"
  BY <1>0, AtCommand
<1>1. CASE SetRunning(th)
  <2> USE <1>1, <1>t DEF SetRunning
  <2>1. Frame(th, t)
    BY DEF Frame, TypeOK
  <2>2. TypeOK'
    BY DEF TypeOK, AtWork, Reports
  <2>3. AtWork(th)'
    BY DEF AtWork, TypeOK, Reports, Orderly, Recorded
  <2>4. Orderly(t)'
    BY DEF Orderly, Recorded, Once, Single, Attempts, Owner, TypeOK, AtWork
  <2> QED
    BY <2>1, <2>2, <2>3, <2>4 DEF Step
<1>2. CASE SetOwner(th)
  <2> USE <1>2, <1>t DEF SetOwner
  <2>1. Frame(th, t)
    BY DEF Frame, TypeOK
  <2>2. TypeOK'
    BY DEF TypeOK, AtWork, Reports
  <2>3. AtWork(th)'
    BY DEF AtWork, TypeOK, Reports, Orderly, Recorded
  <2>4. Orderly(t)'
    BY DEF Orderly, Recorded, Once, Single, Attempts, Owner, TypeOK, AtWork
  <2> QED
    BY <2>1, <2>2, <2>3, <2>4 DEF Step
<1>3. CASE IncrementLoad(th)
  <2> USE <1>3, <1>t DEF IncrementLoad
  <2>1. Frame(th, t)
    BY DEF Frame, TypeOK
  <2>2. TypeOK'
    BY DEF TypeOK, AtWork, Reports
  <2>3. AtWork(th)'
    BY DEF AtWork, TypeOK, Reports, Orderly, Recorded
  <2>4. Orderly(t)'
    BY DEF Orderly, Recorded, Once, Single, Attempts, Owner, TypeOK, AtWork
  <2> QED
    BY <2>1, <2>2, <2>3, <2>4 DEF Step
<1>4. CASE FindOwner(th)
  <2> USE <1>4, <1>t DEF FindOwner
  <2>1. Frame(th, t)
    BY DEF Frame, TypeOK
  <2>2. TypeOK'
    BY DEF TypeOK, AtWork, Reports
  <2>3. AtWork(th)'
    BY DEF AtWork, TypeOK, Reports, Orderly, Recorded
  <2>4. Orderly(t)'
    BY DEF Orderly, Recorded, Once, Single, Attempts, Owner, TypeOK, AtWork
  <2> QED
    BY <2>1, <2>2, <2>3, <2>4 DEF Step
<1>5. CASE Finish(th)
  <2> USE <1>5, <1>t DEF Finish
  <2>1. Frame(th, t)
    BY DEF Frame, TypeOK
  <2>2. TypeOK'
    BY DEF TypeOK, AtWork, Reports
  <2>3. AtWork(th)'
    BY DEF AtWork, TypeOK, Reports, Orderly, Recorded
  <2>4. Orderly(t)'
    BY DEF Orderly, Recorded, Once, Single, Attempts, Owner, TypeOK, AtWork
  <2> QED
    BY <2>1, <2>2, <2>3, <2>4 DEF Step
<1>6. CASE ReadLoad(th)
  <2> USE <1>6, <1>t DEF ReadLoad
  <2>1. Frame(th, t)
    BY DEF Frame, TypeOK
  <2>2. TypeOK'
    BY DEF TypeOK, AtWork, Reports
  <2>3. AtWork(th)'
    BY DEF AtWork, TypeOK, Reports, Orderly, Recorded
  <2>4. Orderly(t)'
    BY DEF Orderly, Recorded, Once, Single, Attempts, Owner, TypeOK, AtWork
  <2> QED
    BY <2>1, <2>2, <2>3, <2>4 DEF Step
<1>7. CASE Decrement(th)
  <2> USE <1>7, <1>t DEF Decrement
  <2>1. Frame(th, t)
    BY DEF Frame, TypeOK
  <2>2. TypeOK'
    BY DEF TypeOK, AtWork, Reports
  <2>3. AtWork(th)'
    BY DEF AtWork, TypeOK, Reports, Orderly, Recorded
  <2>4. Orderly(t)'
    BY DEF Orderly, Recorded, Once, Single, Attempts, Owner, TypeOK, AtWork
  <2> QED
    BY <2>1, <2>2, <2>3, <2>4 DEF Step
<1>8. CASE ReadCount(th)
  <2> USE <1>8, <1>t DEF ReadCount
  <2>1. Frame(th, t)
    BY DEF Frame, TypeOK
  <2>2. TypeOK'
    BY DEF TypeOK, AtWork, Reports
  <2>3. AtWork(th)'
    BY DEF AtWork, TypeOK, Reports, Orderly, Recorded
  <2>4. Orderly(t)'
    BY DEF Orderly, Recorded, Once, Single, Attempts, Owner, TypeOK, AtWork
  <2> QED
    BY <2>1, <2>2, <2>3, <2>4 DEF Step
<1>9. CASE WriteCount(th)
  <2> USE <1>9, <1>t DEF WriteCount
  <2>1. Frame(th, t)
    BY DEF Frame, TypeOK
  <2>2. TypeOK'
    BY DEF TypeOK, AtWork, Reports
  <2>3. AtWork(th)'
    BY DEF AtWork, TypeOK, Reports, Orderly, Recorded
  <2>4. Orderly(t)'
    BY DEF Orderly, Recorded, Once, Single, Attempts, Owner, TypeOK, AtWork
  <2> QED
    BY <2>1, <2>2, <2>3, <2>4 DEF Step
<1>10. CASE PushAgain(th)
  <2> USE <1>10, <1>t DEF PushAgain
  <2>1. Frame(th, t)
    BY DEF Frame, TypeOK
  <2>2. TypeOK'
    BY DEF TypeOK, AtWork, Reports
  <2>3. AtWork(th)'
    BY DEF AtWork, TypeOK, Reports, Orderly, Recorded
  <2>4. Orderly(t)'
    BY DEF Orderly, Recorded, Once, Single, Attempts, Owner, TypeOK, AtWork
  <2> QED
    BY <2>1, <2>2, <2>3, <2>4 DEF Step
<1> QED
  BY <1>t, <1>1, <1>2, <1>3, <1>4, <1>5, <1>6, <1>7, <1>8, <1>9, <1>10 DEF Command

LEMMA Inductive == Spec => []IInv
<1>1. ASSUME IInv, Next PROVE IInv'
  <2>1. ASSUME NEW t \in Task, NEW w \in Worker, Pop(t, w) PROVE IInv'
    BY <2>1, <1>1, PopSteps, StepKeepsIInv DEF Thread
  <2>2. ASSUME NEW c \in Caller, NEW t \in Task, NEW function \in Reports,
               ReportOnce(c, t, function) \/ ReportAgain(c, t, function)
        PROVE  IInv'
    BY <2>2, <1>1, EnterSteps, StepKeepsIInv DEF Thread
  <2>3. ASSUME NEW th \in Thread, Command(th) PROVE IInv'
    BY <2>3, <1>1, CommandSteps, StepKeepsIInv
  <2> QED
    BY <1>1, <2>1, <2>2, <2>3 DEF Next, Report
<1>2. ASSUME IInv, UNCHANGED vars PROVE IInv'
  BY <1>2 DEF vars, redisVars, localVars, history, IInv, TypeOK, AtWork, Orderly, Recorded, Once,
              Single, Attempts, Owner
<1> QED
  BY InitIInv, <1>1, <1>2, PTL DEF Spec

-----------------------------------------------------------------------------
(* The fields of the records, the counters and the calls at work, whatever *)
(* is reported and however often: a command on a counter has a worker.     *)
THEOREM ReportsTyped == Spec => []TypeOK
<1>1. IInv => TypeOK
  BY DEF IInv
<1> QED
  BY Inductive, <1>1, PTL

(* retryTask stops at the limit: one hand-over and RetryLimit retries of a *)
(* task that is reported once for each.                                    *)
THEOREM LimitsAttempts == Spec => []AttemptsBounded
<1>1. IInv => AttemptsBounded
  BY DEF IInv, TypeOK, Orderly, Attempts, AttemptsBounded
<1> QED
  BY Inductive, <1>1, PTL
-----------------------------------------------------------------------------
(* The counters. A second invariant, on top of IInv, of the workers none   *)
(* of whose tasks is reported twice.                                       *)

Clean(w) == \A t \in Task : w \in hosts[t] => Once(t)

Loading(w) == {t \in Task : Loads(t, w)}

\* Task may be infinite; what was handed over is finite.
Counted(w) == IsFiniteSet(Loading(w)) /\ load[w] = Cardinality(Loading(w))

(* decrementWorkerLoad has read a positive counter: no other call can      *)
(* bring it to 0 while this task is counted in it.                         *)
Positive(th) == pc[th] = "decr" /\ Clean(worker[th]) => seen[th] > 0

LInv ==
    /\ \A w \in Worker : (Clean(w) => Counted(w)) /\ (w \notin keys => load[w] = 0)
    /\ \A th \in Thread : Positive(th)

LEMMA InitLInv == Init => LInv
<1> SUFFICES ASSUME Init PROVE LInv
  OBVIOUS
<1>1. \A w \in Worker : Loading(w) = {} /\ load[w] = 0
  BY DEF Init, Loading, Loads
<1>2. \A th \in Thread : Positive(th)
  BY DEF Init, Positive
<1> QED
  BY <1>1, <1>2, FS_EmptySet DEF LInv, Counted

\* A repeated report may have changed the load of no clean worker.
LEMMA CleanLoads ==
    ASSUME IInv, NEW w \in Worker, Clean(w), NEW t \in Task, worker_id[t] = w
    PROVE  Once(t)
  BY DEF IInv, Orderly, Recorded, Clean

\* No step makes a worker clean again.
LEMMA StaysUnclean ==
    ASSUME IInv, NEW th \in Thread, NEW t \in Task, Step(th, t), NEW w \in Worker, Clean(w)'
    PROVE  Clean(w)
  BY DEF Step, Frame, Clean, Once, IInv, TypeOK

\* A task that is counted makes the counter positive.
LEMMA CountedIsPositive ==
    ASSUME IInv, NEW t \in Task, NEW w \in Worker, Counted(w), Loads(t, w)
    PROVE  load[w] > 0
<1>1. t \in Loading(w) /\ IsFiniteSet(Loading(w)) /\ load[w] = Cardinality(Loading(w))
  BY DEF Loading, Counted
<1>2. Cardinality(Loading(w)) # 0 /\ Cardinality(Loading(w)) \in Nat
  BY <1>1, FS_EmptySet, FS_CardinalityType
<1> QED
  BY <1>1, <1>2

(* Most steps leave the tasks and the counter of a clean worker alone.     *)
Quiet ==
    /\ load' = load
    /\ \A w \in Worker : Clean(w)' => Loading(w)' = Loading(w)

LEMMA QuietKeepsLInv ==
    ASSUME IInv, LInv, NEW th \in Thread, NEW t \in Task, Step(th, t), Quiet, Positive(th)'
    PROVE  LInv'
<1>1. ASSUME NEW w \in Worker, Clean(w)' PROVE Counted(w)'
  BY <1>1, StaysUnclean DEF LInv, Counted, Quiet
<1>2. ASSUME NEW w \in Worker, w \notin keys' PROVE load'[w] = 0
  BY <1>2 DEF Step, Frame, LInv, Quiet
<1>3. ASSUME NEW v \in Thread, v # th PROVE Positive(v)'
  <2>1. UNCHANGED <<pc[v], worker[v], seen[v]>> /\ Positive(v)
    BY <1>3 DEF Step, Frame, LInv
  <2>2. pc[v] = "decr" => worker[v] \in Worker
    BY DEF IInv, TypeOK
  <2>3. ASSUME pc[v] = "decr", Clean(worker[v])' PROVE Clean(worker[v])
    <3>1. PICK w \in Worker : w = worker[v] /\ w = worker'[v]
      BY <2>1, <2>2, <2>3
    <3>2. Clean(w)'
      BY <2>3, <3>1 DEF Clean
    <3> QED
      BY <3>1, <3>2, StaysUnclean
  <2> QED
    BY <2>1, <2>3 DEF Positive
<1> QED
  BY <1>1, <1>2, <1>3 DEF LInv

\* The places in which a task counts for the load.
Counting == {"findOwner", "finish", "readLoad", "decr"}

\* Only what the step does to its own task matters, and that reported once.
LEMMA SameLoading ==
    ASSUME IInv, NEW th \in Thread, NEW t \in Task, Step(th, t), NEW w \in Worker, Clean(w)',
           Once(t)' => (Loads(t, w)' <=> Loads(t, w))
    PROVE  Loading(w)' = Loading(w)
<1>1. ASSUME NEW u \in Task, u # t PROVE Loads(u, w)' <=> Loads(u, w)
  <2>1. UNCHANGED <<worker_id[u], out[u]>>
    BY <1>1 DEF Step, Frame
  <2>2. \A v \in Thread : task[v] = u \/ task'[v] = u => v # th
    BY <1>1 DEF Step, Frame, IInv, TypeOK
  <2>3. \A v \in Thread : v # th => UNCHANGED <<task[v], pc[v]>>
    BY DEF Step, Frame
  <2> QED
    BY <2>1, <2>2, <2>3 DEF Loads
<1>2. ASSUME ~Once(t)' PROVE ~Loads(t, w)' /\ ~Loads(t, w)
  <2>1. w \notin hosts'[t]
    BY <1>2 DEF Clean
  <2>2. worker_id[t] # w /\ worker_id'[t] # w
    BY <2>1 DEF Step, Frame, Orderly, Recorded, IInv
  <2> QED
    BY <2>2 DEF Loads
<1> QED
  BY <1>1, <1>2 DEF Loading

\* A task reported once that a thread is at counts by that thread alone.
LEMMA LoadsOfOne ==
    ASSUME IInv, NEW th \in Thread, NEW t \in Task, task[th] = t, Once(t), NEW w \in Worker
    PROVE  Loads(t, w) <=> worker_id[t] = w /\ pc[th] \in Counting
  BY DEF IInv, Orderly, Single, Loads, Counting, TypeOK

\* The same of what the step leaves, when no other thread is at the task.
LEMMA LoadsAfter ==
    ASSUME IInv, NEW th \in Thread, NEW t \in Task, task[th] = t, Once(t), Step(th, t),
           NEW w \in Worker
    PROVE  Loads(t, w)' <=> /\ worker_id'[t] = w
                            /\ out'[t] > 0 \/ (task'[th] = t /\ pc'[th] \in Counting)
<1>1. \A v \in Thread : v # th => task'[v] # t
  BY DEF IInv, Orderly, Single, Step, Frame
<1> QED
  BY <1>1 DEF Loads, Counting

LEMMA QuietSteps ==
    ASSUME IInv, NEW th \in Thread, NEW t \in Task, Step(th, t), load' = load,
           task[th] = t, pc[th] # "idle",
           Once(t) => \A w \in Worker : Clean(w) =>
               (worker_id[t] = w /\ pc[th] \in Counting <=>
                   /\ worker_id'[t] = w
                   /\ out'[t] > 0 \/ (task'[th] = t /\ pc'[th] \in Counting))
    PROVE  Quiet
<1>1. Once(t)' => Once(t)
  BY DEF Step, Frame, Once, IInv, TypeOK
<1>2. ASSUME NEW w \in Worker, Clean(w)' PROVE Loading(w)' = Loading(w)
  <2>1. Once(t)' => (Loads(t, w)' <=> Loads(t, w))
    BY <1>1, <1>2, StaysUnclean, LoadsOfOne, LoadsAfter
  <2> QED
    BY <1>2, <2>1, SameLoading
<1> QED
  BY <1>2 DEF Quiet

-----------------------------------------------------------------------------
LEMMA PopLoads ==
    ASSUME IInv, LInv, NEW t \in Task, NEW w \in Worker, Pop(t, w) PROVE LInv'
<1>1. Step(Dispatcher, t) /\ Dispatcher \in Thread
  BY PopSteps DEF Thread
<1>2. pc[Dispatcher] = "idle" /\ pc' = [pc EXCEPT ![Dispatcher] = "status"]
  BY <1>1 DEF Pop, Goto, IInv, TypeOK
<1>3. UNCHANGED <<worker_id, out>> /\ load' = load
  BY DEF Pop, history
<1>4. ASSUME NEW u \in Worker PROVE Loads(t, u)' <=> Loads(t, u)
  <2>1. ASSUME NEW v \in Thread
        PROVE  task'[v] = t /\ pc'[v] \in Counting <=> task[v] = t /\ pc[v] \in Counting
    BY <1>2 DEF Pop, Counting, IInv, TypeOK
  <2> QED
    BY <1>3, <2>1 DEF Loads, Counting
<1>5. Quiet
  BY <1>1, <1>3, <1>4, SameLoading DEF Quiet
<1>6. Positive(Dispatcher)'
  BY <1>1, <1>2 DEF Positive, IInv, TypeOK
<1> QED
  BY <1>1, <1>5, <1>6, QuietKeepsLInv

LEMMA EnterLoads ==
    ASSUME IInv, LInv, NEW c \in Caller, NEW t \in Task, NEW function \in Reports,
           ReportOnce(c, t, function) \/ ReportAgain(c, t, function)
    PROVE  LInv'
<1>1. Step(c, t) /\ c \in Thread /\ pc[c] = "idle"
  BY EnterSteps DEF Thread, ReportOnce, ReportAgain, Enter, IInv, TypeOK
<1>2. /\ task' = [task EXCEPT ![c] = t]
      /\ pc' = [pc EXCEPT ![c] = "finish"] \/ pc' = [pc EXCEPT ![c] = "findOwner"]
      /\ UNCHANGED <<worker_id, load>>
  BY DEF ReportOnce, ReportAgain, Enter, Goto, redisVars
<1>3. ASSUME NEW w \in Worker, Once(t)' PROVE Loads(t, w)' <=> Loads(t, w)
  <2>1. out[t] > 0
    BY <1>3 DEF ReportOnce, ReportAgain, Once, IInv, TypeOK
  <2>2. task'[c] = t /\ pc'[c] \in Counting
    BY <1>1, <1>2 DEF Counting, IInv, TypeOK
  <2> QED
    BY <1>1, <1>2, <2>1, <2>2 DEF Loads, Counting
<1>4. Quiet
  BY <1>1, <1>2, <1>3, SameLoading DEF Quiet
<1>5. Positive(c)'
  BY <1>1, <1>2 DEF Positive, IInv, TypeOK
<1> QED
  BY <1>1, <1>4, <1>5, QuietKeepsLInv

LEMMA IncrementLoads ==
    ASSUME IInv, LInv, NEW th \in Thread, NEW t \in Task, Step(th, t), IncrementLoad(th), task[th] = t
    PROVE  LInv'
<1>1. PICK w \in Worker : worker[th] = w /\ worker_id[t] = w /\ w \in hosts[t] /\ pc[th] = "incr"
  BY DEF IInv, TypeOK, AtWork, IncrementLoad
<1>2. /\ load' = [load EXCEPT ![w] = @ + 1] /\ load \in [Worker -> Int]
      /\ keys' = keys \cup {w} /\ UNCHANGED <<worker_id, extra, hosts>>
      /\ out'[t] > 0 /\ pc'[th] = "idle"
  BY <1>1 DEF IncrementLoad, Return, Goto, IInv, TypeOK
<1>3. ASSUME NEW v \in Worker, Clean(v)', v # w PROVE Counted(v)'
  <2>1. Clean(v) /\ Counted(v)
    BY <1>3, StaysUnclean DEF LInv
  <2>2. Loading(v)' = Loading(v)
    BY <1>1, <1>2, <1>3, SameLoading DEF Loads
  <2>3. load'[v] = load[v]
    BY <1>2, <1>3
  <2> QED
    BY <2>1, <2>2, <2>3 DEF Counted
<1>4. ASSUME Clean(w)' PROVE Counted(w)'
  <2>1. Clean(w) /\ Counted(w) /\ Once(t)
    BY <1>1, <1>4, StaysUnclean DEF LInv, Clean
  <2>2. ~Loads(t, w) /\ Loads(t, w)'
    BY <1>1, <1>2, <2>1, LoadsOfOne, LoadsAfter DEF Counting
  <2>3. Loading(w)' = Loading(w) \cup {t} /\ t \notin Loading(w)
    <3>1. \A u \in Task : u # t => (Loads(u, w)' <=> Loads(u, w))
      BY DEF Step, Frame, Loads, IInv, TypeOK
    <3> QED
      BY <2>2, <3>1 DEF Loading
  <2>4. IsFiniteSet(Loading(w)) /\ load[w] = Cardinality(Loading(w))
    BY <2>1 DEF Counted
  <2>5. IsFiniteSet(Loading(w)') /\ Cardinality(Loading(w)') = Cardinality(Loading(w)) + 1
    BY <2>3, <2>4, FS_AddElement
  <2>6. load'[w] = load[w] + 1
    BY <1>2
  <2> QED
    BY <2>4, <2>5, <2>6 DEF Counted
<1>5. ASSUME NEW v \in Worker, v \notin keys' PROVE load'[v] = 0
  BY <1>2, <1>5 DEF LInv
<1>6. \A v \in Thread : Positive(v)'
  <2>1. \A v \in Thread : pc'[v] = "decr" => UNCHANGED <<pc[v], worker[v], seen[v]>>
    BY <1>2 DEF Step, Frame
  <2>2. \A v \in Thread : Positive(v)
    BY DEF LInv
  <2> QED
    BY <1>2, <2>1, <2>2 DEF Positive, Clean, Once
<1> QED
  BY <1>3, <1>4, <1>5, <1>6 DEF LInv

LEMMA DecrementLoads ==
    ASSUME IInv, LInv, NEW th \in Thread, NEW t \in Task, Step(th, t), Decrement(th), task[th] = t
    PROVE  LInv'
<1>1. PICK w \in Worker : worker[th] = w /\ w \in hosts[t] /\ w \in keys /\ pc[th] = "decr"
  BY DEF IInv, TypeOK, AtWork, Decrement
<1>2. /\ load' = [load EXCEPT ![w] = IF seen[th] > 0 THEN @ - 1 ELSE @] /\ load \in [Worker -> Int]
      /\ UNCHANGED <<worker_id, extra, hosts, keys, out>>
      /\ pc'[th] \in {"idle", "readCount"}
  BY <1>1 DEF Decrement, Return, GoOn, Goto, IInv, TypeOK
<1>o. Once(t) => worker_id[t] = w
  BY <1>1 DEF IInv, Orderly, Owner
<1>3. ASSUME NEW v \in Worker, Clean(v)', v # w PROVE Counted(v)'
  <2>1. Clean(v) /\ Counted(v)
    BY <1>3, StaysUnclean DEF LInv
  <2>2. Once(t)' => ~Loads(t, v)' /\ ~Loads(t, v)
    BY <1>2, <1>3, <1>o DEF Loads, Once
  <2>3. Loading(v)' = Loading(v)
    BY <1>3, <2>2, SameLoading
  <2>4. load'[v] = load[v]
    BY <1>2, <1>3
  <2> QED
    BY <2>1, <2>3, <2>4 DEF Counted
<1>4. ASSUME Clean(w)' PROVE Counted(w)'
  <2>1. Clean(w) /\ Counted(w) /\ Once(t) /\ seen[th] > 0
    BY <1>1, <1>4, StaysUnclean DEF LInv, Clean, Positive
  <2>2. out'[t] = 0
    BY <1>2, <2>1 DEF IInv, Orderly, Single
  <2>3. Loads(t, w) /\ ~Loads(t, w)'
    BY <1>1, <1>2, <1>o, <2>1, <2>2, LoadsOfOne, LoadsAfter DEF Counting
  <2>4. Loading(w)' = Loading(w) \ {t} /\ t \in Loading(w)
    <3>1. \A u \in Task : u # t => (Loads(u, w)' <=> Loads(u, w))
      BY DEF Step, Frame, Loads, IInv, TypeOK
    <3> QED
      BY <2>3, <3>1 DEF Loading
  <2>5. IsFiniteSet(Loading(w)) /\ load[w] = Cardinality(Loading(w))
    BY <2>1 DEF Counted
  <2>6. IsFiniteSet(Loading(w)') /\ Cardinality(Loading(w)') = Cardinality(Loading(w)) - 1
    BY <2>4, <2>5, FS_RemoveElement
  <2>7. load'[w] = load[w] - 1
    BY <1>2, <2>1
  <2> QED
    BY <2>5, <2>6, <2>7 DEF Counted
<1>5. ASSUME NEW v \in Worker, v \notin keys' PROVE load'[v] = 0
  BY <1>1, <1>2, <1>5 DEF LInv
<1>6. \A v \in Thread : Positive(v)'
  <2>1. \A v \in Thread : pc'[v] = "decr" => UNCHANGED <<pc[v], worker[v], seen[v]>>
    BY <1>2 DEF Step, Frame
  <2>2. \A v \in Thread : Positive(v)
    BY DEF LInv
  <2> QED
    BY <1>2, <2>1, <2>2 DEF Positive, Clean, Once
<1> QED
  BY <1>3, <1>4, <1>5, <1>6 DEF LInv

LEMMA ReadLoadLoads ==
    ASSUME IInv, LInv, NEW th \in Thread, NEW t \in Task, Step(th, t), ReadLoad(th), task[th] = t
    PROVE  LInv'
<1>1. PICK w \in Worker : worker[th] = w /\ w \in hosts[t] /\ pc[th] = "readLoad"
  BY DEF IInv, TypeOK, AtWork, ReadLoad
<1>2. UNCHANGED <<worker_id, out, load, hosts, extra>>
  BY DEF ReadLoad, redisVars
<1>3. Once(t) => worker_id[t] = w
  BY <1>1 DEF IInv, Orderly, Owner
<1>4. \/ /\ w \in keys /\ pc'[th] = "decr" /\ seen'[th] = load[w] /\ worker'[th] = w
         /\ task'[th] = t
      \/ w \notin keys /\ pc'[th] = "idle"
  BY <1>1 DEF ReadLoad, Return, Goto, IInv, TypeOK
<1>5. ASSUME Clean(w) PROVE load[w] > 0
  <2>1. Once(t) /\ Counted(w)
    BY <1>1, <1>5 DEF Clean, LInv
  <2>2. Loads(t, w)
    BY <1>1, <1>3, <2>1, LoadsOfOne DEF Counting
  <2> QED
    BY <2>1, <2>2, CountedIsPositive
<1>6. ASSUME Once(t), NEW v \in Worker, Clean(v)
      PROVE  worker_id[t] = v /\ pc[th] \in Counting <=>
                 /\ worker_id'[t] = v
                 /\ out'[t] > 0 \/ (task'[th] = t /\ pc'[th] \in Counting)
  <2>1. CASE v # w
    BY <1>2, <1>3, <1>6, <2>1
  <2>2. CASE v = w
    <3>1. w \in keys
      BY <1>5, <1>6, <2>2 DEF LInv
    <3> QED
      BY <1>1, <1>2, <1>3, <1>4, <1>6, <2>2, <3>1 DEF Counting
  <2> QED
    BY <2>1, <2>2
<1>7. Quiet
  BY <1>1, <1>2, <1>6, QuietSteps
<1>8. Positive(th)'
  <2>1. Clean(w)' => Clean(w)
    BY StaysUnclean
  <2>2. ASSUME pc'[th] = "decr", Clean(worker[th])' PROVE seen'[th] > 0
    <3>1. Clean(w)' /\ seen'[th] = load[w]
      BY <1>4, <2>2 DEF Clean
    <3> QED
      BY <1>5, <2>1, <3>1
  <2> QED
    BY <2>2 DEF Positive
<1> QED
  BY <1>7, <1>8, QuietKeepsLInv

\* The commands that write no counter and read none.
LEMMA OtherLoads ==
    ASSUME IInv, LInv, NEW th \in Thread, NEW t \in Task, Step(th, t), task[th] = t,
           \/ SetRunning(th) \/ SetOwner(th) \/ FindOwner(th) \/ Finish(th)
           \/ ReadCount(th) \/ WriteCount(th) \/ PushAgain(th)
    PROVE  LInv'
<1>1. /\ load' = load /\ pc[th] # "idle" /\ pc'[th] # "decr" /\ out' = out
      /\ TypeOK /\ AtWork(th)
  BY DEF SetRunning, SetOwner, FindOwner, Finish, ReadCount, WriteCount, PushAgain, Goto, GoOn, Return,
         redisVars, history, IInv, TypeOK
<1>2. Once(t) => /\ out[t] = 0 /\ Owner(t)
  BY DEF IInv, Orderly, Single
<1>3. ASSUME Once(t), NEW w \in Worker
      PROVE  worker_id[t] = w /\ pc[th] \in Counting <=>
                 /\ worker_id'[t] = w
                 /\ out'[t] > 0 \/ (task'[th] = t /\ pc'[th] \in Counting)
  <2> USE <1>1, <1>2, <1>3 DEF Counting, Goto, TypeOK
  <2>1. CASE SetRunning(th) \/ SetOwner(th)
    BY <2>1 DEF SetRunning, SetOwner
  <2>2. CASE FindOwner(th)
    BY <2>2 DEF FindOwner, redisVars, Owner, AtWork
  <2>3. CASE Finish(th)
    BY <2>3 DEF Finish, GoOn, localVars, Owner
  <2>4. CASE ReadCount(th) \/ WriteCount(th)
    BY <2>4 DEF ReadCount, WriteCount
  <2>5. CASE PushAgain(th)
    BY <2>5 DEF PushAgain, Return
  <2> QED
    BY <2>1, <2>2, <2>3, <2>4, <2>5
<1>4. Quiet
  BY <1>1, <1>3, QuietSteps
<1>5. Positive(th)'
  BY <1>1 DEF Positive
<1> QED
  BY <1>4, <1>5, QuietKeepsLInv

LEMMA LoadInductive == Spec => [](IInv /\ LInv)
<1>1. ASSUME IInv, LInv, Next PROVE LInv'
  <2>1. ASSUME NEW t \in Task, NEW w \in Worker, Pop(t, w) PROVE LInv'
    BY <2>1, <1>1, PopLoads
  <2>2. ASSUME NEW c \in Caller, NEW t \in Task, NEW function \in Reports,
               ReportOnce(c, t, function) \/ ReportAgain(c, t, function)
        PROVE  LInv'
    BY <2>2, <1>1, EnterLoads
  <2>3. ASSUME NEW th \in Thread, Command(th) PROVE LInv'
    <3>1. PICK t \in Task : Step(th, t) /\ task[th] = t
      BY <2>3, <1>1, CommandSteps
    <3> QED
      BY <2>3, <3>1, <1>1, IncrementLoads, DecrementLoads, ReadLoadLoads, OtherLoads DEF Command
  <2> QED
    BY <1>1, <2>1, <2>2, <2>3 DEF Next, Report
<1>2. ASSUME LInv, UNCHANGED vars PROVE LInv'
  <2>1. \A w \in Worker : Loading(w)' = Loading(w) /\ Clean(w)' = Clean(w)
    BY <1>2 DEF vars, redisVars, localVars, history, Loading, Loads, Clean, Once
  <2>2. \A th \in Thread : Positive(th)'
    BY <1>2 DEF LInv, vars, redisVars, localVars, history, Positive, Clean, Once
  <2> QED
    BY <1>2, <2>1, <2>2 DEF LInv, Counted, vars, redisVars
<1> QED
  BY Inductive, InitLInv, <1>1, <1>2, PTL DEF Spec

(* worker:load:<id> is exactly the number of tasks the worker has, though  *)
(* GET and INCRBY of decrementWorkerLoad are two commands, as long as the  *)
(* tasks assigned to it are reported once: whatever is reported twice of   *)
(* other tasks.                                                            *)
THEOREM CountsLoadsExactly == Spec => []LoadExact
<1>1. LInv => LoadExact
  BY DEF LInv, Counted, Loading, LoadExact, Clean
<1> QED
  BY LoadInductive, <1>1, PTL
=============================================================================
