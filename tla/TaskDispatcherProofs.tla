------------------------ MODULE TaskDispatcherProofs ------------------------
(***************************************************************************)
(* Proofs about TaskDispatcher for any sets of tasks, workers and          *)
(* priorities and any number of crashes and connection failures.           *)
(* Typed and Places are the invariant everything rests on; Ordered,        *)
(* LossBounded and LoadBounded are inductive relative to it.               *)
(***************************************************************************)
EXTENDS TaskDispatcher, FiniteSetTheorems, TLAPS

\* The dispatcher's locals are set where the loop uses them.
LocalsSet ==
    /\ dpc \in {"select", "requeue", "assign", "setWorker", "incr", "readLoad",
                "cacheLoad"} => dtask \in Task
    /\ dpc \in {"assign", "setWorker", "incr", "readLoad", "cacheLoad"} =>
            dworker \in Worker

Typed == TypeOK /\ LocalsSet

\* Appending to a list of tasks keeps the lists lists of tasks.
LEMMA PushTyped ==
    ASSUME queue \in [Classes -> Seq(Task)], NEW t \in Task, NEW p, Push(t, p)
    PROVE  queue' \in [Classes -> Seq(Task)]
<1>1. QueueOf(p) \in Classes
  BY DEF QueueOf, Classes
<1>2. Append(queue[QueueOf(p)], t) \in Seq(Task)
  BY <1>1
<1> QED
  BY <1>1, <1>2 DEF Push

\* Taking the head off a list keeps the lists lists of tasks.
LEMMA PopTyped ==
    ASSUME queue \in [Classes -> Seq(Task)], NEW c \in Classes, queue[c] # <<>>,
           queue' = [queue EXCEPT ![c] = Tail(@)]
    PROVE  queue' \in [Classes -> Seq(Task)] /\ Head(queue[c]) \in Task
<1>1. queue[c] \in Seq(Task)
  OBVIOUS
<1>2. Tail(queue[c]) \in Seq(Task) /\ Head(queue[c]) \in Task
  BY <1>1
<1> QED
  BY <1>2

LEMMA InitTyped == Init => Typed
<1> SUFFICES ASSUME Init PROVE Typed
  OBVIOUS
<1>1. RedisTypeOK
  BY DEF Init, RedisTypeOK, Classes
<1>2. BalancerTypeOK
  BY DEF Init, BalancerTypeOK
<1>3. LoopTypeOK
  BY DEF Init, LoopTypeOK
<1>4. ProcessTypeOK
  BY FaultsAssumption DEF Init, ProcessTypeOK
<1>5. LocalsSet
  BY DEF Init, LocalsSet
<1> QED
  BY <1>1, <1>2, <1>3, <1>4, <1>5 DEF Typed, TypeOK

(* One lemma per group of actions, by the variables they can change.       *)

LEMMA TypedSubmit ==
    ASSUME Typed, NEW t \in Task, Submit(t)
    PROVE  Typed'
<1> USE DEF Typed, TypeOK
<1>1. BalancerTypeOK' /\ LoopTypeOK' /\ LocalsSet'
  BY DEF Submit, SubmitSave, SubmitRefused, SubmitPush, lbVars, loopVars,
         BalancerTypeOK, LoopTypeOK, LocalsSet
<1>2. ProcessTypeOK'
  BY DEF Submit, SubmitSave, SubmitRefused, SubmitPush, faultVars, ProcessTypeOK
<1>3. queue' \in [Classes -> Seq(Task)]
  <2>1. CASE SubmitPush(t)
    BY <2>1, PushTyped DEF SubmitPush, RedisTypeOK
  <2> QED
    BY <2>1 DEF Submit, SubmitSave, SubmitRefused, redisVars, RedisTypeOK
<1>4. RedisTypeOK'
  BY <1>3 DEF Submit, SubmitSave, SubmitRefused, SubmitPush, redisVars, RedisTypeOK
<1> QED
  BY <1>1, <1>2, <1>4

LEMMA TypedDispatch ==
    ASSUME Typed, Dispatch
    PROVE  Typed'
<1> USE DEF Typed, TypeOK, Dispatch, LoopTop, Lpop, Select, Requeue, AssignStatus,
            AssignWorker, IncrLoad, ReadLoad, CacheLoad
<1>1. ProcessTypeOK'
  BY DEF faultVars, ProcessTypeOK
<1>2. queue' \in [Classes -> Seq(Task)]
  <2>1. CASE Requeue
    BY <2>1, PushTyped DEF RedisTypeOK, LocalsSet
  <2>2. ASSUME NEW c \in Classes, Lpop(c) PROVE queue' \in [Classes -> Seq(Task)]
    BY <2>2, PopTyped DEF RedisTypeOK
  <2> QED
    BY <2>1, <2>2 DEF redisVars, RedisTypeOK
<1>3. load' \in [Worker -> Nat \cup {NoKey}]
  BY NamesAssumption DEF redisVars, RedisTypeOK, LoadOf, LocalsSet
<1>4. RedisTypeOK'
  <2>1. status' \in [Task -> {"absent", "pending", "running"}]
    BY DEF redisVars, RedisTypeOK
  <2>2. worker_id' \in [Task -> Worker \cup {None}]
    BY DEF redisVars, RedisTypeOK, LocalsSet
  <2>3. priority' \in [Task -> Priorities \cup {0}]
    BY DEF redisVars, RedisTypeOK
  <2> QED
    BY <1>2, <1>3, <2>1, <2>2, <2>3 DEF RedisTypeOK
<1>5. BalancerTypeOK'
  BY DEF lbVars, BalancerTypeOK, LoopTypeOK
<1>6. LoopTypeOK'
  <2>1. AllQueued \subseteq Task
    BY DEF AllQueued, Queued, RedisTypeOK
  <2>2. Selectable \subseteq Worker
    BY DEF Selectable, BalancerTypeOK
  <2>3. ASSUME NEW c \in Classes, Lpop(c) PROVE LoopTypeOK'
    BY <2>3, PopTyped DEF LoopTypeOK, LoopReset, NextClass, Classes, RedisTypeOK
  <2>4. CASE ReadLoad
    BY <2>4, NamesAssumption DEF LoopTypeOK, LoadOf, RedisTypeOK, LocalsSet
  <2>5. CASE LoopTop \/ Select
    BY <2>1, <2>2, <2>5 DEF LoopTypeOK, ProcessTypeOK, Classes
  <2> QED
    BY <2>3, <2>4, <2>5 DEF LoopTypeOK, LoopReset
<1>7. LocalsSet'
  <2>1. ASSUME NEW c \in Classes, Lpop(c) PROVE LocalsSet'
    BY <2>1, PopTyped DEF LocalsSet, NextClass, Classes, RedisTypeOK
  <2>2. Selectable \subseteq Worker
    BY DEF Selectable, BalancerTypeOK
  <2> QED
    BY <2>1, <2>2 DEF LocalsSet
<1> QED
  BY <1>1, <1>4, <1>5, <1>6, <1>7

LEMMA TypedEnvironment ==
    ASSUME Typed, Environment
    PROVE  Typed'
<1> USE DEF Typed, TypeOK, Environment, UpdateWorkers, MarkWorkerDead, Signal,
            Shutdown, Start, ProcessGone
<1>1. RedisTypeOK'
  BY DEF redisVars, RedisTypeOK
<1>2. BalancerTypeOK'
  <2>1. ASSUME NEW S \in SUBSET Worker, UpdateWorkers(S) PROVE BalancerTypeOK'
    <3>1. workers' \in [S -> Nat]
      BY <2>1 DEF BalancerTypeOK, Refreshed
    <3>2. dead' \subseteq DOMAIN workers'
      BY <2>1 DEF BalancerTypeOK, Refreshed
    <3> QED
      BY <3>1, <3>2 DEF BalancerTypeOK
  <2>2. CASE Shutdown
    <3>1. workers' \in [{} -> Nat] /\ dead' = {}
      BY <2>2
    <3> QED
      BY <3>1 DEF BalancerTypeOK
  <2>3. CASE Start
    <3>1. PICK S \in SUBSET Worker : workers' = [w \in S |-> 0]
      BY <2>3
    <3>2. workers' \in [S -> Nat] /\ dead' = {}
      BY <2>3, <3>1
    <3> QED
      BY <3>1, <3>2 DEF BalancerTypeOK
  <2>4. CASE \/ Signal
             \/ \E w \in Worker : MarkWorkerDead(w)
    BY <2>4 DEF lbVars, BalancerTypeOK
  <2> QED
    BY <2>1, <2>2, <2>3, <2>4
<1>3. LoopTypeOK' /\ LocalsSet'
  BY DEF loopVars, LoopTypeOK, LocalsSet, LoopReset
<1>4. ProcessTypeOK'
  BY DEF faultVars, ProcessTypeOK
<1> QED
  BY <1>1, <1>2, <1>3, <1>4

LEMMA TypedFault ==
    ASSUME Typed, Fault
    PROVE  Typed'
<1> USE DEF Typed, TypeOK, Fault, Crash, BreakSave, BreakPush, BreakLpop, BreakLoop
<1>1. queue' \in [Classes -> Seq(Task)]
  <2>1. ASSUME NEW t \in Task, NEW e \in BOOLEAN, BreakPush(t, e)
        PROVE  queue' \in [Classes -> Seq(Task)]
    BY <2>1, PushTyped DEF RedisTypeOK
  <2>2. ASSUME NEW c \in Classes, BreakLpop(c)
        PROVE  queue' \in [Classes -> Seq(Task)]
    BY <2>2, PopTyped DEF RedisTypeOK
  <2> QED
    BY <2>1, <2>2 DEF redisVars, RedisTypeOK
<1>2. RedisTypeOK'
  BY <1>1 DEF redisVars, RedisTypeOK
<1>3. BalancerTypeOK'
  BY DEF ProcessGone, Break, lbVars, BalancerTypeOK
<1>4. LoopTypeOK' /\ LocalsSet'
  BY DEF loopVars, LoopTypeOK, LocalsSet, LoopReset
<1>5. ProcessTypeOK'
  BY FaultsAssumption DEF ProcessGone, Break, ProcessTypeOK
<1> QED
  BY <1>2, <1>3, <1>4, <1>5

LEMMA NextTyped == Typed /\ [Next]_vars => Typed'
<1> SUFFICES ASSUME Typed, [Next]_vars PROVE Typed'
  OBVIOUS
<1>1. CASE UNCHANGED vars
  BY <1>1 DEF vars, redisVars, lbVars, loopVars, faultVars, Typed, TypeOK, RedisTypeOK,
     BalancerTypeOK, LoopTypeOK, ProcessTypeOK, LocalsSet
<1>2. CASE Next
  BY <1>2, TypedSubmit, TypedDispatch, TypedEnvironment, TypedFault DEF Next
<1> QED
  BY <1>1, <1>2

(* The variables always hold what the program can hold.                    *)
THEOREM TypeCorrect == Spec => []TypeOK
<1>1. Typed => TypeOK
  BY DEF Typed
<1> QED
  BY <1>1, InitTyped, NextTyped, PTL DEF Spec

-----------------------------------------------------------------------------
(* The lists.                                                              *)

Lists == queue \in [Classes -> Seq(Task)]

\* RPUSH of a task that is in no list adds it, and adds it once.
LEMMA PushOnce ==
    ASSUME Lists, NoDuplicates, NEW t \in Task, NEW p, Push(t, p), t \notin AllQueued
    PROVE  NoDuplicates' /\ AllQueued' = AllQueued \cup {t}
<1> DEFINE q == QueueOf(p)
           n == Len(queue[q])
<1>1. q \in Classes
  BY DEF QueueOf, Classes
<1>2. queue[q] \in Seq(Task) /\ n \in Nat
  BY <1>1 DEF Lists
<1>3. \A c \in Classes : queue'[c] = IF c = q THEN Append(queue[q], t) ELSE queue[c]
  BY <1>1 DEF Push, Lists
<1>4. /\ DOMAIN queue'[q] = 1..(n + 1)
      /\ \A i \in 1..n : queue'[q][i] = queue[q][i]
      /\ queue'[q][n + 1] = t
      /\ DOMAIN queue[q] = 1..n
  <2>1. queue'[q] = Append(queue[q], t)
    BY <1>1, <1>3
  <2>2. /\ DOMAIN Append(queue[q], t) = 1..(n + 1)
        /\ \A i \in 1..n : Append(queue[q], t)[i] = queue[q][i]
        /\ Append(queue[q], t)[n + 1] = t
    BY <1>2
  <2>3. DOMAIN queue[q] = 1..n
    BY <1>2
  <2> QED
    BY <2>1, <2>2, <2>3
<1>5. \A c \in Classes : \A i \in DOMAIN queue[c] : queue[c][i] # t
  BY DEF AllQueued, Queued
<1>6. \A c \in Classes \ {q} : queue'[c] = queue[c]
  BY <1>3
<1> HIDE DEF n, q
<1>7. \A c \in Classes : \A i \in DOMAIN queue'[c] :
          \/ i \in DOMAIN queue[c] /\ queue'[c][i] = queue[c][i]
          \/ c = q /\ i = n + 1 /\ queue'[c][i] = t
  BY <1>2, <1>4, <1>6
<1>8. \A c \in Classes : \A i \in DOMAIN queue[c] :
          i \in DOMAIN queue'[c] /\ queue'[c][i] = queue[c][i]
  BY <1>2, <1>4, <1>6
<1>9. n + 1 \in DOMAIN queue'[q] /\ queue'[q][n + 1] = t
  BY <1>2, <1>4
<1>10. NoDuplicates'
  BY <1>5, <1>7 DEF NoDuplicates
<1>11. AllQueued' = AllQueued \cup {t}
  BY <1>1, <1>7, <1>8, <1>9 DEF AllQueued, Queued
<1> QED
  BY <1>10, <1>11

\* LPOP removes exactly the head, and leaves no copy of it behind.
LEMMA PopOnce ==
    ASSUME Lists, NoDuplicates, NEW c \in Classes, queue[c] # <<>>,
           queue' = [queue EXCEPT ![c] = Tail(@)]
    PROVE  /\ NoDuplicates'
           /\ Head(queue[c]) \in AllQueued
           /\ AllQueued' = AllQueued \ {Head(queue[c])}
<1> DEFINE n == Len(queue[c])
<1>1. queue[c] \in Seq(Task) /\ n \in Nat /\ n > 0
  BY DEF Lists
<1>2. \A d \in Classes : queue'[d] = IF d = c THEN Tail(queue[c]) ELSE queue[d]
  BY DEF Lists
<1>3. /\ Head(queue[c]) = queue[c][1]
      /\ DOMAIN Tail(queue[c]) = 1..(n - 1)
      /\ \A i \in 1..(n - 1) : Tail(queue[c])[i] = queue[c][i + 1]
      /\ DOMAIN queue[c] = 1..n
  BY <1>1
<1>4. \A d \in Classes \ {c} : queue'[d] = queue[d]
  BY <1>2
<1>5. /\ DOMAIN queue'[c] = 1..(n - 1)
      /\ \A i \in 1..(n - 1) : queue'[c][i] = queue[c][i + 1]
  BY <1>2, <1>3
<1>6. NoDuplicates'
  <2> SUFFICES ASSUME NEW d \in Classes, NEW e \in Classes,
                      NEW i \in DOMAIN queue'[d], NEW j \in DOMAIN queue'[e],
                      queue'[d][i] = queue'[e][j]
               PROVE  d = e /\ i = j
    BY DEF NoDuplicates
  <2> DEFINE Shift(b, k) == IF b = c THEN k + 1 ELSE k
  <2>1. Shift(d, i) \in DOMAIN queue[d] /\ queue'[d][i] = queue[d][Shift(d, i)]
    BY <1>1, <1>3, <1>4, <1>5
  <2>2. Shift(e, j) \in DOMAIN queue[e] /\ queue'[e][j] = queue[e][Shift(e, j)]
    BY <1>1, <1>3, <1>4, <1>5
  <2>3. d = e /\ Shift(d, i) = Shift(e, j)
    BY <2>1, <2>2 DEF NoDuplicates
  <2>4. d = c => i \in Int /\ j \in Int
    BY <1>5, <2>3
  <2> QED
    BY <2>3, <2>4
<1>7. Head(queue[c]) \in AllQueued
  BY <1>1, <1>3 DEF AllQueued, Queued
<1>8. AllQueued' \subseteq AllQueued \ {Head(queue[c])}
  <2> SUFFICES ASSUME NEW d \in Classes, NEW i \in DOMAIN queue'[d]
               PROVE  queue'[d][i] \in AllQueued /\ queue'[d][i] # queue[c][1]
    BY <1>3 DEF AllQueued, Queued
  <2>1. CASE d = c
    <3>1. i + 1 \in DOMAIN queue[c] /\ queue'[d][i] = queue[c][i + 1] /\ i + 1 # 1
      BY <1>1, <1>3, <1>5, <2>1
    <3>2. 1 \in DOMAIN queue[c]
      BY <1>1, <1>3
    <3> QED
      BY <3>1, <3>2 DEF NoDuplicates, AllQueued, Queued
  <2>2. CASE d # c
    <3>1. 1 \in DOMAIN queue[c] /\ i \in DOMAIN queue[d] /\ queue'[d][i] = queue[d][i]
      BY <1>1, <1>3, <1>4, <2>2
    <3> QED
      BY <2>2, <3>1 DEF NoDuplicates, AllQueued, Queued
  <2> QED
    BY <2>1, <2>2
<1>9. AllQueued \ {Head(queue[c])} \subseteq AllQueued'
  <2> SUFFICES ASSUME NEW d \in Classes, NEW i \in DOMAIN queue[d],
                      queue[d][i] # queue[c][1]
               PROVE  \E j \in DOMAIN queue'[d] : queue'[d][j] = queue[d][i]
    BY <1>3 DEF AllQueued, Queued
  <2>1. CASE d = c
    <3>1. i \in 1..n /\ i # 1
      BY <1>3, <2>1
    <3>2. i - 1 \in 1..(n - 1) /\ (i - 1) + 1 = i
      BY <1>1, <3>1
    <3> QED
      BY <1>5, <2>1, <3>2
  <2> QED
    BY <1>4, <2>1
<1> QED
  BY <1>6, <1>7, <1>8, <1>9

-----------------------------------------------------------------------------
(* Where a task can be.                                                    *)

\* SubmitTask is over: only now can the task have been pushed.
Replied(t) == sub[t] \in {"accepted", "rejected"}

(* The invariant behind AtOnePlace and the refinement.  It adds to         *)
(* AtOnePlace that only tasks whose submission is over are queued or held, *)
(* what an unfinished submission has written, and the state of the record  *)
(* between the HSET of status and the HSET of worker_id.                   *)
Places ==
    /\ NoDuplicates
    /\ \A t \in AllQueued : Unassigned(t) /\ Replied(t)
    /\ Holding => dtask \notin AllQueued /\ Unassigned(dtask) /\ Replied(dtask)
    /\ dpc = "setWorker" =>
         /\ Replied(dtask) /\ worker_id[dtask] = None /\ dtask \notin AllQueued
         /\ conn = "live" => status[dtask] = "running"
    /\ \A t \in Task : sub[t] = "none" => status[t] = "absent" /\ worker_id[t] = None
    /\ \A t \in Task : sub[t] = "saved" => Unassigned(t)

IInv == Typed /\ Places

LEMMA InitPlaces == Init => Places
<1> SUFFICES ASSUME Init PROVE Places
  OBVIOUS
<1>1. \A c \in Classes : queue[c] = <<>>
  BY DEF Init
<1>2. AllQueued = {}
  BY <1>1 DEF AllQueued, Queued
<1>3. NoDuplicates
  BY <1>1 DEF NoDuplicates
<1> QED
  BY <1>2, <1>3 DEF Init, Places, Holding

\* The lists are functions of queue, so a step that keeps queue keeps them.
LEMMA SameQueue ==
    ASSUME queue' = queue
    PROVE  AllQueued' = AllQueued /\ NoDuplicates' = NoDuplicates
BY DEF AllQueued, Queued, NoDuplicates

LEMMA ListsOfTasks == ASSUME Typed PROVE Lists /\ AllQueued \subseteq Task
BY DEF Typed, TypeOK, RedisTypeOK, Lists, AllQueued, Queued

LEMMA PlacesSubmit ==
    ASSUME IInv, NEW t \in Task, Submit(t)
    PROVE  Places'
<1> USE DEF IInv
<1>1. CASE SubmitPush(t)
  <2>1. t \notin AllQueued
    BY <1>1 DEF Places, Replied, SubmitPush
  <2>2. NoDuplicates' /\ AllQueued' = AllQueued \cup {t}
    BY <1>1, <2>1, PushOnce, ListsOfTasks DEF Places, SubmitPush
  <2>3. /\ status' = status /\ worker_id' = worker_id /\ dpc' = dpc
        /\ dtask' = dtask /\ conn' = conn /\ sub[t] = "saved"
        /\ \A u \in Task : sub'[u] = IF u = t THEN "accepted" ELSE sub[u]
    BY <1>1 DEF SubmitPush, loopVars, Typed, TypeOK, ProcessTypeOK
  <2>4. AllQueued \subseteq Task /\ (Holding \/ dpc = "setWorker" => dtask \in Task)
    BY ListsOfTasks DEF Holding, Typed, LocalsSet
  <2>5. (Holding \/ dpc = "setWorker") => dtask # t
    BY <2>3 DEF Places, Replied
  <2>6. \A u \in AllQueued' : Unassigned(u)' /\ Replied(u)'
    BY <2>2, <2>3, <2>4 DEF Places, Unassigned, Replied
  <2>7. Holding' => dtask' \notin AllQueued' /\ Unassigned(dtask)' /\ Replied(dtask)'
    BY <2>2, <2>3, <2>4, <2>5 DEF Places, Holding, Unassigned, Replied
  <2> QED
    BY <2>2, <2>3, <2>4, <2>5, <2>6, <2>7 DEF Places, Unassigned, Replied
<1>2. CASE \/ \E p \in Priorities : SubmitSave(t, p)
           \/ SubmitRefused(t)
  <2>1. /\ queue' = queue /\ worker_id' = worker_id /\ dpc' = dpc /\ dtask' = dtask
        /\ conn' = conn /\ sub[t] = "none"
        /\ \A u \in Task \ {t} : sub'[u] = sub[u] /\ status'[u] = status[u]
        /\ \/ sub'[t] = "saved" /\ status'[t] = "pending"
           \/ sub'[t] = "rejected" /\ status'[t] = status[t]
    BY <1>2 DEF SubmitSave, SubmitRefused, redisVars, loopVars, Typed, TypeOK,
                ProcessTypeOK, RedisTypeOK
  <2>2. AllQueued' = AllQueued /\ NoDuplicates'
    BY <2>1, SameQueue DEF Places
  <2>3. t \notin AllQueued /\ ((Holding \/ dpc = "setWorker") => dtask # t)
    BY <2>1 DEF Places, Replied
  <2>4. AllQueued \subseteq Task /\ (Holding \/ dpc = "setWorker" => dtask \in Task)
    BY ListsOfTasks DEF Holding, Typed, LocalsSet
  <2> QED
    BY <2>1, <2>2, <2>3, <2>4 DEF Places, Holding, Unassigned, Replied
<1> QED
  BY <1>1, <1>2 DEF Submit

\* A pop moves the head from its list into the hands of the dispatcher.
LEMMA PlacesLpop ==
    ASSUME IInv, NEW c \in Classes, Lpop(c)
    PROVE  Places'
<1> USE DEF IInv
<1>1. /\ status' = status /\ worker_id' = worker_id /\ sub' = sub
      /\ dpc' # "setWorker"
  BY DEF Lpop, NextClass
<1>2. CASE conn = "live" /\ queue[c] # <<>>
  <2>1. dtask' = Head(queue[c]) /\ queue' = [queue EXCEPT ![c] = Tail(@)]
    BY <1>2 DEF Lpop
  <2>2. NoDuplicates' /\ dtask' \in AllQueued /\ AllQueued' = AllQueued \ {dtask'}
    BY <1>2, <2>1, PopOnce, ListsOfTasks DEF Places
  <2> QED
    BY <1>1, <2>2 DEF Places, Unassigned, Replied
<1>3. CASE ~(conn = "live" /\ queue[c] # <<>>)
  <2>1. queue' = queue /\ ~Holding'
    BY <1>3 DEF Lpop, Holding, NextClass, Classes
  <2> QED
    BY <1>1, <2>1, SameQueue DEF Places, Unassigned, Replied
<1> QED
  BY <1>2, <1>3

LEMMA PlacesRequeue ==
    ASSUME IInv, Requeue
    PROVE  Places'
<1> USE DEF IInv
<1>1. /\ status' = status /\ worker_id' = worker_id /\ sub' = sub
      /\ ~Holding' /\ dpc' # "setWorker"
  BY DEF Requeue, Holding
<1>2. dtask \in Task /\ dtask \notin AllQueued /\ Unassigned(dtask) /\ Replied(dtask)
  BY DEF Requeue, Places, Holding, Typed, LocalsSet
<1>3. NoDuplicates' /\ (AllQueued' = AllQueued \/ AllQueued' = AllQueued \cup {dtask})
  BY <1>2, PushOnce, ListsOfTasks, SameQueue DEF Requeue, Places
<1> QED
  BY <1>1, <1>2, <1>3 DEF Places, Unassigned, Replied

\* The two HSETs touch the held task only, and that one is in no list.
LEMMA PlacesAssign ==
    ASSUME IInv, AssignStatus \/ AssignWorker
    PROVE  Places'
<1> USE DEF IInv
<1>1. queue' = queue /\ sub' = sub /\ ~Holding' /\ conn' = conn /\ dtask' = dtask
  BY DEF AssignStatus, AssignWorker, Holding
<1>2. NoDuplicates' /\ AllQueued' = AllQueued
  BY <1>1, SameQueue DEF Places
<1>3. AllQueued \subseteq Task /\ dtask \in Task
  BY ListsOfTasks DEF AssignStatus, AssignWorker, Typed, LocalsSet
<1>4. dtask \notin AllQueued /\ Replied(dtask)
  BY DEF AssignStatus, AssignWorker, Places, Holding
<1>5. \A u \in Task \ {dtask} : status'[u] = status[u] /\ worker_id'[u] = worker_id[u]
  BY DEF AssignStatus, AssignWorker, Typed, TypeOK, RedisTypeOK
<1>6. dpc' = "setWorker" => /\ worker_id'[dtask] = None
                            /\ conn = "live" => status'[dtask] = "running"
  BY <1>3 DEF AssignStatus, AssignWorker, Places, Holding, Unassigned, Typed, TypeOK,
              RedisTypeOK
<1> QED
  BY <1>1, <1>2, <1>3, <1>4, <1>5, <1>6 DEF Places, Unassigned, Replied

LEMMA PlacesDispatch ==
    ASSUME IInv, Dispatch
    PROVE  Places'
<1>1. CASE LoopTop \/ Select \/ IncrLoad \/ ReadLoad \/ CacheLoad
  <2>1. queue' = queue /\ status' = status /\ worker_id' = worker_id /\ sub' = sub
    BY <1>1 DEF LoopTop, Select, IncrLoad, ReadLoad, CacheLoad, redisVars
  <2>2. /\ Holding' => Holding /\ dtask' = dtask
        /\ dpc' # "setWorker"
    BY <1>1 DEF LoopTop, Select, IncrLoad, ReadLoad, CacheLoad, Holding
  <2> QED
    BY <2>1, <2>2, SameQueue DEF IInv, Places, Unassigned, Replied
<1> QED
  BY <1>1, PlacesLpop, PlacesRequeue, PlacesAssign DEF Dispatch

LEMMA PlacesEnvironment ==
    ASSUME IInv, Environment
    PROVE  Places'
<1>1. queue' = queue /\ status' = status /\ worker_id' = worker_id /\ sub' = sub
  BY DEF Environment, UpdateWorkers, MarkWorkerDead, Signal, Shutdown, Start, redisVars
<1>2. \/ UNCHANGED <<dpc, dtask, conn>>
      \/ dpc' = "top"
  BY DEF Environment, UpdateWorkers, MarkWorkerDead, Signal, Shutdown, Start, loopVars
<1> QED
  BY <1>1, <1>2, SameQueue DEF IInv, Places, Unassigned, Replied, Holding

LEMMA PlacesFault ==
    ASSUME IInv, Fault
    PROVE  Places'
<1> USE DEF IInv
<1>1. CASE Crash
  <2>1. queue' = queue /\ status' = status /\ worker_id' = worker_id /\ dpc' = "stopped"
    BY <1>1 DEF Crash, redisVars
  <2>2. \A t \in Task : sub'[t] = IF sub[t] = "saved" THEN "aborted" ELSE sub[t]
    BY <1>1 DEF Crash
  <2>3. AllQueued \subseteq Task
    BY ListsOfTasks
  <2> QED
    BY <2>1, <2>2, <2>3, SameQueue DEF Places, Unassigned, Replied, Holding
<1>2. ASSUME NEW t \in Task, NEW p \in Priorities, BreakSave(t, p)
      PROVE  Places'
  <2>1. /\ queue' = queue /\ worker_id' = worker_id /\ dpc' = dpc /\ dtask' = dtask
        /\ conn' = conn /\ sub[t] = "none" /\ sub'[t] = "rejected"
        /\ \A u \in Task \ {t} : sub'[u] = sub[u] /\ status'[u] = status[u]
    BY <1>2 DEF BreakSave, Break, loopVars, Typed, TypeOK, ProcessTypeOK, RedisTypeOK
  <2>2. t \notin AllQueued /\ ((Holding \/ dpc = "setWorker") => dtask # t)
    BY <2>1 DEF Places, Replied
  <2>3. AllQueued \subseteq Task /\ (Holding \/ dpc = "setWorker" => dtask \in Task)
    BY ListsOfTasks DEF Holding, Typed, LocalsSet
  <2> QED
    BY <2>1, <2>2, <2>3, SameQueue DEF Places, Holding, Unassigned, Replied
<1>3. ASSUME NEW t \in Task, NEW executed \in BOOLEAN, BreakPush(t, executed)
      PROVE  Places'
  <2>1. /\ status' = status /\ worker_id' = worker_id /\ dpc' = dpc
        /\ dtask' = dtask /\ conn' = conn /\ sub[t] = "saved"
        /\ \A u \in Task : sub'[u] = IF u = t THEN "rejected" ELSE sub[u]
    BY <1>3 DEF BreakPush, Break, loopVars, Typed, TypeOK, ProcessTypeOK
  <2>2. t \notin AllQueued /\ ((Holding \/ dpc = "setWorker") => dtask # t)
    BY <2>1 DEF Places, Replied
  <2>3. NoDuplicates' /\ (AllQueued' = AllQueued \/ AllQueued' = AllQueued \cup {t})
    BY <1>3, <2>2, PushOnce, ListsOfTasks, SameQueue DEF BreakPush, Places
  <2>4. AllQueued \subseteq Task /\ (Holding \/ dpc = "setWorker" => dtask \in Task)
    BY ListsOfTasks DEF Holding, Typed, LocalsSet
  <2> QED
    BY <2>1, <2>2, <2>3, <2>4 DEF Places, Holding, Unassigned, Replied
<1>4. ASSUME NEW c \in Classes, BreakLpop(c)
      PROVE  Places'
  <2>1. /\ status' = status /\ worker_id' = worker_id /\ sub' = sub
        /\ ~Holding' /\ dpc' # "setWorker"
    BY <1>4 DEF BreakLpop, Classes, Holding
  <2>2. NoDuplicates' /\ AllQueued' \subseteq AllQueued
    BY <1>4, PopOnce, ListsOfTasks DEF BreakLpop, Places
  <2> QED
    BY <2>1, <2>2 DEF Places, Unassigned, Replied
<1>5. CASE BreakLoop
  <2>1. /\ queue' = queue /\ status' = status /\ worker_id' = worker_id /\ sub' = sub
        /\ dpc' = dpc /\ dtask' = dtask /\ conn' = "dead"
    BY <1>5 DEF BreakLoop, redisVars
  <2> QED
    BY <2>1, SameQueue DEF Places, Unassigned, Replied, Holding
<1> QED
  BY <1>1, <1>2, <1>3, <1>4, <1>5 DEF Fault

LEMMA NextInvariant == IInv /\ [Next]_vars => IInv'
<1> SUFFICES ASSUME IInv, [Next]_vars PROVE IInv'
  OBVIOUS
<1>1. Typed'
  BY NextTyped DEF IInv
<1>2. CASE UNCHANGED vars
  <2>1. /\ queue' = queue /\ status' = status /\ worker_id' = worker_id /\ sub' = sub
        /\ dpc' = dpc /\ dtask' = dtask /\ conn' = conn
    BY <1>2 DEF vars, redisVars, loopVars
  <2> QED
    BY <1>1, <2>1, SameQueue DEF IInv, Places, Unassigned, Replied, Holding
<1>3. CASE Next
  BY <1>1, <1>3, PlacesSubmit, PlacesDispatch, PlacesEnvironment, PlacesFault
     DEF Next, IInv
<1> QED
  BY <1>2, <1>3

LEMMA Invariance == Spec => []IInv
<1>1. Init => IInv
  BY InitTyped, InitPlaces DEF IInv
<1> QED
  BY <1>1, NextInvariant, PTL DEF Spec

(* No task is ever queued twice, or queued and held at once, and none that *)
(* waits has been given to a worker, whatever crashes and connections do.  *)
THEOREM OnePlace == Spec => []AtOnePlace
<1>1. IInv => AtOnePlace
  BY DEF IInv, Places, AtOnePlace
<1> QED
  BY <1>1, Invariance, PTL

-----------------------------------------------------------------------------
(* The order of the pops.                                                  *)

\* Every queued task is in the list of the priority its record has.
Sorted ==
    \A c \in Classes : \A i \in DOMAIN queue[c] : QueueOf(priority[queue[c][i]]) = c

(* The invariant behind PopsHighestFirst: while the three lists are looked *)
(* at and no reply is lost, what was queued when the pop began still is,   *)
(* and nothing of it is in a list already found empty.                     *)
Ordered ==
    /\ Sorted
    /\ \A t \in atPop : Replied(t)
    /\ dpc \in Classes /\ conn = "live" => atPop \subseteq AllQueued
    /\ dpc = "medium" /\ conn = "live" => \A t \in atPop : Level(t) # 2
    /\ dpc = "low" /\ conn = "live" => \A t \in atPop : Level(t) = 0
    /\ PopsHighestFirst

\* Between two pops nothing is watched: any step that changes neither the
\* lists nor a queued record keeps Sorted.
LEMMA SortedStays ==
    ASSUME Sorted, queue' = queue,
           \A t \in AllQueued : priority'[t] = priority[t]
    PROVE  Sorted'
BY DEF Sorted, AllQueued, Queued

\* RPUSH to the list of the record's own priority keeps the lists sorted.
LEMMA PushSorted ==
    ASSUME Lists, Sorted, NEW t \in Task, Push(t, priority[t]), priority' = priority
    PROVE  Sorted'
<1> DEFINE q == QueueOf(priority[t])
           n == Len(queue[q])
<1>1. q \in Classes
  BY DEF QueueOf, Classes
<1>2. queue[q] \in Seq(Task) /\ n \in Nat
  BY <1>1 DEF Lists
<1>3. \A c \in Classes : queue'[c] = IF c = q THEN Append(queue[q], t) ELSE queue[c]
  BY <1>1 DEF Push, Lists
<1>4. /\ DOMAIN Append(queue[q], t) = 1..(n + 1)
      /\ \A i \in 1..n : Append(queue[q], t)[i] = queue[q][i]
      /\ Append(queue[q], t)[n + 1] = t
      /\ DOMAIN queue[q] = 1..n
  BY <1>2
<1> SUFFICES ASSUME NEW c \in Classes, NEW i \in DOMAIN queue'[c]
             PROVE  QueueOf(priority[queue'[c][i]]) = c
  BY DEF Sorted
<1>5. CASE c = q
  <2>1. i \in 1..(n + 1) /\ queue'[c][i] = Append(queue[q], t)[i]
    BY <1>3, <1>4, <1>5
  <2>2. CASE i = n + 1
    BY <1>4, <1>5, <2>1, <2>2
  <2>3. CASE i # n + 1
    <3>1. i \in 1..n
      BY <1>2, <2>1, <2>3
    <3>2. queue'[c][i] = queue[q][i] /\ i \in DOMAIN queue[q]
      BY <1>4, <2>1, <3>1
    <3> QED
      BY <1>1, <1>5, <3>2 DEF Sorted
  <2> QED
    BY <2>2, <2>3
<1>6. CASE c # q
  BY <1>3, <1>6 DEF Sorted
<1> QED
  BY <1>5, <1>6

\* LPOP keeps the lists sorted, and what it takes has the list's priority.
LEMMA PopSorted ==
    ASSUME Lists, Sorted, NEW c \in Classes, queue[c] # <<>>,
           queue' = [queue EXCEPT ![c] = Tail(@)], priority' = priority
    PROVE  Sorted' /\ QueueOf(priority[Head(queue[c])]) = c
<1> DEFINE n == Len(queue[c])
<1>1. queue[c] \in Seq(Task) /\ n \in Nat /\ n > 0
  BY DEF Lists
<1>2. \A d \in Classes : queue'[d] = IF d = c THEN Tail(queue[c]) ELSE queue[d]
  BY DEF Lists
<1>3. /\ Head(queue[c]) = queue[c][1]
      /\ DOMAIN Tail(queue[c]) = 1..(n - 1)
      /\ \A i \in 1..(n - 1) : Tail(queue[c])[i] = queue[c][i + 1]
      /\ DOMAIN queue[c] = 1..n
  BY <1>1
<1>4. QueueOf(priority[Head(queue[c])]) = c
  <2>1. 1 \in DOMAIN queue[c]
    BY <1>1, <1>3
  <2> QED
    BY <1>3, <2>1 DEF Sorted
<1>5. Sorted'
  <2> SUFFICES ASSUME NEW d \in Classes, NEW i \in DOMAIN queue'[d]
               PROVE  QueueOf(priority[queue'[d][i]]) = d
    BY DEF Sorted
  <2>1. CASE d = c
    <3>1. i \in 1..(n - 1) /\ queue'[d][i] = queue[c][i + 1]
      BY <1>2, <1>3, <2>1
    <3>2. i + 1 \in DOMAIN queue[c]
      BY <1>1, <1>3, <3>1
    <3> QED
      BY <2>1, <3>1, <3>2 DEF Sorted
  <2>2. CASE d # c
    BY <1>2, <2>2 DEF Sorted
  <2> QED
    BY <2>1, <2>2
<1> QED
  BY <1>4, <1>5

LEMMA InitOrdered == Init => Ordered
<1> SUFFICES ASSUME Init PROVE Ordered
  OBVIOUS
<1>1. \A c \in Classes : queue[c] = <<>>
  BY DEF Init
<1>2. Sorted
  BY <1>1 DEF Sorted
<1>3. dpc = "top" /\ atPop = {}
  BY DEF Init
<1> QED
  BY <1>2, <1>3 DEF Ordered, PopsHighestFirst, Holding, Classes

\* A list found empty holds none of the tasks of its priority.
LEMMA LevelOfQueued ==
    ASSUME Typed, Sorted, NEW t \in AllQueued
    PROVE  /\ queue["high"] = <<>> => Level(t) # 2
           /\ queue["medium"] = <<>> => Level(t) # 1
           /\ Level(t) \in 0..2
<1>1. PICK c \in Classes : \E i \in DOMAIN queue[c] : t = queue[c][i]
  BY DEF AllQueued, Queued
<1>2. QueueOf(priority[t]) = c /\ queue[c] # <<>>
  BY <1>1 DEF Sorted
<1>3. Level(t) \in 0..2
  BY DEF Level
<1>4. Level(t) = 2 => c = "high"
  BY <1>2 DEF Level, QueueOf
<1>5. Level(t) = 1 => c = "medium"
  BY <1>2 DEF Level, QueueOf
<1> QED
  BY <1>2, <1>3, <1>4, <1>5

\* Steps of the submitting threads and of failed submissions: the loop
\* keeps its place, the lists only grow.
LEMMA OrderedGrows ==
    ASSUME IInv, Ordered, Sorted', AllQueued \subseteq AllQueued',
           UNCHANGED <<dpc, dtask, conn, atPop>>,
           \A t \in Task : Replied(t) => Replied(t)' /\ priority'[t] = priority[t]
    PROVE  Ordered'
<1>1. atPop \subseteq Task
  BY DEF IInv, Typed, TypeOK, LoopTypeOK
<1>2. \A t \in atPop : Replied(t)' /\ Level(t)' = Level(t)
  BY <1>1 DEF Ordered, Level
<1>3. Holding => dtask \in Task /\ Level(dtask)' = Level(dtask)
  BY DEF IInv, Places, Typed, LocalsSet, Holding, Level
<1>4. PopsHighestFirst'
  BY <1>2, <1>3 DEF Ordered, PopsHighestFirst, Holding
<1> QED
  BY <1>2, <1>4 DEF Ordered

LEMMA OrderedLpop ==
    ASSUME IInv, Ordered, NEW c \in Classes, Lpop(c)
    PROVE  Ordered'
<1> USE DEF IInv
<1>1. priority' = priority /\ sub' = sub /\ dpc = c
  BY DEF Lpop
<1>2. \A t : Level(t)' = Level(t) /\ Replied(t)' = Replied(t)
  BY <1>1 DEF Level, Replied
<1>3. CASE conn = "live" /\ queue[c] # <<>>
  <2>1. /\ dtask' = Head(queue[c]) /\ queue' = [queue EXCEPT ![c] = Tail(@)]
        /\ dpc' = "select" /\ atPop' = atPop
    BY <1>3 DEF Lpop
  <2>2. Sorted' /\ QueueOf(priority[dtask']) = c
    BY <1>1, <1>3, <2>1, PopSorted, ListsOfTasks DEF Ordered
  <2>3. \A t \in atPop : Level(t) \in 0..2
    BY DEF Level
  <2>4. \A t \in atPop : Level(t) <= Level(dtask')
    <3>1. CASE c = "high"
      BY <2>2, <2>3, <3>1 DEF QueueOf, Level
    <3>2. CASE c = "medium"
      <4>1. \A t \in atPop : Level(t) # 2
        BY <1>1, <1>3, <3>2 DEF Ordered
      <4>2. Level(dtask') = 1
        BY <2>2, <3>2 DEF QueueOf, Level
      <4> QED
        BY <2>3, <4>1, <4>2
    <3>3. CASE c = "low"
      <4>1. \A t \in atPop : Level(t) = 0
        BY <1>1, <1>3, <3>3 DEF Ordered
      <4>2. Level(dtask') \in 0..2
        BY DEF Level
      <4> QED
        BY <4>1, <4>2
    <3> QED
      BY <3>1, <3>2, <3>3 DEF Classes
  <2>5. PopsHighestFirst'
    BY <1>1, <2>1, <2>4 DEF PopsHighestFirst, Level
  <2>6. \A t \in atPop' : Replied(t)'
    BY <1>2, <2>1 DEF Ordered
  <2> QED
    BY <2>1, <2>2, <2>5, <2>6 DEF Ordered, Classes
<1>4. CASE ~(conn = "live" /\ queue[c] # <<>>)
  <2>1. queue' = queue /\ AllQueued' = AllQueued
    BY <1>4, SameQueue DEF Lpop
  <2>2. Sorted'
    BY <1>1, <2>1, SortedStays DEF Ordered
  <2>3. CASE c = "low"
    <3>1. dpc' = "top" /\ atPop' = {}
      BY <1>4, <2>3 DEF Lpop, LoopReset
    <3> QED
      BY <2>2, <3>1 DEF Ordered, PopsHighestFirst, Holding, Classes
  <2>4. CASE c # "low"
    <3>1. dpc' = NextClass(c) /\ atPop' = atPop /\ conn' = conn
      BY <1>4, <2>4 DEF Lpop
    <3>2. dpc' \in {"medium", "low"} /\ (c = "high" <=> dpc' = "medium")
      BY <2>4, <3>1 DEF NextClass, Classes
    <3>3. ASSUME conn = "live" PROVE queue[c] = <<>> /\ atPop \subseteq AllQueued
      BY <1>1, <1>4, <3>3 DEF Ordered
    <3>4. dpc' = "medium" /\ conn = "live" => \A t \in atPop : Level(t) # 2
      BY <3>2, <3>3, LevelOfQueued DEF Ordered
    <3>5. dpc' = "low" /\ conn = "live" => \A t \in atPop : Level(t) = 0
      <4> SUFFICES ASSUME dpc' = "low", conn = "live", NEW t \in atPop PROVE Level(t) = 0
        OBVIOUS
      <4>1. c = "medium"
        BY <2>4, <3>2 DEF Classes
      <4>2. Level(t) # 2
        BY <1>1, <4>1 DEF Ordered
      <4>3. Level(t) # 1 /\ Level(t) \in 0..2
        BY <3>3, <4>1, LevelOfQueued DEF Ordered
      <4> QED
        BY <4>2, <4>3
    <3>6. ~Holding'
      BY <3>2 DEF Holding
    <3>7. \A t \in atPop' : Replied(t)'
      BY <1>2, <3>1 DEF Ordered
    <3> QED
      BY <1>2, <2>1, <2>2, <3>1, <3>2, <3>3, <3>4, <3>5, <3>6, <3>7
         DEF Ordered, PopsHighestFirst
  <2> QED
    BY <2>3, <2>4
<1> QED
  BY <1>3, <1>4

LEMMA OrderedDispatch ==
    ASSUME IInv, Ordered, Dispatch
    PROVE  Ordered'
<1> USE DEF IInv
<1>1. CASE LoopTop
  <2>1. queue' = queue /\ priority' = priority /\ sub' = sub /\ ~Holding'
    BY <1>1 DEF LoopTop, redisVars, Holding
  <2>2. Sorted' /\ AllQueued' = AllQueued
    BY <2>1, SortedStays, SameQueue DEF Ordered
  <2>3. \A t \in atPop' : Replied(t)'
    BY <1>1, <2>1 DEF LoopTop, Ordered, Places, Replied
  <2>4. \/ dpc' = "high" /\ atPop' = AllQueued
        \/ dpc' = "stopped"
    BY <1>1 DEF LoopTop
  <2> QED
    BY <2>1, <2>2, <2>3, <2>4 DEF Ordered, PopsHighestFirst, Classes
<1>2. CASE Requeue
  <2>1. priority' = priority /\ dpc' = "top" /\ atPop' = {}
    BY <1>2 DEF Requeue, LoopReset
  <2>2. Sorted'
    <3>1. dtask \in Task
      BY <1>2 DEF Requeue, Typed, LocalsSet
    <3> QED
      BY <1>2, <2>1, <3>1, PushSorted, SortedStays, ListsOfTasks DEF Requeue, Ordered
  <2> QED
    BY <2>1, <2>2 DEF Ordered, PopsHighestFirst, Holding, Classes
<1>3. CASE \/ Select \/ AssignStatus \/ AssignWorker \/ IncrLoad \/ ReadLoad
           \/ CacheLoad
  <2>1. /\ queue' = queue /\ priority' = priority /\ sub' = sub
        /\ dpc' \notin Classes
        /\ Holding' => Holding /\ dtask' = dtask
        /\ atPop' \subseteq atPop
    BY <1>3 DEF Select, AssignStatus, AssignWorker, IncrLoad, ReadLoad, CacheLoad,
                redisVars, LoopReset, Holding, Classes
  <2>2. Sorted'
    BY <2>1, SortedStays DEF Ordered
  <2>3. \A t : Level(t)' = Level(t) /\ Replied(t)' = Replied(t)
    BY <2>1 DEF Level, Replied
  <2>4. PopsHighestFirst'
    BY <2>1, <2>3 DEF Ordered, PopsHighestFirst, Level
  <2> QED
    BY <2>1, <2>2, <2>3, <2>4 DEF Ordered, Classes
<1> QED
  BY <1>1, <1>2, <1>3, OrderedLpop DEF Dispatch

LEMMA OrderedFault ==
    ASSUME IInv, Ordered, Fault
    PROVE  Ordered'
<1> USE DEF IInv
<1>1. CASE Crash
  <2>1. queue' = queue /\ priority' = priority /\ dpc' = "stopped" /\ atPop' = {}
    BY <1>1 DEF Crash, redisVars, LoopReset
  <2>2. Sorted'
    BY <2>1, SortedStays DEF Ordered
  <2> QED
    BY <2>1, <2>2 DEF Ordered, PopsHighestFirst, Holding, Classes
<1>2. ASSUME NEW t \in Task, NEW p \in Priorities, BreakSave(t, p)
      PROVE  Ordered'
  <2>1. /\ queue' = queue /\ UNCHANGED <<dpc, dtask, conn, atPop>>
        /\ sub[t] = "none" /\ sub'[t] = "rejected"
        /\ \A u \in Task \ {t} : sub'[u] = sub[u] /\ priority'[u] = priority[u]
    BY <1>2 DEF BreakSave, Break, loopVars, Typed, TypeOK, ProcessTypeOK, RedisTypeOK
  <2>2. \A u \in Task : Replied(u) => Replied(u)' /\ priority'[u] = priority[u]
    BY <2>1 DEF Replied
  <2>3. Sorted' /\ AllQueued' = AllQueued
    BY <2>1, <2>2, SortedStays, SameQueue, ListsOfTasks DEF Ordered, Places
  <2> QED
    BY <2>1, <2>2, <2>3, OrderedGrows
<1>3. ASSUME NEW t \in Task, NEW executed \in BOOLEAN, BreakPush(t, executed)
      PROVE  Ordered'
  <2>1. /\ UNCHANGED <<dpc, dtask, conn, atPop>> /\ priority' = priority
        /\ sub[t] = "saved"
        /\ \A u \in Task : sub'[u] = IF u = t THEN "rejected" ELSE sub[u]
    BY <1>3 DEF BreakPush, Break, loopVars, Typed, TypeOK, ProcessTypeOK
  <2>2. \A u \in Task : Replied(u) => Replied(u)' /\ priority'[u] = priority[u]
    BY <2>1 DEF Replied
  <2>3. t \notin AllQueued
    BY <2>1 DEF Places, Replied
  <2>4. Sorted' /\ AllQueued \subseteq AllQueued'
    BY <1>3, <2>1, <2>3, PushSorted, PushOnce, SortedStays, SameQueue, ListsOfTasks
       DEF BreakPush, Ordered, Places
  <2> QED
    BY <2>1, <2>2, <2>4, OrderedGrows
<1>4. ASSUME NEW c \in Classes, BreakLpop(c)
      PROVE  Ordered'
  <2>1. /\ queue[c] # <<>> /\ queue' = [queue EXCEPT ![c] = Tail(@)]
        /\ priority' = priority /\ sub' = sub /\ atPop' = atPop
        /\ conn' = "dead" /\ dpc' = c
    BY <1>4 DEF BreakLpop
  <2>2. Sorted'
    BY <2>1, PopSorted, ListsOfTasks DEF Ordered
  <2>3. \A t \in atPop' : Replied(t)'
    BY <2>1 DEF Ordered, Replied
  <2> QED
    BY <2>1, <2>2, <2>3 DEF Ordered, PopsHighestFirst, Holding, Classes
<1>5. CASE BreakLoop
  <2>1. /\ queue' = queue /\ priority' = priority /\ sub' = sub /\ atPop' = atPop
        /\ conn' = "dead" /\ dpc' = dpc /\ dtask' = dtask
    BY <1>5 DEF BreakLoop, redisVars
  <2>2. Sorted'
    BY <2>1, SortedStays DEF Ordered
  <2>3. PopsHighestFirst' /\ \A t \in atPop' : Replied(t)'
    BY <2>1 DEF Ordered, PopsHighestFirst, Holding, Level, Replied
  <2> QED
    BY <2>1, <2>2, <2>3 DEF Ordered
<1> QED
  BY <1>1, <1>2, <1>3, <1>4, <1>5 DEF Fault

LEMMA NextOrdered == IInv /\ Ordered /\ [Next]_vars => Ordered'
<1> SUFFICES ASSUME IInv, Ordered, [Next]_vars PROVE Ordered'
  OBVIOUS
<1> USE DEF IInv
<1>1. ASSUME NEW t \in Task, Submit(t) PROVE Ordered'
  <2>1. CASE SubmitPush(t)
    <3>1. /\ UNCHANGED <<dpc, dtask, conn, atPop>> /\ priority' = priority
          /\ sub[t] = "saved"
          /\ \A u \in Task : sub'[u] = IF u = t THEN "accepted" ELSE sub[u]
      BY <2>1 DEF SubmitPush, loopVars, Typed, TypeOK, ProcessTypeOK
    <3>2. \A u \in Task : Replied(u) => Replied(u)' /\ priority'[u] = priority[u]
      BY <3>1 DEF Replied
    <3>3. t \notin AllQueued
      BY <3>1 DEF Places, Replied
    <3>4. Sorted' /\ AllQueued \subseteq AllQueued'
      BY <2>1, <3>1, <3>3, PushSorted, PushOnce, ListsOfTasks
         DEF SubmitPush, Ordered, Places
    <3> QED
      BY <3>1, <3>2, <3>4, OrderedGrows
  <2>2. CASE SubmitRefused(t) \/ \E p \in Priorities : SubmitSave(t, p)
    <3>1. /\ queue' = queue /\ UNCHANGED <<dpc, dtask, conn, atPop>>
          /\ sub[t] = "none"
          /\ \A u \in Task \ {t} : sub'[u] = sub[u] /\ priority'[u] = priority[u]
      BY <2>2 DEF SubmitRefused, SubmitSave, redisVars, loopVars, Typed, TypeOK,
                  ProcessTypeOK, RedisTypeOK
    <3>2. \A u \in Task : Replied(u) => Replied(u)' /\ priority'[u] = priority[u]
      BY <3>1 DEF Replied
    <3>3. Sorted' /\ AllQueued' = AllQueued
      BY <3>1, <3>2, SortedStays, SameQueue, ListsOfTasks DEF Ordered, Places
    <3> QED
      BY <3>1, <3>2, <3>3, OrderedGrows
  <2> QED
    BY <1>1, <2>1, <2>2 DEF Submit
<1>2. CASE Dispatch
  BY <1>2, OrderedDispatch
<1>3. CASE Environment
  <2>1. CASE Start
    <3>1. queue' = queue /\ priority' = priority /\ dpc' = "top" /\ atPop' = {}
      BY <2>1 DEF Start, LoopReset, redisVars
    <3>2. Sorted'
      BY <3>1, SortedStays DEF Ordered
    <3> QED
      BY <3>1, <3>2 DEF Ordered, PopsHighestFirst, Holding, Classes
  <2>2. CASE \/ \E S \in SUBSET Worker : UpdateWorkers(S)
             \/ \E w \in Worker : MarkWorkerDead(w)
             \/ Signal \/ Shutdown
    <3>1. /\ queue' = queue /\ priority' = priority /\ sub' = sub
          /\ UNCHANGED <<dpc, dtask, conn, atPop>>
      BY <2>2 DEF UpdateWorkers, MarkWorkerDead, Signal, Shutdown, redisVars, loopVars
    <3>2. Sorted' /\ AllQueued' = AllQueued
      BY <3>1, SortedStays, SameQueue DEF Ordered
    <3>3. \A u \in Task : Replied(u) => Replied(u)' /\ priority'[u] = priority[u]
      BY <3>1 DEF Replied
    <3> QED
      BY <3>1, <3>2, <3>3, OrderedGrows
  <2> QED
    BY <1>3, <2>1, <2>2 DEF Environment
<1>4. CASE Fault
  BY <1>4, OrderedFault
<1>5. CASE UNCHANGED vars
  <2>1. /\ queue' = queue /\ priority' = priority /\ sub' = sub
        /\ UNCHANGED <<dpc, dtask, conn, atPop>>
    BY <1>5 DEF vars, redisVars, loopVars
  <2>2. Sorted' /\ AllQueued' = AllQueued
    BY <2>1, SortedStays, SameQueue DEF Ordered
  <2>3. \A u \in Task : Replied(u) => Replied(u)' /\ priority'[u] = priority[u]
    BY <2>1 DEF Replied
  <2> QED
    BY <2>1, <2>2, <2>3, OrderedGrows
<1> QED
  BY <1>1, <1>2, <1>3, <1>4, <1>5 DEF Next

(* Three separate LPOPs with submissions between them still take a task as *)
(* urgent as any that was queued when popFromPriorityQueue was entered.    *)
THEOREM TakesMostUrgent == Spec => []PopsHighestFirst
<1>1. IInv /\ Ordered /\ [Next]_vars => IInv' /\ Ordered'
  BY NextInvariant, NextOrdered
<1>2. Init => IInv /\ Ordered
  BY InitTyped, InitPlaces, InitOrdered DEF IInv
<1>3. IInv /\ Ordered => PopsHighestFirst
  BY DEF Ordered
<1> QED
  BY <1>1, <1>2, <1>3, PTL DEF Spec

-----------------------------------------------------------------------------
(* What a crash can lose.                                                  *)

(* The invariant behind BoundedLoss.  A process that is down has no loop,  *)
(* so a restart gives no task up; without a failed connection no command   *)
(* of the loop is refused.                                                 *)
LossBounded ==
    /\ proc = "down" => dpc = "stopped"
    /\ breaks = 0 => /\ pool = {"live"} /\ conn = "live"
                     /\ IsFiniteSet(Lost) /\ Cardinality(Lost) <= crashes

\* A process that is down stays down until Start, which finds no loop.
LEMMA DownIsStopped ==
    ASSUME IInv, proc = "down" => dpc = "stopped", [Next]_vars
    PROVE  (proc = "down" => dpc = "stopped")'
<1>1. CASE \E t \in Task : Submit(t)
  BY <1>1 DEF Submit, SubmitSave, SubmitRefused, SubmitPush, loopVars
<1>2. CASE Dispatch
  BY <1>2 DEF Dispatch, LoopTop, Lpop, Select, Requeue, AssignStatus, AssignWorker,
              IncrLoad, ReadLoad, CacheLoad, Classes
<1>3. CASE Environment
  BY <1>3 DEF Environment, UpdateWorkers, MarkWorkerDead, Signal, Shutdown, Start,
              loopVars
<1>4. CASE Fault
  BY <1>4 DEF Fault, Crash, BreakSave, BreakPush, BreakLpop, BreakLoop, Break, loopVars
<1>5. CASE UNCHANGED vars
  BY <1>5 DEF vars, loopVars
<1> QED
  BY <1>1, <1>2, <1>3, <1>4, <1>5 DEF Next

\* Every connection is good as long as none has failed.
LEMMA NoBreakLive ==
    ASSUME IInv, breaks = 0 => pool = {"live"} /\ conn = "live", [Next]_vars
    PROVE  (breaks = 0 => pool = {"live"} /\ conn = "live")'
<1> USE DEF IInv
<1>1. CASE \E t \in Task : Submit(t)
  BY <1>1 DEF Submit, SubmitSave, SubmitRefused, SubmitPush, loopVars, faultVars
<1>2. CASE Dispatch
  BY <1>2 DEF Dispatch, LoopTop, Lpop, Select, Requeue, AssignStatus, AssignWorker,
              IncrLoad, ReadLoad, CacheLoad, LoopReset, faultVars
<1>3. CASE Environment
  BY <1>3 DEF Environment, UpdateWorkers, MarkWorkerDead, Signal, Shutdown, Start,
              ProcessGone, LoopReset, loopVars, faultVars
<1>4. CASE Crash
  BY <1>4 DEF Crash, ProcessGone, LoopReset
<1>5. CASE Fault /\ ~Crash
  <2>1. breaks' = breaks + 1
    BY <1>5 DEF Fault, BreakSave, BreakPush, BreakLpop, BreakLoop, Break
  <2> QED
    BY <2>1 DEF Typed, TypeOK, ProcessTypeOK
<1>6. CASE UNCHANGED vars
  BY <1>6 DEF vars, loopVars, faultVars
<1> QED
  BY <1>1, <1>2, <1>3, <1>4, <1>5, <1>6 DEF Next, Fault

\* Without a failed connection a step other than a crash loses no task.
LEMMA LostOnlyByCrash ==
    ASSUME IInv, LossBounded, [Next]_vars, ~Crash, breaks' = 0
    PROVE  breaks = 0 /\ crashes' = crashes /\ Lost' \subseteq Lost
<1> USE DEF IInv
<1>1. breaks \in Nat
  BY DEF Typed, TypeOK, ProcessTypeOK
<1>2. CASE \E t \in Task : Submit(t)
  <2>1. PICK t \in Task : Submit(t)
    BY <1>2
  <2>2. /\ breaks' = breaks /\ crashes' = crashes /\ dpc' = dpc /\ dtask' = dtask
        /\ \A u \in Task \ {t} : sub'[u] = sub[u] /\ status'[u] = status[u]
    BY <2>1 DEF Submit, SubmitSave, SubmitRefused, SubmitPush, loopVars, faultVars,
                redisVars, Typed, TypeOK, ProcessTypeOK, RedisTypeOK
  <2>3. CASE SubmitPush(t)
    <3>1. t \notin AllQueued
      BY <2>3 DEF SubmitPush, Places, Replied
    <3>2. AllQueued' = AllQueued \cup {t}
      BY <2>3, <3>1, PushOnce, ListsOfTasks DEF SubmitPush, Places
    <3> QED
      BY <2>2, <3>2 DEF Lost, Holding
  <2>4. CASE SubmitRefused(t) \/ \E p \in Priorities : SubmitSave(t, p)
    <3>1. queue' = queue /\ sub'[t] # "accepted"
      BY <2>4 DEF SubmitRefused, SubmitSave, redisVars, Typed, TypeOK, ProcessTypeOK
    <3>2. AllQueued' = AllQueued
      BY <3>1, SameQueue
    <3> QED
      BY <2>2, <3>1, <3>2 DEF Lost, Holding
  <2> QED
    BY <2>1, <2>3, <2>4 DEF Submit
<1>3. CASE Dispatch
  <2>1. breaks' = breaks /\ crashes' = crashes /\ sub' = sub
    BY <1>3 DEF Dispatch, LoopTop, Lpop, Select, Requeue, AssignStatus, AssignWorker,
                IncrLoad, ReadLoad, CacheLoad, faultVars
  <2>2. breaks = 0 /\ conn = "live"
    BY <2>1 DEF LossBounded
  <2>3. ASSUME NEW c \in Classes, Lpop(c) PROVE Lost' \subseteq Lost
    <3>1. status' = status /\ ~Holding
      BY <2>3 DEF Lpop, Classes, Holding
    <3>2. CASE queue[c] # <<>>
      <4>1. /\ dtask' = Head(queue[c]) /\ queue' = [queue EXCEPT ![c] = Tail(@)]
            /\ Holding'
        BY <2>2, <2>3, <3>2 DEF Lpop, Holding
      <4>2. AllQueued' = AllQueued \ {dtask'}
        BY <3>2, <4>1, PopOnce, ListsOfTasks DEF Places
      <4> QED
        BY <2>1, <3>1, <4>1, <4>2 DEF Lost
    <3>3. CASE queue[c] = <<>>
      <4>1. queue' = queue
        BY <2>3, <3>3 DEF Lpop
      <4>2. AllQueued' = AllQueued
        BY <4>1, SameQueue
      <4> QED
        BY <2>1, <3>1, <4>2 DEF Lost
    <3> QED
      BY <3>2, <3>3
  <2>4. CASE Requeue
    <3>1. dtask \in Task /\ dtask \notin AllQueued /\ status' = status
      BY <2>4 DEF Requeue, Typed, LocalsSet, Places, Holding
    <3>2. AllQueued' = AllQueued \cup {dtask}
      BY <2>2, <2>4, <3>1, PushOnce, ListsOfTasks DEF Requeue, Places
    <3> QED
      BY <2>1, <3>1, <3>2 DEF Lost
  <2>5. CASE AssignStatus
    <3>1. dtask \in Task /\ queue' = queue
      BY <2>5 DEF AssignStatus, Typed, LocalsSet
    <3>2. /\ status'[dtask] = "running"
          /\ \A u \in Task \ {dtask} : status'[u] = status[u]
      BY <2>2, <2>5, <3>1 DEF AssignStatus, Typed, TypeOK, RedisTypeOK
    <3>3. AllQueued' = AllQueued
      BY <3>1, SameQueue
    <3> QED
      BY <2>1, <3>1, <3>2, <3>3 DEF Lost
  <2>6. CASE LoopTop \/ Select \/ AssignWorker \/ IncrLoad \/ ReadLoad \/ CacheLoad
    <3>1. queue' = queue /\ status' = status
      BY <2>6 DEF LoopTop, Select, AssignWorker, IncrLoad, ReadLoad, CacheLoad, redisVars
    <3>2. Holding => Holding' /\ dtask' = dtask
      BY <2>6 DEF LoopTop, Select, AssignWorker, IncrLoad, ReadLoad, CacheLoad, Holding
    <3>3. AllQueued' = AllQueued
      BY <3>1, SameQueue
    <3> QED
      BY <2>1, <3>1, <3>2, <3>3 DEF Lost
  <2> QED
    BY <1>3, <2>1, <2>2, <2>3, <2>4, <2>5, <2>6 DEF Dispatch
<1>4. CASE Environment
  <2>1. /\ breaks' = breaks /\ crashes' = crashes /\ sub' = sub /\ queue' = queue
        /\ status' = status
    BY <1>4 DEF Environment, UpdateWorkers, MarkWorkerDead, Signal, Shutdown, Start,
                faultVars, redisVars
  <2>2. Holding => Holding' /\ dtask' = dtask
    BY <1>4 DEF Environment, UpdateWorkers, MarkWorkerDead, Signal, Shutdown, Start,
                loopVars, Holding, LossBounded
  <2>3. AllQueued' = AllQueued
    BY <2>1, SameQueue
  <2> QED
    BY <2>1, <2>2, <2>3 DEF Lost
<1>5. CASE Fault
  <2>1. breaks' = breaks + 1
    BY <1>5 DEF Fault, BreakSave, BreakPush, BreakLpop, BreakLoop, Break
  <2> QED
    BY <1>1, <2>1
<1>6. CASE UNCHANGED vars
  <2>1. /\ breaks' = breaks /\ crashes' = crashes /\ sub' = sub /\ queue' = queue
        /\ status' = status /\ dpc' = dpc /\ dtask' = dtask
    BY <1>6 DEF vars, faultVars, redisVars, loopVars
  <2>2. AllQueued' = AllQueued
    BY <2>1, SameQueue
  <2> QED
    BY <2>1, <2>2 DEF Lost, Holding
<1> QED
  BY <1>2, <1>3, <1>4, <1>5, <1>6 DEF Next

\* A crash takes at most the one task in the hands of the dispatcher.
LEMMA CrashLosesOne ==
    ASSUME IInv, Crash
    PROVE  Lost' \subseteq Lost \cup {dtask}
<1>1. /\ queue' = queue /\ status' = status
      /\ \A t \in Task : sub'[t] = IF sub[t] = "saved" THEN "aborted" ELSE sub[t]
  BY DEF Crash, redisVars
<1>2. AllQueued' = AllQueued
  BY <1>1, SameQueue
<1> QED
  BY <1>1, <1>2 DEF Lost

LEMMA InitLoss == Init => LossBounded
<1> SUFFICES ASSUME Init PROVE LossBounded
  OBVIOUS
<1>1. Lost = {}
  BY DEF Init, Lost
<1>2. IsFiniteSet({}) /\ Cardinality({}) = 0
  BY FS_EmptySet
<1> QED
  BY <1>1, <1>2 DEF Init, LossBounded

LEMMA NextLoss == IInv /\ LossBounded /\ [Next]_vars => LossBounded'
<1> SUFFICES ASSUME IInv, LossBounded, [Next]_vars PROVE LossBounded'
  OBVIOUS
<1>1. (proc = "down" => dpc = "stopped")'
  BY DownIsStopped DEF LossBounded
<1>2. (breaks = 0 => pool = {"live"} /\ conn = "live")'
  BY NoBreakLive DEF LossBounded
<1>3. crashes \in Nat
  BY DEF IInv, Typed, TypeOK, ProcessTypeOK
<1>4. ASSUME breaks' = 0 PROVE IsFiniteSet(Lost') /\ Cardinality(Lost') <= crashes'
  <2>1. CASE Crash
    <3>1. breaks = 0 /\ crashes' = crashes + 1
      BY <1>4, <2>1 DEF Crash
    <3>2. IsFiniteSet(Lost) /\ Cardinality(Lost) <= crashes
      BY <3>1 DEF LossBounded
    <3>3. Cardinality(Lost) \in Nat
      BY <3>2, FS_CardinalityType
    <3>4. /\ IsFiniteSet(Lost \cup {dtask})
          /\ \/ Cardinality(Lost \cup {dtask}) = Cardinality(Lost)
             \/ Cardinality(Lost \cup {dtask}) = Cardinality(Lost) + 1
      BY <3>2, FS_AddElement
    <3>5. Lost' \subseteq Lost \cup {dtask}
      BY <2>1, CrashLosesOne
    <3>6. IsFiniteSet(Lost') /\ Cardinality(Lost') <= Cardinality(Lost \cup {dtask})
      BY <3>4, <3>5, FS_Subset
    <3>7. Cardinality(Lost') \in Nat
      BY <3>6, FS_CardinalityType
    <3> QED
      BY <1>3, <3>1, <3>2, <3>3, <3>4, <3>6, <3>7
  <2>2. CASE ~Crash
    <3>1. breaks = 0 /\ crashes' = crashes /\ Lost' \subseteq Lost
      BY <1>4, <2>2, LostOnlyByCrash
    <3>2. IsFiniteSet(Lost) /\ Cardinality(Lost) <= crashes
      BY <3>1 DEF LossBounded
    <3>3. IsFiniteSet(Lost') /\ Cardinality(Lost') <= Cardinality(Lost)
      BY <3>1, <3>2, FS_Subset
    <3>4. Cardinality(Lost) \in Nat /\ Cardinality(Lost') \in Nat
      BY <3>2, <3>3, FS_CardinalityType
    <3> QED
      BY <1>3, <3>1, <3>2, <3>3, <3>4
  <2> QED
    BY <2>1, <2>2
<1> QED
  BY <1>1, <1>2, <1>4 DEF LossBounded

(* Signals, joins, restarts, re-queueing and workers that come and go lose *)
(* no accepted task; each kill of the process loses one at most.           *)
THEOREM LosesAtMostOnePerCrash == Spec => []BoundedLoss
<1>1. IInv /\ LossBounded /\ [Next]_vars => IInv' /\ LossBounded'
  BY NextInvariant, NextLoss
<1>2. Init => IInv /\ LossBounded
  BY InitTyped, InitPlaces, InitLoss DEF IInv
<1>3. LossBounded => BoundedLoss
  BY DEF LossBounded, BoundedLoss
<1> QED
  BY <1>1, <1>2, <1>3, PTL DEF Spec

-----------------------------------------------------------------------------
(* The counters worker:load:<id>.                                          *)

(* The invariant behind LoadAccounting.                                    *)
LoadBounded ==
    /\ proc = "down" => dpc = "stopped"
    /\ \A w \in Worker : IsFiniteSet(Owned(w))
    /\ LoadAccounting

LEMMA InitLoad == Init => LoadBounded
<1> SUFFICES ASSUME Init PROVE LoadBounded
  OBVIOUS
<1>1. \A w \in Worker : Owned(w) = {}
  BY NamesAssumption DEF Init, Owned
<1>2. IsFiniteSet({}) /\ Cardinality({}) = 0
  BY FS_EmptySet
<1>3. \A w \in Worker : Counting(w) = 0 /\ LoadOf(w) = 0
  BY DEF Init, Counting, LoadOf
<1>4. crashes = 0 /\ breaks = 0 /\ proc = "up"
  BY DEF Init
<1>5. LoadAccounting
  BY <1>1, <1>2, <1>3, <1>4 DEF LoadAccounting
<1> QED
  BY <1>1, <1>2, <1>4, <1>5 DEF LoadBounded

\* What LoadAccounting relates is numbers.
LEMMA CountsAreNumbers ==
    ASSUME Typed, NEW w \in Worker, IsFiniteSet(Owned(w))
    PROVE  Cardinality(Owned(w)) \in Nat /\ LoadOf(w) \in Nat /\ Counting(w) \in 0..1
<1>1. Cardinality(Owned(w)) \in Nat
  BY FS_CardinalityType
<1>2. LoadOf(w) \in Nat
  BY NamesAssumption DEF LoadOf, Typed, TypeOK, RedisTypeOK
<1> QED
  BY <1>1, <1>2 DEF Counting

\* A step that hands nobody a task and counts none.
LEMMA LoadStays ==
    ASSUME IInv, LoadBounded, Typed', (proc = "down" => dpc = "stopped")',
           worker_id' = worker_id, load' = load,
           \A w \in Worker : Counting(w)' = Counting(w),
           UNCHANGED <<crashes, breaks>>
    PROVE  LoadBounded'
<1>1. \A w \in Worker : Owned(w)' = Owned(w) /\ LoadOf(w)' = LoadOf(w)
  BY DEF Owned, LoadOf
<1>2. crashes \in Nat /\ breaks \in Nat
  BY DEF IInv, Typed, TypeOK, ProcessTypeOK
<1>3. \A w \in Worker : IsFiniteSet(Owned(w)')
  BY <1>1 DEF LoadBounded
<1>4. LoadAccounting'
  <2> SUFFICES ASSUME NEW w \in Worker
               PROVE  LET owned == Cardinality(Owned(w)') - Counting(w)'
                      IN  /\ LoadOf(w)' <= owned
                          /\ owned - LoadOf(w)' <= crashes' + breaks'
    BY DEF LoadAccounting
  <2>1. /\ Cardinality(Owned(w)) \in Nat /\ LoadOf(w) \in Nat /\ Counting(w) \in 0..1
    BY CountsAreNumbers DEF LoadBounded, IInv
  <2>2. /\ LoadOf(w) <= Cardinality(Owned(w)) - Counting(w)
        /\ (Cardinality(Owned(w)) - Counting(w)) - LoadOf(w) <= crashes + breaks
    BY DEF LoadBounded, LoadAccounting
  <2>3. /\ Cardinality(Owned(w)') = Cardinality(Owned(w))
        /\ LoadOf(w)' = LoadOf(w) /\ Counting(w)' = Counting(w)
    BY <1>1
  <2> QED
    BY <1>2, <2>1, <2>2, <2>3
<1> QED
  BY <1>3, <1>4 DEF LoadBounded

\* The HSET of worker_id hands dtask to dworker, who is then owed one INCR.
LEMMA LoadAssignWorker ==
    ASSUME IInv, LoadBounded, Typed', AssignWorker, conn = "live"
    PROVE  LoadBounded'
<1> USE DEF IInv
<1>1. /\ dtask \in Task /\ dworker \in Worker /\ worker_id[dtask] = None
      /\ dpc = "setWorker" /\ dpc' = "incr" /\ load' = load /\ conn' = "live"
      /\ dworker' = dworker /\ UNCHANGED <<crashes, breaks, proc>>
  BY DEF AssignWorker, Typed, LocalsSet, Places, faultVars
<1>2. \A t \in Task : worker_id'[t] = IF t = dtask THEN dworker ELSE worker_id[t]
  BY <1>1 DEF AssignWorker, Typed, TypeOK, RedisTypeOK
<1>3. \A w \in Worker : Owned(w)' = IF w = dworker THEN Owned(w) \cup {dtask} ELSE Owned(w)
  BY <1>1, <1>2, NamesAssumption DEF Owned
<1>4. dtask \notin Owned(dworker)
  BY <1>1, NamesAssumption DEF Owned
<1>5. \A w \in Worker : LoadOf(w)' = LoadOf(w) /\ Counting(w) = 0
  BY <1>1 DEF LoadOf, Counting
<1>6. \A w \in Worker : Counting(w)' = IF w = dworker THEN 1 ELSE 0
  BY <1>1 DEF Counting
<1>7. /\ IsFiniteSet(Owned(dworker) \cup {dtask})
      /\ Cardinality(Owned(dworker) \cup {dtask}) = Cardinality(Owned(dworker)) + 1
  <2>1. IsFiniteSet(Owned(dworker))
    BY <1>1 DEF LoadBounded
  <2> QED
    BY <1>4, <2>1, FS_AddElement
<1>8. \A w \in Worker : IsFiniteSet(Owned(w)')
  BY <1>3, <1>7 DEF LoadBounded
<1>9. LoadAccounting'
  <2> SUFFICES ASSUME NEW w \in Worker
               PROVE  LET owned == Cardinality(Owned(w)') - Counting(w)'
                      IN  /\ LoadOf(w)' <= owned
                          /\ owned - LoadOf(w)' <= crashes' + breaks'
    BY DEF LoadAccounting
  <2>1. /\ Cardinality(Owned(w)) \in Nat /\ LoadOf(w) \in Nat
    BY CountsAreNumbers DEF LoadBounded
  <2>2. /\ LoadOf(w) <= Cardinality(Owned(w)) - Counting(w)
        /\ (Cardinality(Owned(w)) - Counting(w)) - LoadOf(w) <= crashes + breaks
    BY DEF LoadBounded, LoadAccounting
  <2>3. Cardinality(Owned(w)') = Cardinality(Owned(w)) + Counting(w)'
    BY <1>3, <1>6, <1>7, <2>1
  <2>4. Counting(w) = 0 /\ Counting(w)' \in 0..1 /\ LoadOf(w)' = LoadOf(w)
    BY <1>5, <1>6
  <2> QED
    BY <1>1, <2>1, <2>2, <2>3, <2>4
<1>10. proc' # "down"
  BY <1>1 DEF LoadBounded
<1> QED
  BY <1>8, <1>9, <1>10 DEF LoadBounded

\* The INCR, or what stands for it once the connection has failed.
LEMMA LoadIncr ==
    ASSUME IInv, LoadBounded, Typed', IncrLoad
    PROVE  LoadBounded'
<1> USE DEF IInv
<1>1. /\ dworker \in Worker /\ worker_id' = worker_id
      /\ dpc = "incr" /\ dpc' = "readLoad" /\ UNCHANGED <<crashes, breaks, proc>>
  BY DEF IncrLoad, Typed, LocalsSet, faultVars
<1>2. \A w \in Worker : Owned(w)' = Owned(w) /\ Counting(w)' = 0
  BY <1>1 DEF Owned, Counting
<1>3. \A w \in Worker : LoadOf(w) \in Nat
  BY CountsAreNumbers DEF LoadBounded
<1>4. \A w \in Worker : LoadOf(w)' = LoadOf(w) + Counting(w)
  <2>1. CASE conn = "live"
    <3>1. \A w \in Worker : load'[w] = IF w = dworker THEN LoadOf(w) + 1 ELSE load[w]
      BY <1>1, <2>1 DEF IncrLoad, Typed, TypeOK, RedisTypeOK
    <3> QED
      BY <1>1, <1>3, <2>1, <3>1, NamesAssumption DEF LoadOf, Counting
  <2>2. CASE conn # "live"
    <3>1. load' = load
      BY <2>2 DEF IncrLoad
    <3> QED
      BY <1>3, <2>2, <3>1 DEF LoadOf, Counting
  <2> QED
    BY <2>1, <2>2
<1>5. \A w \in Worker : IsFiniteSet(Owned(w)')
  BY <1>2 DEF LoadBounded
<1>6. LoadAccounting'
  <2> SUFFICES ASSUME NEW w \in Worker
               PROVE  LET owned == Cardinality(Owned(w)') - Counting(w)'
                      IN  /\ LoadOf(w)' <= owned
                          /\ owned - LoadOf(w)' <= crashes' + breaks'
    BY DEF LoadAccounting
  <2>1. Cardinality(Owned(w)) \in Nat /\ LoadOf(w) \in Nat /\ Counting(w) \in 0..1
    BY CountsAreNumbers DEF LoadBounded
  <2>2. /\ LoadOf(w) <= Cardinality(Owned(w)) - Counting(w)
        /\ (Cardinality(Owned(w)) - Counting(w)) - LoadOf(w) <= crashes + breaks
    BY DEF LoadBounded, LoadAccounting
  <2>3. crashes \in Nat /\ breaks \in Nat
    BY DEF Typed, TypeOK, ProcessTypeOK
  <2> QED
    BY <1>1, <1>2, <1>4, <2>1, <2>2, <2>3
<1>7. proc' # "down"
  BY <1>1 DEF LoadBounded
<1> QED
  BY <1>5, <1>6, <1>7 DEF LoadBounded

\* A fault may leave one task uncounted for good, the one being handed over.
LEMMA LoadFault ==
    ASSUME IInv, LoadBounded, Typed', (proc = "down" => dpc = "stopped")', Fault
    PROVE  LoadBounded'
<1> USE DEF IInv
<1>1. worker_id' = worker_id /\ load' = load
  BY DEF Fault, Crash, BreakSave, BreakPush, BreakLpop, BreakLoop, redisVars
<1>2. crashes \in Nat /\ breaks \in Nat
  BY DEF Typed, TypeOK, ProcessTypeOK
<1>3. crashes' + breaks' = crashes + breaks + 1
  BY <1>2 DEF Fault, Crash, BreakSave, BreakPush, BreakLpop, BreakLoop, Break
<1>4. \A w \in Worker : Counting(w)' \in {0, Counting(w)}
  BY DEF Fault, Crash, BreakSave, BreakPush, BreakLpop, BreakLoop, Counting, loopVars,
         LoopReset
<1>5. \A w \in Worker : Owned(w)' = Owned(w) /\ LoadOf(w)' = LoadOf(w)
  BY <1>1 DEF Owned, LoadOf
<1>6. \A w \in Worker : IsFiniteSet(Owned(w)')
  BY <1>5 DEF LoadBounded
<1>7. LoadAccounting'
  <2> SUFFICES ASSUME NEW w \in Worker
               PROVE  LET owned == Cardinality(Owned(w)') - Counting(w)'
                      IN  /\ LoadOf(w)' <= owned
                          /\ owned - LoadOf(w)' <= crashes' + breaks'
    BY DEF LoadAccounting
  <2>1. Cardinality(Owned(w)) \in Nat /\ LoadOf(w) \in Nat /\ Counting(w) \in 0..1
    BY CountsAreNumbers DEF LoadBounded
  <2>2. /\ LoadOf(w) <= Cardinality(Owned(w)) - Counting(w)
        /\ (Cardinality(Owned(w)) - Counting(w)) - LoadOf(w) <= crashes + breaks
    BY DEF LoadBounded, LoadAccounting
  <2>3. Counting(w)' = 0 \/ Counting(w)' = Counting(w)
    BY <1>4
  <2> QED
    BY <1>2, <1>3, <1>5, <2>1, <2>2, <2>3
<1> QED
  BY <1>6, <1>7 DEF LoadBounded

LEMMA NextLoad == IInv /\ LoadBounded /\ [Next]_vars => LoadBounded'
<1> SUFFICES ASSUME IInv, LoadBounded, [Next]_vars PROVE LoadBounded'
  OBVIOUS
<1> USE DEF IInv
<1>1. Typed'
  BY NextTyped
<1>2. (proc = "down" => dpc = "stopped")'
  BY DownIsStopped DEF LoadBounded
<1>3. CASE \E t \in Task : Submit(t)
  <2>1. /\ worker_id' = worker_id /\ load' = load
        /\ UNCHANGED <<dpc, conn, dworker, crashes, breaks>>
    BY <1>3 DEF Submit, SubmitSave, SubmitRefused, SubmitPush, redisVars, loopVars,
                faultVars
  <2> QED
    BY <1>1, <1>2, <2>1, LoadStays DEF Counting
<1>4. CASE Dispatch
  <2>1. CASE \/ LoopTop \/ (\E c \in Classes : Lpop(c)) \/ Select \/ Requeue
             \/ AssignStatus \/ ReadLoad \/ CacheLoad
    <3>1. /\ worker_id' = worker_id /\ load' = load /\ dpc # "incr" /\ dpc' # "incr"
          /\ UNCHANGED <<crashes, breaks>>
      BY <2>1 DEF LoopTop, Lpop, Select, Requeue, AssignStatus, ReadLoad, CacheLoad,
                  redisVars, faultVars, Classes, NextClass
    <3>2. \A w \in Worker : Counting(w)' = Counting(w)
      BY <3>1 DEF Counting
    <3> QED
      BY <1>1, <1>2, <3>1, <3>2, LoadStays
  <2>2. CASE AssignWorker /\ conn # "live"
    <3>1. /\ worker_id' = worker_id /\ load' = load /\ dpc = "setWorker"
          /\ conn' # "live" /\ UNCHANGED <<crashes, breaks>>
      BY <2>2 DEF AssignWorker, faultVars, Typed, TypeOK, RedisTypeOK
    <3>2. \A w \in Worker : Counting(w)' = Counting(w)
      BY <3>1 DEF Counting
    <3> QED
      BY <1>1, <1>2, <3>1, <3>2, LoadStays
  <2> QED
    BY <1>1, <1>4, <2>1, <2>2, LoadAssignWorker, LoadIncr DEF Dispatch
<1>5. CASE Environment
  <2>1. worker_id' = worker_id /\ load' = load /\ UNCHANGED <<crashes, breaks>>
    BY <1>5 DEF Environment, UpdateWorkers, MarkWorkerDead, Signal, Shutdown, Start,
                redisVars, faultVars
  <2>2. \A w \in Worker : Counting(w)' = Counting(w)
    BY <1>5 DEF Environment, UpdateWorkers, MarkWorkerDead, Signal, Shutdown, Start,
                loopVars, Counting, LoadBounded
  <2> QED
    BY <1>1, <1>2, <2>1, <2>2, LoadStays
<1>6. CASE Fault
  BY <1>1, <1>2, <1>6, LoadFault
<1>7. CASE UNCHANGED vars
  <2>1. /\ worker_id' = worker_id /\ load' = load
        /\ UNCHANGED <<dpc, conn, dworker, crashes, breaks>>
    BY <1>7 DEF vars, redisVars, loopVars, faultVars
  <2> QED
    BY <1>1, <1>2, <2>1, LoadStays DEF Counting
<1> QED
  BY <1>3, <1>4, <1>5, <1>6, <1>7 DEF Next

(* assignTaskToWorker counts each task it hands over once: the counter of  *)
(* a worker never exceeds its tasks, and falls short by a fault each.      *)
THEOREM CountsHandedOver == Spec => []LoadAccounting
<1>1. IInv /\ LoadBounded /\ [Next]_vars => IInv' /\ LoadBounded'
  BY NextInvariant, NextLoad
<1>2. Init => IInv /\ LoadBounded
  BY InitTyped, InitPlaces, InitLoad DEF IInv
<1>3. LoadBounded => LoadAccounting
  BY DEF LoadBounded
<1> QED
  BY <1>1, <1>2, <1>3, PTL DEF Spec

-----------------------------------------------------------------------------
(* The refinement.                                                         *)

LEMMA InitLifecycle == Init => Lifecycle!Init
BY DEF Init, Lifecycle!Init

LEMMA StepLifecycle == IInv /\ [Next]_vars => [Lifecycle!Next]_(Lifecycle!vars)
<1> SUFFICES ASSUME IInv, [Next]_vars
             PROVE  [Lifecycle!Next]_(Lifecycle!vars)
  OBVIOUS
<1> USE DEF IInv, Lifecycle!vars
<1>1. ASSUME NEW t \in Task, NEW p \in Priorities, SubmitSave(t, p) \/ BreakSave(t, p)
      PROVE  Lifecycle!Create(t)
  <2>1. /\ sub[t] = "none" /\ status' = [status EXCEPT ![t] = "pending"]
        /\ worker_id' = worker_id
    BY <1>1 DEF SubmitSave, BreakSave
  <2> QED
    BY <2>1 DEF Places, Lifecycle!Create
<1>2. ASSUME AssignStatus
      PROVE  UNCHANGED <<status, worker_id>> \/ Lifecycle!Begin(dtask)
  <2>1. dtask \in Task /\ status[dtask] = "pending" /\ worker_id' = worker_id
    BY <1>2 DEF AssignStatus, Places, Holding, Unassigned, Typed, LocalsSet
  <2>2. CASE conn = "live"
    BY <1>2, <2>1, <2>2 DEF AssignStatus, Lifecycle!Begin
  <2>3. CASE conn # "live"
    BY <1>2, <2>1, <2>3 DEF AssignStatus, Typed, TypeOK, RedisTypeOK
  <2> QED
    BY <2>2, <2>3
<1>3. ASSUME AssignWorker
      PROVE  UNCHANGED <<status, worker_id>> \/ Lifecycle!Own(dtask, dworker)
  <2>1. dtask \in Task /\ worker_id[dtask] = None /\ status' = status
    BY <1>3 DEF AssignWorker, Places, Typed, LocalsSet
  <2>2. CASE conn = "live"
    BY <1>3, <2>1, <2>2 DEF AssignWorker, Places, Lifecycle!Own
  <2>3. CASE conn # "live"
    BY <1>3, <2>1, <2>3 DEF AssignWorker, Typed, TypeOK, RedisTypeOK
  <2> QED
    BY <2>2, <2>3
<1>4. CASE \E t \in Task : Submit(t)
  <2>1. PICK t \in Task : Submit(t)
    BY <1>4
  <2>2. CASE SubmitRefused(t) \/ SubmitPush(t)
    BY <2>2 DEF SubmitRefused, SubmitPush, redisVars
  <2> QED
    BY <1>1, <2>1, <2>2 DEF Submit, Lifecycle!Next
<1>5. CASE Dispatch
  <2>1. CASE \/ LoopTop \/ (\E c \in Classes : Lpop(c)) \/ Select \/ Requeue
             \/ IncrLoad \/ ReadLoad \/ CacheLoad
    BY <2>1 DEF LoopTop, Lpop, Select, Requeue, IncrLoad, ReadLoad, CacheLoad, redisVars
  <2>2. AssignStatus => dtask \in Task
    BY DEF AssignStatus, Typed, LocalsSet
  <2>3. AssignWorker => dtask \in Task /\ dworker \in Worker
    BY DEF AssignWorker, Typed, LocalsSet
  <2> QED
    BY <1>2, <1>3, <1>5, <2>1, <2>2, <2>3 DEF Dispatch, Lifecycle!Next
<1>6. CASE Environment
  BY <1>6 DEF Environment, UpdateWorkers, MarkWorkerDead, Signal, Shutdown, Start,
              redisVars
<1>7. CASE Fault
  <2>1. CASE \/ Crash \/ BreakLoop \/ \E c \in Classes : BreakLpop(c)
             \/ \E t \in Task, executed \in BOOLEAN : BreakPush(t, executed)
    BY <2>1 DEF Crash, BreakLoop, BreakLpop, BreakPush, redisVars
  <2> QED
    BY <1>1, <1>7, <2>1 DEF Fault, Lifecycle!Next
<1>8. CASE UNCHANGED vars
  BY <1>8 DEF vars, redisVars
<1> QED
  BY <1>4, <1>5, <1>6, <1>7, <1>8 DEF Next

(* Every record is created once, started once and owned by one worker for  *)
(* good: the deployed scheduler implements TaskLifecycle.                  *)
THEOREM RefinesLifecycle == Spec => ImplementsLifecycle
<1> QED
  BY InitLifecycle, StepLifecycle, Invariance, PTL
     DEF Spec, ImplementsLifecycle, Lifecycle!Spec
=============================================================================
