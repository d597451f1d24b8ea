--------------------------- MODULE GatewayProofs ---------------------------
(***************************************************************************)
(* For all sets of clients, connections, tasks and workers and any number  *)
(* of faults: behind the gateway the scheduler takes only the steps of     *)
(* TaskDispatcher, so that what is proved there holds; the gateway keeps   *)
(* its types; a client is told of its task what the record said; and a     *)
(* client that posts again has no more tasks than one and one per fault.   *)
(***************************************************************************)
EXTENDS Gateway, TaskDispatcherProofs

(* A task whose submission was confirmed has a record, and the pool has no *)
(* dead connection before one has failed.                                  *)
Recorded ==
    /\ \A t \in Task : sub[t] = "accepted" => status[t] # "absent"
    /\ breaks = 0 => "dead" \notin pool

(* What a status says of a task is so, given the statuses of the records:  *)
(* running was, and so still is.                                           *)
Says(told, t, st) == told \in {"pending", "running"} /\ (told = "running" => st[t] = "running")

(* A request or response of a connection, given the records and the number *)
(* of failed connections: ids that were told have records, and so have     *)
(* those that are asked for.                                               *)
Sound(r, st, b) ==
    /\ r.op = "status" => r.id \in Task \cup {NoSuch}
    /\ r.op = "submit" => r.id \in Task \cup {None}
    /\ r.op \notin {"status", "submit"} => r.id = None
    /\ r.op = "status" /\ r.id \in Task => st[r.id] # "absent"
    /\ r.op = "submit" /\ r.code = 200 => r.id \in Task /\ st[r.id] # "absent"
    /\ b = 0 /\ r.op = "status" /\ r.code = 200 /\ r.id \in Task => Says(r.told, r.id, st)

Honest(o, st, b) ==
    /\ o.id \in Task => st[o.id] # "absent"
    /\ b = 0 /\ o.seen # "nothing" => Says(o.seen, o.id, st)

\* The typing of a connection and of an order, as in GTypeOK.
ConnOK(r) == r \in ConnType /\ (r.pc = "free" <=> r.by = None)
OrderOK(o) ==
    /\ o \in [id : Task \cup {None}, seen : Statuses \cup {"nothing"}]
    /\ o.seen # "nothing" => o.id # None

NetInv == net \in [Conn -> ConnType] /\ \A k \in Conn : ConnOK(net[k]) /\ Sound(net[k], status, breaks)
OrderInv ==
    /\ order \in [Client -> [id : Task \cup {None}, seen : Statuses \cup {"nothing"}]]
    /\ \A c \in Client : OrderOK(order[c]) /\ Honest(order[c], status, breaks)

RestOK ==
    /\ gw \in {"up", "down"} /\ cut \subseteq Conn
    /\ made \in [Task -> Client \cup {None}]
    /\ upsets \in 0..MaxFaults

-----------------------------------------------------------------------------
(* The scheduler behind the gateway.                                       *)

LEMMA NextIdIsTask == Fresh # {} => NextId \in Task
  BY DEF Fresh, NextId

LEMMA SubmittingSteps == ASSUME NEW k \in Conn, Submitting(k) PROVE Next
<1>1. NextId \in Task
  BY NextIdIsTask DEF Submitting
<1>2. CASE \E p \in Priorities : SubmitSave(NextId, p)
  BY <1>1, <1>2 DEF Next, Submit
<1>3. CASE \E p \in Priorities : BreakSave(NextId, p)
  BY <1>1, <1>3 DEF Next, Fault
<1>4. CASE SubmitRefused(NextId)
  BY <1>1, <1>4 DEF Next, Submit
<1> QED
  BY <1>2, <1>3, <1>4 DEF Submitting, Spare

\* What the gateway and its clients do without the scheduler.
LEMMA AsideSteps ==
    ASSUME NEW k \in Conn,
           \/ Read(k) \/ SubmitReplies(k) \/ StatusReplies(k) \/ WorkersReplies(k)
           \/ NoNextId(k) \/ CallFails(k) \/ Write(k) \/ HangUp(k) \/ ChannelBreaks(k)
    PROVE  UNCHANGED vars
  BY DEF Read, SubmitReplies, StatusReplies, WorkersReplies, NoNextId, CallFails, Write, HangUp,
         ChannelBreaks

LEMMA StepOfScheduler == [GNext]_allVars => [Next]_vars
<1> SUFFICES ASSUME [GNext]_allVars PROVE [Next]_vars
  OBVIOUS
<1>1. ASSUME NEW c \in Client, NEW k \in Conn, Insist(c, k) \/ Visit(c, k) PROVE UNCHANGED vars
  BY <1>1 DEF Insist, Visit, Open
<1>2. ASSUME NEW k \in Conn, Serve(k) \/ HangUp(k) \/ ChannelBreaks(k) PROVE [Next]_vars
  BY <1>2, SubmittingSteps, AsideSteps DEF Serve
<1>3. GatewayExit \/ GatewayStart => UNCHANGED vars
  BY DEF GatewayExit, GatewayStart
<1>4. SchedulerStep => Next
  BY DEF SchedulerStep, Next, Submit, Fault, Spare
<1>5. SchedulerCrash => Next
  BY DEF SchedulerCrash, Next, Fault, Spare
<1>6. UNCHANGED allVars => UNCHANGED vars
  BY DEF allVars
<1> QED
  BY <1>1, <1>2, <1>3, <1>4, <1>5, <1>6 DEF GNext

(* Whatever clients and gateway do, the scheduler behind them behaves as   *)
(* module TaskDispatcher says.                                             *)
THEOREM GatewayUsesScheduler == GSpec => Spec
<1>1. GInit => Init
  BY DEF GInit
<1> QED
  BY <1>1, StepOfScheduler, PTL DEF GSpec, Spec

-----------------------------------------------------------------------------
(* What a step of the scheduler does to what was told.                     *)

\* Records are not deleted and a running task stays so; failures are counted.
Forward ==
    /\ \A t \in Task : /\ status[t] # "absent" => status'[t] # "absent"
                       /\ status[t] = "running" => status'[t] = "running"
    /\ breaks' = 0 => breaks = 0

LEMMA BreaksCount == TypeOK /\ [Next]_vars => breaks' = breaks \/ breaks' = breaks + 1
<1> SUFFICES ASSUME TypeOK, [Next]_vars PROVE breaks' = breaks \/ breaks' = breaks + 1
  OBVIOUS
<1>1. ASSUME NEW t \in Task, Submit(t) PROVE breaks' = breaks
  BY <1>1 DEF Submit, SubmitSave, SubmitRefused, SubmitPush, faultVars
<1>2. CASE Dispatch
  BY <1>2 DEF Dispatch, LoopTop, Lpop, Select, Requeue, AssignStatus, AssignWorker,
              IncrLoad, ReadLoad, CacheLoad, faultVars
<1>3. CASE Environment
  BY <1>3 DEF Environment, UpdateWorkers, MarkWorkerDead, Signal, Shutdown, Start, faultVars
<1>4. CASE Fault
  BY <1>4 DEF Fault, Crash, BreakSave, BreakPush, BreakLpop, BreakLoop, Break
<1>5. CASE UNCHANGED vars
  BY <1>5 DEF vars, faultVars
<1> QED
  BY <1>1, <1>2, <1>3, <1>4, <1>5 DEF Next

LEMMA StatusForward ==
    ASSUME IInv, [Next]_vars, NEW t \in Task
    PROVE  /\ status[t] # "absent" => status'[t] # "absent"
           /\ status[t] = "running" => status'[t] = "running"
<1>1. status \in [Task -> {"absent", "pending", "running"}]
  BY DEF IInv, Typed, TypeOK, RedisTypeOK
<1>2. ASSUME NEW u \in Task, Lifecycle!Create(u) \/ Lifecycle!Begin(u)
      PROVE  /\ status[t] # "absent" => status'[t] # "absent"
             /\ status[t] = "running" => status'[t] = "running"
  BY <1>1, <1>2 DEF Lifecycle!Create, Lifecycle!Begin
<1>3. ASSUME NEW u \in Task, NEW w \in Worker, Lifecycle!Own(u, w) PROVE status' = status
  BY <1>3 DEF Lifecycle!Own
<1>4. UNCHANGED Lifecycle!vars => status' = status
  BY DEF Lifecycle!vars
<1> QED
  BY <1>2, <1>3, <1>4, StepLifecycle DEF Lifecycle!Next

LEMMA GoesForward == IInv /\ [Next]_vars => Forward
<1> SUFFICES ASSUME IInv, [Next]_vars PROVE Forward
  OBVIOUS
<1>1. breaks \in Nat /\ (breaks' = breaks \/ breaks' = breaks + 1)
  BY BreaksCount, FaultsAssumption DEF IInv, Typed, TypeOK, ProcessTypeOK
<1> QED
  BY <1>1, StatusForward DEF Forward

LEMMA RecordedNext == IInv /\ Recorded /\ [Next]_vars => Recorded'
<1> SUFFICES ASSUME IInv, Recorded, [Next]_vars PROVE Recorded'
  OBVIOUS
<1> DEFINE Acc == \A t \in Task : sub'[t] = "accepted" => sub[t] = "accepted" \/ status[t] # "absent"
           Clean == pool' = pool \/ pool' = {"live"}
<1>1. breaks \in Nat /\ sub \in [Task -> {"none", "saved", "accepted", "rejected", "aborted"}]
  BY FaultsAssumption DEF IInv, Typed, TypeOK, ProcessTypeOK
<1>2. ASSUME NEW t \in Task, Submit(t) PROVE Acc /\ Clean
  BY <1>1, <1>2 DEF Submit, SubmitSave, SubmitRefused, SubmitPush, faultVars, IInv, Places, Unassigned
<1>3. ASSUME Dispatch PROVE Acc /\ Clean
  <2>1. sub' = sub /\ pool' = pool
    BY <1>3 DEF Dispatch, LoopTop, Lpop, Select, Requeue, AssignStatus, AssignWorker,
                IncrLoad, ReadLoad, CacheLoad, faultVars
  <2> QED
    BY <2>1
<1>4. ASSUME Environment PROVE Acc /\ Clean
  BY <1>4 DEF Environment, UpdateWorkers, MarkWorkerDead, Signal, Shutdown, Start,
              ProcessGone, faultVars
<1>5. ASSUME Crash PROVE Acc /\ Clean
  BY <1>1, <1>5 DEF Crash, ProcessGone
<1>6. ASSUME Break PROVE breaks' # 0
  BY <1>1, <1>6 DEF Break
<1>7. ASSUME NEW t \in Task, NEW p \in Priorities, BreakSave(t, p) PROVE Acc /\ breaks' # 0
  BY <1>1, <1>6, <1>7 DEF BreakSave
<1>8. ASSUME NEW t \in Task, NEW executed \in BOOLEAN, BreakPush(t, executed)
      PROVE  Acc /\ breaks' # 0
  BY <1>1, <1>6, <1>8 DEF BreakPush
<1>9. ASSUME BreakLoop \/ \E c \in Classes : BreakLpop(c) PROVE Acc /\ breaks' # 0
  BY <1>1, <1>6, <1>9 DEF BreakLoop, BreakLpop
<1>10. ASSUME UNCHANGED vars PROVE Acc /\ Clean
  BY <1>10 DEF vars, faultVars
<1>11. Acc /\ (Clean \/ breaks' # 0)
  BY <1>2, <1>3, <1>4, <1>5, <1>7, <1>8, <1>9, <1>10 DEF Next, Fault
<1>12. Forward
  BY GoesForward
<1>13. ASSUME NEW t \in Task, sub'[t] = "accepted" PROVE status'[t] # "absent"
  <2>1. status[t] # "absent"
    BY <1>11, <1>13 DEF Recorded
  <2> QED
    BY <2>1, <1>12 DEF Forward
<1>14. ASSUME breaks' = 0 PROVE "dead" \notin pool'
  <2>1. Clean /\ breaks = 0
    BY <1>11, <1>12, <1>14 DEF Forward
  <2> QED
    BY <2>1 DEF Recorded
<1> QED
  BY <1>13, <1>14 DEF Recorded

(* What the gateway submits is subject to all that is proved of the        *)
(* scheduler: a task is at one place, crashes lose no more than one each,  *)
(* pops look at the urgent lists first, and the counters of the workers    *)
(* follow the records.                                                     *)
THEOREM SafetyBehindGateway ==
    GSpec => [](AtOnePlace /\ BoundedLoss /\ PopsHighestFirst /\ LoadAccounting)
  BY GatewayUsesScheduler, OnePlace, LosesAtMostOnePerCrash, TakesMostUrgent,
     CountsHandedOver, PTL

(* The records the gateway's clients ask for go through TaskLifecycle.     *)
THEOREM LifecycleBehindGateway == GSpec => ImplementsLifecycle
  BY GatewayUsesScheduler, RefinesLifecycle, PTL

-----------------------------------------------------------------------------
(* The requests and responses a step can leave on a connection.            *)

Good(r, st, b) == ConnOK(r) /\ Sound(r, st, b)

USE ClientsAssumption, AltogetherAssumption
    DEF ClientsAssumption, AltogetherAssumption

PCs == {"free", "reading", "call", "writing"}
Codes == {0, 200, 400, 404, 500, 503}

\* Fields of a connection are written with values of their types.
LEMMA FieldsOfConn ==
    ConnType = [pc : PCs, by : Client \cup {None}, left : BOOLEAN, op : Requests,
                id : Task \cup {None, NoSuch}, code : Codes, told : Statuses \cup {"nothing"}]
  BY DEF ConnType, PCs, Codes

LEMMA WithPc == ASSUME NEW r \in ConnType, NEW pc \in PCs PROVE [r EXCEPT !.pc = pc] \in ConnType
  BY FieldsOfConn, Zenon

LEMMA WithId ==
    ASSUME NEW r \in ConnType, NEW id \in Task PROVE [r EXCEPT !.id = id] \in ConnType
  BY FieldsOfConn, Zenon

LEMMA WithLeft == ASSUME NEW r \in ConnType PROVE [r EXCEPT !.left = TRUE] \in ConnType
  BY FieldsOfConn, Zenon

LEMMA WithResponse ==
    ASSUME NEW r \in ConnType, NEW pc \in PCs, NEW code \in Codes,
           NEW told \in Statuses \cup {"nothing"}
    PROVE  [r EXCEPT !.pc = pc, !.code = code, !.told = told] \in ConnType
  BY FieldsOfConn, Zenon

LEMMA WithRequest ==
    ASSUME NEW r \in ConnType, NEW pc \in PCs, NEW by_ \in Client \cup {None},
           NEW op \in Requests, NEW id \in Task \cup {None, NoSuch}
    PROVE  [r EXCEPT !.pc = pc, !.by = by_, !.op = op, !.id = id] \in ConnType
  BY FieldsOfConn, Zenon

LEMMA IdleGood == ASSUME NEW st, NEW b PROVE Good(Idle, st, b)
<1>1. Idle \in ConnType
  BY DEF Idle, ConnType, Requests, Local, Statuses
<1>2. Idle.pc = "free" /\ Idle.by = None /\ Idle.op = "fixed" /\ Idle.id = None
  BY DEF Idle
<1> QED
  BY <1>1, <1>2 DEF Good, ConnOK, Sound

\* A request that has been read or is still to be read.
LEMMA OpenedGood ==
    ASSUME NEW st, NEW b, NEW c \in Client, NEW op \in Requests,
           NEW id \in Task \cup {None, NoSuch},
           op = "status" => id # None /\ (id \in Task => st[id] # "absent"),
           op # "status" => id = None
    PROVE  Good([Idle EXCEPT !.pc = "reading", !.by = c, !.op = op, !.id = id], st, b)
<1> DEFINE s == [Idle EXCEPT !.pc = "reading", !.by = c, !.op = op, !.id = id]
<1>1. Idle \in ConnType /\ Idle.code = 0
  BY IdleGood DEF Good, ConnOK, Idle
<1>2. s \in ConnType
  <2>1. "reading" \in PCs /\ c \in Client \cup {None}
    BY DEF PCs
  <2> QED
    BY <1>1, <2>1, WithRequest
<1>3. s.pc = "reading" /\ s.by = c /\ s.op = op /\ s.id = id /\ s.code = 0
  BY <1>1 DEF ConnType
<1> HIDE DEF s
<1>4. ConnOK(s)
  BY <1>2, <1>3 DEF ConnOK
<1>5. Sound(s, st, b)
  BY <1>3 DEF Sound
<1>6. Good(s, st, b)
  BY <1>4, <1>5 DEF Good
<1> QED
  BY <1>6 DEF s

LEMMA CallingGood ==
    ASSUME NEW r, NEW st, NEW b, Good(r, st, b), r.pc = "reading"
    PROVE  Good([r EXCEPT !.pc = "call"], st, b)
<1> DEFINE s == [r EXCEPT !.pc = "call"]
<1>1. r \in ConnType
  BY DEF Good, ConnOK
<1>0. s \in ConnType
  <2>1. "call" \in PCs
    BY DEF PCs
  <2> QED
    BY <1>1, <2>1, WithPc
<1>2. /\ s.pc = "call" /\ s.by = r.by /\ s.op = r.op /\ s.id = r.id
      /\ s.code = r.code /\ s.told = r.told
  BY <1>1 DEF ConnType
<1> HIDE DEF s
<1>3. ConnOK(s)
  BY <1>0, <1>2 DEF Good, ConnOK
<1>4. Sound(s, st, b)
  BY <1>2 DEF Good, Sound
<1>5. Good(s, st, b)
  BY <1>3, <1>4 DEF Good
<1> QED
  BY <1>5 DEF s

\* A response with a code and perhaps a status.
LEMMA RespondedGood ==
    ASSUME NEW r, NEW st, NEW b, Good(r, st, b), r.pc # "free",
           NEW code \in Codes, NEW told \in Statuses \cup {"nothing"},
           r.op = "submit" /\ code = 200 => r.id \in Task /\ st[r.id] # "absent",
           b = 0 /\ r.op = "status" /\ code = 200 /\ r.id \in Task => Says(told, r.id, st)
    PROVE  Good([r EXCEPT !.pc = "writing", !.code = code, !.told = told], st, b)
<1> DEFINE s == [r EXCEPT !.pc = "writing", !.code = code, !.told = told]
<1>1. r \in ConnType
  BY DEF Good, ConnOK
<1>0. s \in ConnType
  <2>1. "writing" \in PCs
    BY DEF PCs
  <2>2. code \in Codes
    OBVIOUS
  <2>3. told \in Statuses \cup {"nothing"}
    OBVIOUS
  <2> QED
    BY ONLY <1>1, <2>1, <2>2, <2>3, WithResponse, Zenon
<1>2. /\ s.pc = "writing" /\ s.by = r.by /\ s.op = r.op /\ s.id = r.id
      /\ s.code = code /\ s.told = told
  BY <1>1 DEF ConnType
<1> HIDE DEF s
<1>3. ConnOK(s)
  BY <1>0, <1>2 DEF Good, ConnOK
<1>4. Sound(s, st, b)
  BY <1>2 DEF Good, Sound
<1>5. Good(s, st, b)
  BY <1>3, <1>4 DEF Good
<1> QED
  BY <1>5 DEF s

\* A submission that has its id.
LEMMA SubmittedGood ==
    ASSUME NEW r, NEW st, NEW b, Good(r, st, b), r.pc = "call", r.op = "submit", r.id = None,
           NEW t \in Task
    PROVE  Good([r EXCEPT !.id = t], st, b)
<1> DEFINE s == [r EXCEPT !.id = t]
<1>1. r \in ConnType /\ r.code # 200
  BY NamesAssumption DEF NamesAssumption, Good, ConnOK, Sound
<1>0. s \in ConnType
  BY <1>1, WithId
<1>2. /\ s.pc = r.pc /\ s.by = r.by /\ s.op = r.op /\ s.id = t
      /\ s.code = r.code
  BY <1>1 DEF ConnType
<1> HIDE DEF s
<1>3. ConnOK(s)
  BY <1>0, <1>2 DEF Good, ConnOK
<1>4. Sound(s, st, b)
  BY <1>1, <1>2 DEF Sound
<1>5. Good(s, st, b)
  BY <1>3, <1>4 DEF Good
<1> QED
  BY <1>5 DEF s

LEMMA AbandonedGood ==
    ASSUME NEW r, NEW st, NEW b, Good(r, st, b)
    PROVE  Good(Abandoned(r), st, b)
<1> DEFINE s == [r EXCEPT !.left = TRUE]
<1>1. r \in ConnType
  BY DEF Good, ConnOK
<1>0. s \in ConnType
  BY <1>1, WithLeft
<1>2. /\ s.pc = r.pc /\ s.by = r.by /\ s.op = r.op /\ s.id = r.id
      /\ s.code = r.code /\ s.told = r.told
  BY <1>1 DEF ConnType
<1> HIDE DEF s
<1>3. ConnOK(s)
  BY <1>0, <1>2 DEF Good, ConnOK
<1>4. Sound(s, st, b)
  BY <1>2 DEF Good, Sound
<1>5. Good(s, st, b)
  BY <1>3, <1>4 DEF Good
<1>6. Abandoned(r) = s \/ Abandoned(r) = Idle
  BY DEF Abandoned, s
<1> QED
  BY <1>5, <1>6, IdleGood

\* What was sound stays sound while the records go forward.
LEMMA GoodForward ==
    ASSUME Forward, NEW r, Good(r, status, breaks) PROVE Good(r, status', breaks')
<1>1. ConnOK(r)
  BY DEF Good
<1>2. Sound(r, status', breaks')
  BY DEF Good, Sound, Forward, Says
<1> QED
  BY <1>1, <1>2 DEF Good

LEMMA HonestForward ==
    ASSUME Forward, NEW o, OrderOK(o), Honest(o, status, breaks)
    PROVE  Honest(o, status', breaks')
<1>1. o.id \in Task \cup {None} /\ (o.seen # "nothing" => o.id # None)
  BY DEF OrderOK
<1> QED
  BY <1>1 DEF Honest, Forward, Says

LEMMA SameForward == ASSUME UNCHANGED vars PROVE Forward
  BY DEF vars, redisVars, faultVars, Forward

-----------------------------------------------------------------------------
(* One lemma for each way a step changes the connections.                  *)

LEMMA NetKept == ASSUME NetInv, Forward, net' = net PROVE NetInv'
<1> SUFFICES ASSUME NEW k \in Conn PROVE Good(net[k], status', breaks')
  BY DEF NetInv, Good
<1>1. Good(net[k], status, breaks)
  BY DEF NetInv, Good
<1> QED
  BY <1>1, GoodForward

LEMMA OneChanges ==
    ASSUME NetInv, Forward, NEW k \in Conn, NEW r, Good(r, status', breaks'),
           net' = [net EXCEPT ![k] = r]
    PROVE  NetInv'
<1>1. net' \in [Conn -> ConnType]
  BY DEF NetInv, Good, ConnOK
<1>2. ASSUME NEW j \in Conn PROVE Good(net'[j], status', breaks')
  <2>1. CASE j = k
    BY <2>1 DEF NetInv
  <2>2. CASE j # k
    <3>1. net'[j] = net[j] /\ Good(net[j], status, breaks)
      BY <2>2 DEF NetInv, Good
    <3> QED
      BY <3>1, GoodForward
  <2> QED
    BY <2>1, <2>2
<1> QED
  BY <1>1, <1>2 DEF NetInv, Good

LEMMA AllAbandoned ==
    ASSUME NetInv, Forward, net' = [k \in Conn |-> Abandoned(net[k])] PROVE NetInv'
<1>1. ASSUME NEW k \in Conn
      PROVE  Good(Abandoned(net[k]), status', breaks')
  <2>1. Good(net[k], status', breaks')
    BY GoodForward DEF NetInv, Good
  <2> QED
    BY <2>1, AbandonedGood
<1>2. net' \in [Conn -> ConnType]
  BY <1>1 DEF Good, ConnOK
<1> QED
  BY <1>1, <1>2 DEF NetInv, Good

LEMMA Responds ==
    ASSUME NetInv, UNCHANGED <<status, breaks>>, Forward, NEW k \in Conn, net[k].pc # "free",
           NEW code \in Codes, NEW told \in Statuses \cup {"nothing"},
           net[k].op = "submit" /\ code = 200 =>
                net[k].id \in Task /\ status[net[k].id] # "absent",
           breaks = 0 /\ net[k].op = "status" /\ code = 200 /\ net[k].id \in Task =>
                Says(told, net[k].id, status),
           Respond(k, code, told)
    PROVE  NetInv'
<1> DEFINE s == [net[k] EXCEPT !.pc = "writing", !.code = code, !.told = told]
<1>1. Good(net[k], status, breaks)
  BY DEF NetInv, Good
<1>2. Good(s, status, breaks)
  <2> DEFINE r == net[k]
  <2>1. Good(r, status, breaks) /\ r.pc # "free"
    BY <1>1
  <2>2. /\ r.op = "submit" /\ code = 200 => r.id \in Task /\ status[r.id] # "absent"
        /\ breaks = 0 /\ r.op = "status" /\ code = 200 /\ r.id \in Task =>
               Says(told, r.id, status)
    OBVIOUS
  <2>3. code \in Codes /\ told \in Statuses \cup {"nothing"}
    OBVIOUS
  <2> HIDE DEF r
  <2>4. Good([r EXCEPT !.pc = "writing", !.code = code, !.told = told], status, breaks)
    BY ONLY <2>1, <2>2, <2>3, RespondedGood, Zenon
  <2> QED
    BY <2>4 DEF r
<1>3. Good(Idle, status, breaks)
  BY IdleGood
<1>4. net' = [net EXCEPT ![k] = Idle] \/ net' = [net EXCEPT ![k] = s]
  BY DEF Respond
<1> HIDE DEF s
<1>5. Good(s, status', breaks') /\ Good(Idle, status', breaks')
  BY <1>2, <1>3
<1> QED
  BY <1>4, <1>5, OneChanges

LEMMA OrderKept == ASSUME OrderInv, Forward, order' = order PROVE OrderInv'
  BY HonestForward DEF OrderInv

-----------------------------------------------------------------------------
(* A client has one request at a time, but for those it has left behind;   *)
(* it orders while it has no id, and one that was left is still called for.*)
OneRequest ==
    /\ \A k \in Conn : net[k].left => net[k].pc = "call"
    /\ \A j, k \in Conn :
         net[j].by = net[k].by /\ net[j].by # None /\ ~net[j].left /\ ~net[k].left => j = k
    /\ \A k \in Conn :
         net[k].op = "submit" /\ net[k].by # None /\ ~net[k].left => order[net[k].by].id = None

GatewayInv == NetInv /\ OneRequest /\ OrderInv /\ RestOK
GInv == IInv /\ Recorded /\ GatewayInv /\ refused \in 0..MaxFaults

\* A connection goes on with the same request, is left, or becomes free.
Narrows(r, s) ==
    /\ s.by = None \/ (s.by = r.by /\ s.op = r.op /\ (r.left => s.left))
    /\ s.left => s.pc = "call"

LEMMA NarrowsToIdle == ASSUME NEW r PROVE Narrows(r, Idle)
  BY DEF Narrows, Idle

LEMMA NarrowsToCall == ASSUME NEW r \in ConnType PROVE Narrows(r, [r EXCEPT !.pc = "call"])
<1> DEFINE s == [r EXCEPT !.pc = "call"]
<1>1. s.by = r.by /\ s.op = r.op /\ s.left = r.left /\ s.pc = "call"
  BY DEF ConnType
<1> HIDE DEF s
<1>2. Narrows(r, s)
  BY <1>1 DEF Narrows
<1> QED
  BY <1>2 DEF s

LEMMA NarrowsToResponse ==
    ASSUME NEW r \in ConnType, ~r.left, NEW code, NEW told
    PROVE  Narrows(r, [r EXCEPT !.pc = "writing", !.code = code, !.told = told])
<1> DEFINE s == [r EXCEPT !.pc = "writing", !.code = code, !.told = told]
<1>1. s.by = r.by /\ s.op = r.op /\ s.left = r.left
  BY DEF ConnType
<1> HIDE DEF s
<1>2. Narrows(r, s)
  BY <1>1 DEF Narrows
<1> QED
  BY <1>2 DEF s

LEMMA NarrowsToSubmitted ==
    ASSUME NEW r \in ConnType, ~r.left, NEW t PROVE Narrows(r, [r EXCEPT !.id = t])
<1> DEFINE s == [r EXCEPT !.id = t]
<1>1. s.by = r.by /\ s.op = r.op /\ s.left = r.left
  BY DEF ConnType
<1> HIDE DEF s
<1>2. Narrows(r, s)
  BY <1>1 DEF Narrows
<1> QED
  BY <1>2 DEF s

LEMMA NarrowsToAbandoned == ASSUME NEW r \in ConnType PROVE Narrows(r, Abandoned(r))
<1> DEFINE s == [r EXCEPT !.left = TRUE]
<1>1. s.by = r.by /\ s.op = r.op /\ s.pc = r.pc /\ s.left
  BY DEF ConnType
<1> HIDE DEF s
<1>2. r.pc = "call" => Narrows(r, s)
  BY <1>1 DEF Narrows
<1>3. Abandoned(r) = Idle \/ (r.pc = "call" /\ Abandoned(r) = s)
  BY DEF Abandoned, s
<1> QED
  BY <1>2, <1>3, NarrowsToIdle

LEMMA OneStays ==
    ASSUME OneRequest, order' = order, \A k \in Conn : Narrows(net[k], net'[k])
    PROVE  OneRequest'
  BY DEF OneRequest, Narrows

LEMMA OneNarrows ==
    ASSUME NetInv, OneRequest, order' = order, NEW k \in Conn, NEW r, Narrows(net[k], r),
           net' = [net EXCEPT ![k] = r]
    PROVE  OneRequest'
<1>1. ASSUME NEW j \in Conn PROVE Narrows(net[j], net'[j])
  <2>1. CASE j = k
    BY <2>1 DEF NetInv
  <2>2. CASE j # k
    BY <2>2 DEF NetInv, OneRequest, Narrows
  <2> QED
    BY <2>1, <2>2
<1> QED
  BY <1>1, OneStays

LEMMA RespondsNarrows ==
    ASSUME NetInv, OneRequest, order' = order, NEW k \in Conn, NEW code, NEW told,
           Respond(k, code, told)
    PROVE  OneRequest'
<1> DEFINE s == [net[k] EXCEPT !.pc = "writing", !.code = code, !.told = told]
<1>1. net[k] \in ConnType
  BY DEF NetInv
<1>2. ~net[k].left => Narrows(net[k], s)
  BY <1>1, NarrowsToResponse
<1>3. net' = [net EXCEPT ![k] = Idle] \/ (~net[k].left /\ net' = [net EXCEPT ![k] = s])
  BY DEF Respond
<1> HIDE DEF s
<1> QED
  BY <1>2, <1>3, NarrowsToIdle, OneNarrows

-----------------------------------------------------------------------------
(* What a client makes of a response.                                      *)

LEMMA ToldHonest ==
    ASSUME NEW o, NEW r, NEW st, NEW b, OrderOK(o), Honest(o, st, b), Good(r, st, b),
           r.op = "submit" => o.id = None
    PROVE  OrderOK(Told(o, r)) /\ Honest(Told(o, r), st, b)
<1>1. /\ o \in [id : Task \cup {None}, seen : Statuses \cup {"nothing"}]
      /\ o.seen # "nothing" => o.id # None
      /\ r.told \in Statuses \cup {"nothing"}
      /\ r.op = "status" => r.id \in Task \cup {NoSuch}
  BY DEF OrderOK, Good, ConnOK, Sound, ConnType
<1>2. CASE r.code = 200 /\ r.op = "submit"
  <2> DEFINE n == [o EXCEPT !.id = r.id]
  <2>1. r.id \in Task /\ st[r.id] # "absent" /\ o.seen = "nothing"
    BY <1>1, <1>2 DEF Good, Sound
  <2>2. n \in [id : Task \cup {None}, seen : Statuses \cup {"nothing"}]
        /\ n.id = r.id /\ n.seen = o.seen
    BY <1>1, <2>1
  <2>3. Told(o, r) = n
    BY <1>2 DEF Told
  <2> HIDE DEF n
  <2> QED
    BY <2>1, <2>2, <2>3 DEF OrderOK, Honest
<1>3. CASE r.code = 200 /\ r.op = "status" /\ r.id = o.id
  <2> DEFINE n == [o EXCEPT !.seen = r.told]
  <2>1. r.id \in Task /\ (b = 0 => Says(r.told, r.id, st)) /\ o.id \in Task /\ st[o.id] # "absent"
    BY <1>1, <1>3 DEF Good, Sound
  <2>2. n \in [id : Task \cup {None}, seen : Statuses \cup {"nothing"}]
        /\ n.id = o.id /\ n.seen = r.told
    BY <1>1
  <2>3. Told(o, r) = n
    BY <1>3 DEF Told
  <2>4. n.id # None
    BY <2>1, <2>2, NamesAssumption DEF NamesAssumption
  <2> HIDE DEF n
  <2> QED
    BY <1>3, <2>1, <2>2, <2>3, <2>4 DEF OrderOK, Honest
<1>4. CASE Told(o, r) = o
  BY <1>4
<1>5. Told(o, r) = o \/ (r.code = 200 /\ r.op = "submit")
      \/ (r.code = 200 /\ r.op = "status" /\ r.id = o.id)
  BY DEF Told
<1> QED
  BY <1>2, <1>3, <1>4, <1>5

-----------------------------------------------------------------------------
(* One lemma for each action, or group of them.                            *)

LEMMA Opens ==
    ASSUME GInv, NEW c \in Client, NEW k \in Conn, NEW op \in Requests,
           NEW id \in Task \cup {None, NoSuch}, Open(c, k, op, id),
           op = "status" => id # None /\ (id \in Task => status[id] # "absent"),
           op # "status" => id = None,
           op = "submit" => order[c].id = None
    PROVE  GatewayInv'
<1> DEFINE s == [Idle EXCEPT !.pc = "reading", !.by = c, !.op = op, !.id = id]
<1>1. Forward /\ UNCHANGED <<status, breaks>>
  BY SameForward DEF Open, vars, redisVars, faultVars
<1>2. Good(s, status', breaks')
  BY <1>1, OpenedGood
<1>3. s.by = c /\ s.op = op /\ s.left = FALSE
  BY DEF Idle
<1>4. net' = [net EXCEPT ![k] = s] /\ \A j \in Conn : net[j].by # c \/ net[j].left
  BY DEF Open
<1>5. UNCHANGED <<gw, cut, order, made, upsets>>
  BY DEF Open
<1> HIDE DEF s
<1>6. NetInv'
  BY <1>1, <1>2, <1>4, OneChanges DEF GInv, GatewayInv
<1>7. OneRequest'
  <2>1. net \in [Conn -> ConnType]
    BY DEF GInv, GatewayInv, NetInv
  <2>2. net'[k] = s /\ \A j \in Conn : j # k => net'[j] = net[j]
    BY <1>4, <2>1
  <2> QED
    BY <1>3, <1>4, <1>5, <2>2 DEF GInv, GatewayInv, OneRequest
<1>8. OrderInv' /\ RestOK'
  BY <1>1, <1>5, OrderKept DEF GInv, GatewayInv, RestOK
<1> QED
  BY <1>6, <1>7, <1>8 DEF GatewayInv

LEMMA ClientSteps ==
    ASSUME GInv, NEW c \in Client, NEW k \in Conn, Insist(c, k) \/ Visit(c, k)
    PROVE  GatewayInv'
<1>1. {"submit", "status", "workers"} \cup Local \subseteq Requests
  BY DEF Requests
<1>2. OrderOK(order[c]) /\ Honest(order[c], status, breaks)
  BY DEF GInv, GatewayInv, OrderInv
<1>3. CASE order[c].id = None /\ Open(c, k, "submit", None)
  BY <1>1, <1>3, Opens
<1>4. CASE order[c].id # None /\ Open(c, k, "status", order[c].id)
  <2>1. order[c].id \in Task /\ status[order[c].id] # "absent"
    BY <1>2, <1>4 DEF OrderOK, Honest
  <2> QED
    BY <1>1, <1>4, <2>1, Opens
<1>5. ASSUME NEW op \in Local \cup {"workers"}, Open(c, k, op, None) PROVE GatewayInv'
  <2>1. op \in Requests /\ op # "status" /\ op # "submit"
    BY <1>1 DEF Local
  <2> QED
    BY <1>5, <2>1, Opens
<1>6. CASE Open(c, k, "status", NoSuch)
  BY <1>1, <1>6, Opens
<1> QED
  BY <1>3, <1>4, <1>5, <1>6 DEF Insist, Visit

\* A response, and nothing else but the bookkeeping of open calls.
LEMMA RespondSteps ==
    ASSUME GInv, NEW k \in Conn, net[k].pc # "free",
           NEW code \in Codes, NEW told \in Statuses \cup {"nothing"},
           net[k].op = "submit" /\ code = 200 =>
                net[k].id \in Task /\ status[net[k].id] # "absent",
           breaks = 0 /\ net[k].op = "status" /\ code = 200 /\ net[k].id \in Task =>
                Says(told, net[k].id, status),
           Respond(k, code, told),
           UNCHANGED <<vars, gw, order, made, upsets>>
    PROVE  GatewayInv'
<1>1. Forward /\ UNCHANGED <<status, breaks>> /\ order' = order
  BY SameForward DEF vars, redisVars, faultVars
<1>2. NetInv /\ OneRequest /\ OrderInv /\ RestOK
  BY DEF GInv, GatewayInv
<1>3. NetInv'
  BY <1>1, <1>2, Responds
<1>4. OneRequest'
  BY <1>1, <1>2, RespondsNarrows
<1>5. OrderInv'
  BY <1>1, <1>2, OrderKept
<1>6. RestOK'
  BY <1>2 DEF RestOK, Respond
<1> QED
  BY <1>3, <1>4, <1>5, <1>6 DEF GatewayInv

\* The request of one connection changes, and at most what else the process keeps.
LEMMA ChangeSteps ==
    ASSUME GInv, Forward, NEW k \in Conn, NEW r, Good(r, status', breaks'),
           Narrows(net[k], r), net' = [net EXCEPT ![k] = r], order' = order, RestOK'
    PROVE  GatewayInv'
<1>1. NetInv /\ OneRequest /\ OrderInv
  BY DEF GInv, GatewayInv
<1>2. NetInv'
  BY <1>1, OneChanges
<1>3. OneRequest'
  BY <1>1, OneNarrows
<1>4. OrderInv'
  BY <1>1, OrderKept
<1> QED
  BY <1>2, <1>3, <1>4 DEF GatewayInv

\* What handleConnection makes of a request it has read.
LEMMA ReadCases ==
    ASSUME NEW k \in Conn, Read(k)
    PROVE  \/ net[k].op = "malformed" /\ net' = [net EXCEPT ![k] = Idle] /\ UNCHANGED cut
           \/ net[k].op = "fixed" /\ Respond(k, 200, "nothing")
           \/ net[k].op = "nowhere" /\ Respond(k, 404, "nothing")
           \/ net[k].op = "noId" /\ Respond(k, 400, "nothing")
           \/ net' = [net EXCEPT ![k].pc = "call"] /\ UNCHANGED cut
<1> DEFINE r == net[k]
<1>1. \/ r.op = "malformed" /\ net' = [net EXCEPT ![k] = Idle] /\ UNCHANGED cut
      \/ r.op = "fixed" /\ Respond(k, 200, "nothing")
      \/ r.op = "nowhere" /\ Respond(k, 404, "nothing")
      \/ r.op = "noId" /\ Respond(k, 400, "nothing")
      \/ net' = [net EXCEPT ![k].pc = "call"] /\ UNCHANGED cut
  BY DEF Read
<1> QED
  BY <1>1

LEMMA ReadStep == ASSUME GInv, NEW k \in Conn, Read(k) PROVE GatewayInv'
<1> DEFINE r == net[k]
           s == [r EXCEPT !.pc = "call"]
<1>1. Forward /\ UNCHANGED <<status, breaks>>
  BY SameForward DEF Read, vars, redisVars, faultVars
<1>2. r.pc = "reading" /\ r \in ConnType /\ Good(r, status, breaks)
  BY DEF Read, GInv, GatewayInv, NetInv, Good
<1>3. UNCHANGED <<vars, gw, order, made, upsets>>
  BY DEF Read
<1>4. ASSUME UNCHANGED cut PROVE RestOK'
  BY <1>3, <1>4 DEF GInv, GatewayInv, RestOK
<1>5. CASE r.op = "malformed" /\ net' = [net EXCEPT ![k] = Idle] /\ UNCHANGED cut
  BY <1>1, <1>3, <1>4, <1>5, ChangeSteps, IdleGood, NarrowsToIdle
<1>6. ASSUME NEW code \in Codes, r.op \in {"fixed", "nowhere", "noId"},
             Respond(k, code, "nothing")
      PROVE  GatewayInv'
  <2>1. r.op # "submit" /\ r.op # "status" /\ r.pc # "free"
    BY <1>2, <1>6
  <2>2. "nothing" \in Statuses \cup {"nothing"}
    OBVIOUS
  <2> HIDE DEF r
  <2> QED
    BY <1>3, <1>6, <2>1, <2>2, RespondSteps DEF r
<1>7. CASE net' = [net EXCEPT ![k].pc = "call"] /\ UNCHANGED cut
  <2>1. net' = [net EXCEPT ![k] = s]
    BY <1>7
  <2>2. Good(s, status', breaks')
    BY <1>1, <1>2, CallingGood
  <2>3. Narrows(r, s)
    BY <1>2, NarrowsToCall
  <2>4. RestOK' /\ order' = order
    BY <1>3, <1>4, <1>7
  <2> HIDE DEF s
  <2> QED
    BY <1>1, <2>1, <2>2, <2>3, <2>4, ChangeSteps
<1>8. {200, 404, 400} \subseteq Codes
  BY DEF Codes
<1>9. \/ r.op = "malformed" /\ net' = [net EXCEPT ![k] = Idle] /\ UNCHANGED cut
      \/ r.op = "fixed" /\ Respond(k, 200, "nothing")
      \/ r.op = "nowhere" /\ Respond(k, 404, "nothing")
      \/ r.op = "noId" /\ Respond(k, 400, "nothing")
      \/ net' = [net EXCEPT ![k].pc = "call"] /\ UNCHANGED cut
  BY ReadCases
<1> QED
  BY <1>5, <1>6, <1>7, <1>8, <1>9

LEMMA SubmittingStep ==
    ASSUME GInv, IInv', NEW k \in Conn, Submitting(k) PROVE GatewayInv'
<1> DEFINE r == net[k]
           s == [r EXCEPT !.id = NextId]
<1>1. Forward
  BY SubmittingSteps, GoesForward DEF GInv
<1>2. NextId \in Task
  BY NextIdIsTask DEF Submitting
<1>3. r.pc = "call" /\ r.op = "submit" /\ r.id = None
  BY DEF Submitting, Calls
<1>4. r \in ConnType /\ Good(r, status', breaks')
  BY <1>1, GoodForward DEF GInv, GatewayInv, NetInv, Good
<1>5. order' = order /\ UNCHANGED <<gw, cut, upsets>>
  BY DEF Submitting
<1>6. r.by \in Client \cup {None}
  BY <1>4 DEF ConnType
<1>7. made' = [made EXCEPT ![NextId] = r.by]
  BY DEF Submitting
<1>8. RestOK'
  BY <1>2, <1>5, <1>6, <1>7 DEF GInv, GatewayInv, RestOK
<1>9. CASE r.left /\ net' = [net EXCEPT ![k] = Idle]
  BY <1>1, <1>5, <1>8, <1>9, IdleGood, NarrowsToIdle, ChangeSteps
<1>10. CASE ~r.left /\ net' = [net EXCEPT ![k] = s]
  <2>1. Good(s, status', breaks')
    BY <1>2, <1>3, <1>4, SubmittedGood
  <2>2. Narrows(r, s)
    BY <1>4, <1>10, NarrowsToSubmitted
  <2> HIDE DEF s
  <2> QED
    BY <1>1, <1>5, <1>8, <1>10, <2>1, <2>2, ChangeSteps
<1>11. (r.left /\ net' = [net EXCEPT ![k] = Idle]) \/ (~r.left /\ net' = [net EXCEPT ![k] = s])
  BY DEF Submitting
<1> QED
  BY <1>9, <1>10, <1>11

LEMMA ReplySteps ==
    ASSUME GInv, NEW k \in Conn,
           \/ SubmitReplies(k) \/ StatusReplies(k) \/ WorkersReplies(k)
           \/ NoNextId(k) \/ CallFails(k)
    PROVE  GatewayInv'
<1>1. {200, 404, 500, 503} \subseteq Codes /\ "nothing" \in Statuses \cup {"nothing"}
  BY DEF Codes
<1>2. net[k] \in ConnType /\ Good(net[k], status, breaks)
  BY DEF GInv, GatewayInv, NetInv, Good
<1>3. net[k].pc = "call" /\ UNCHANGED <<vars, gw, order, made, upsets>>
  BY DEF SubmitReplies, StatusReplies, WorkersReplies, NoNextId, CallFails, Calls
<1>4. ASSUME NEW code \in Codes, code # 200, Respond(k, code, "nothing") PROVE GatewayInv'
  BY <1>1, <1>3, <1>4, RespondSteps
<1>5. CASE SubmitReplies(k)
  <2>1. CASE sub[net[k].id] = "accepted" /\ Respond(k, 200, "nothing")
    <3>1. net[k].op = "submit" /\ net[k].id \in Task
      BY <1>2, <1>5 DEF SubmitReplies, Calls, Good, Sound
    <3>2. status[net[k].id] # "absent"
      BY <2>1, <3>1 DEF GInv, Recorded
    <3> QED
      BY <1>1, <1>3, <2>1, <3>1, <3>2, RespondSteps
  <2>2. CASE Respond(k, 500, "nothing")
    BY <1>1, <1>4, <2>2
  <2> QED
    BY <1>5, <2>1, <2>2 DEF SubmitReplies
<1>6. CASE StatusReplies(k)
  <2>1. net[k].op = "status"
    BY <1>6 DEF StatusReplies, Calls
  <2>2. CASE net[k].id \in Task /\ Respond(k, 200, status[net[k].id])
    <3>1. status[net[k].id] \in {"pending", "running"}
      BY <1>2, <2>1, <2>2 DEF Good, Sound, GInv, IInv, Typed, TypeOK, RedisTypeOK
    <3>2. status[net[k].id] \in Statuses \cup {"nothing"} /\ Says(status[net[k].id], net[k].id, status)
      BY <3>1 DEF Statuses, Says
    <3> QED
      BY <1>1, <1>3, <2>1, <2>2, <3>2, RespondSteps
  <2>3. ASSUME net[k].id = NoSuch \/ "dead" \in pool, NEW told \in Statuses, Respond(k, 200, told)
        PROVE  GatewayInv'
    <3>1. ~(breaks = 0 /\ net[k].id \in Task)
      BY <2>3 DEF GInv, Recorded
    <3> QED
      BY <1>1, <1>3, <2>1, <2>3, <3>1, RespondSteps
  <2>4. CASE Respond(k, 404, "nothing")
    BY <1>1, <1>4, <2>4
  <2> QED
    BY <1>6, <2>2, <2>3, <2>4 DEF StatusReplies
<1>7. CASE WorkersReplies(k)
  <2>1. net[k].op = "workers" /\ Respond(k, 200, "nothing")
    BY <1>7 DEF WorkersReplies, Calls
  <2> QED
    BY <1>1, <1>3, <2>1, RespondSteps
<1>8. CASE NoNextId(k) \/ CallFails(k)
  BY <1>1, <1>4, <1>8 DEF NoNextId, CallFails
<1> QED
  BY <1>5, <1>6, <1>7, <1>8

LEMMA WriteStep == ASSUME GInv, NEW k \in Conn, Write(k) PROVE GatewayInv'
<1> DEFINE c == net[k].by
           n == Told(order[c], net[k])
<1>1. Forward /\ UNCHANGED <<status, breaks>>
  BY SameForward DEF Write, vars, redisVars, faultVars
<1>2. /\ net[k].pc = "writing" /\ net' = [net EXCEPT ![k] = Idle]
      /\ order' = [order EXCEPT ![c] = n] /\ UNCHANGED <<gw, cut, made, upsets>>
  BY DEF Write
<1>3. NetInv /\ OneRequest /\ OrderInv /\ RestOK
  BY DEF GInv, GatewayInv
<1>4. Good(net[k], status, breaks) /\ c \in Client /\ ~net[k].left
  BY <1>2, <1>3 DEF NetInv, Good, ConnOK, ConnType, OneRequest
<1>5. OrderOK(n) /\ Honest(n, status, breaks)
  <2>1. net[k].op = "submit" => order[c].id = None
    BY <1>3, <1>4 DEF OneRequest
  <2>2. OrderOK(order[c]) /\ Honest(order[c], status, breaks)
    BY <1>3, <1>4 DEF OrderInv
  <2> QED
    BY <1>4, <2>1, <2>2, ToldHonest
<1> HIDE DEF n
<1>6. NetInv'
  BY <1>1, <1>2, <1>3, IdleGood, OneChanges
<1>7. OrderInv'
  <2>1. order' \in [Client -> [id : Task \cup {None}, seen : Statuses \cup {"nothing"}]]
    BY <1>2, <1>3, <1>5 DEF OrderInv, OrderOK
  <2>2. ASSUME NEW d \in Client PROVE OrderOK(order'[d]) /\ Honest(order'[d], status, breaks)
    BY <1>2, <1>3, <1>5 DEF OrderInv
  <2> QED
    BY <1>1, <2>1, <2>2 DEF OrderInv
<1>8. OneRequest'
  <2>1. net'[k] = Idle /\ \A j \in Conn : j # k => net'[j] = net[j]
    BY <1>2, <1>3 DEF NetInv
  <2>2. Idle.by = None /\ Idle.left = FALSE
    BY DEF Idle
  <2>3. \A d \in Client : d # c => order'[d] = order[d]
    BY <1>2, <1>3 DEF OrderInv
  <2>4. ASSUME NEW j \in Conn, net'[j].by # None, ~net'[j].left
        PROVE  j # k /\ net'[j] = net[j] /\ net[j].by # c
    BY <1>3, <1>4, <2>1, <2>2, <2>4 DEF OneRequest
  <2>5. \A j \in Conn : net'[j].left => net'[j].pc = "call"
    BY <1>3, <2>1, <2>2 DEF OneRequest
  <2>6. ASSUME NEW i \in Conn, NEW j \in Conn, net'[i].by = net'[j].by, net'[i].by # None,
               ~net'[i].left, ~net'[j].left
        PROVE  i = j
    BY <1>3, <2>4, <2>6 DEF OneRequest
  <2>7. ASSUME NEW j \in Conn, net'[j].op = "submit", net'[j].by # None, ~net'[j].left
        PROVE  order'[net'[j].by].id = None
    <3>1. net'[j] = net[j] /\ net[j].by # c /\ net[j].by \in Client
      BY <1>3, <2>4, <2>7 DEF NetInv, ConnType
    <3> QED
      BY <1>3, <2>3, <2>7, <3>1 DEF OneRequest
  <2> QED
    BY <2>5, <2>6, <2>7 DEF OneRequest
<1>9. RestOK'
  BY <1>2, <1>3 DEF RestOK
<1> QED
  BY <1>6, <1>7, <1>8, <1>9 DEF GatewayInv

\* Upsets are bounded together with the other faults.
LEMMA UpsetsBounded ==
    ASSUME IInv, refused \in 0..MaxFaults, upsets \in 0..MaxFaults, Room
    PROVE  upsets + 1 \in 0..MaxFaults
<1>1. crashes \in Nat /\ breaks \in Nat
  BY FaultsAssumption DEF IInv, Typed, TypeOK, ProcessTypeOK
<1> QED
  BY <1>1 DEF Faults, Room

LEMMA HangUpStep == ASSUME GInv, NEW k \in Conn, HangUp(k) PROVE GatewayInv'
<1>1. Forward /\ UNCHANGED <<status, breaks>> /\ UNCHANGED <<order, gw, made>>
  BY SameForward DEF HangUp, vars, redisVars, faultVars
<1>2. net' = [net EXCEPT ![k] = Abandoned(net[k])]
  BY DEF HangUp
<1>3. net[k] \in ConnType /\ Good(net[k], status, breaks)
  BY DEF GInv, GatewayInv, NetInv, Good
<1>4. Good(Abandoned(net[k]), status', breaks') /\ Narrows(net[k], Abandoned(net[k]))
  BY <1>1, <1>3, AbandonedGood, NarrowsToAbandoned
<1>5. RestOK'
  BY <1>1, UpsetsBounded DEF HangUp, GInv, GatewayInv, RestOK
<1> QED
  BY <1>1, <1>2, <1>4, <1>5, ChangeSteps

LEMMA ChannelStep == ASSUME GInv, NEW k \in Conn, ChannelBreaks(k) PROVE GatewayInv'
<1>1. Forward /\ UNCHANGED <<order, gw, made, net>> /\ cut' = cut \cup {k}
  BY SameForward DEF ChannelBreaks
<1>2. NetInv /\ OneRequest /\ OrderInv /\ RestOK
  BY DEF GInv, GatewayInv
<1>3. NetInv' /\ OrderInv'
  BY <1>1, <1>2, NetKept, OrderKept
<1>4. OneRequest'
  BY <1>1, <1>2 DEF OneRequest
<1>5. RestOK'
  BY <1>1, <1>2, UpsetsBounded DEF ChannelBreaks, GInv, RestOK
<1> QED
  BY <1>3, <1>4, <1>5 DEF GatewayInv

LEMMA ExitStep == ASSUME GInv, GatewayExit PROVE GatewayInv'
<1>1. Forward /\ order' = order /\ made' = made
  BY SameForward DEF GatewayExit, vars, redisVars, faultVars
<1>2. net' = [k \in Conn |-> Abandoned(net[k])]
  BY DEF GatewayExit
<1>3. NetInv /\ OneRequest /\ OrderInv /\ RestOK
  BY DEF GInv, GatewayInv
<1>4. NetInv'
  BY <1>1, <1>2, <1>3, AllAbandoned
<1>5. ASSUME NEW k \in Conn PROVE Narrows(net[k], net'[k])
  BY <1>2, <1>3, NarrowsToAbandoned DEF NetInv
<1>6. OneRequest'
  BY <1>1, <1>3, <1>5, OneStays
<1>7. OrderInv'
  BY <1>1, <1>3, OrderKept
<1>8. RestOK'
  BY <1>1, <1>3, UpsetsBounded DEF GatewayExit, GInv, RestOK
<1> QED
  BY <1>4, <1>6, <1>7, <1>8 DEF GatewayInv

\* The scheduler's own steps, and starts.
LEMMA OtherSteps ==
    ASSUME GInv, Forward, UNCHANGED <<net, order, made, upsets>>,
           gw' \in {"up", "down"}, cut' \subseteq Conn
    PROVE  GatewayInv'
<1>1. NetInv /\ OneRequest /\ OrderInv /\ RestOK
  BY DEF GInv, GatewayInv
<1>2. NetInv' /\ OrderInv'
  BY <1>1, NetKept, OrderKept
<1>3. OneRequest' /\ RestOK'
  BY <1>1 DEF OneRequest, RestOK
<1> QED
  BY <1>2, <1>3 DEF GatewayInv

LEMMA GInvInit == GInit => GInv
<1> SUFFICES ASSUME GInit PROVE GInv
  OBVIOUS
<1>1. IInv /\ Recorded
  BY InitTyped, InitPlaces DEF GInit, Init, IInv, Recorded
<1>2. net = [k \in Conn |-> Idle] /\ order = [c \in Client |-> [id |-> None, seen |-> "nothing"]]
  BY DEF GInit
<1>3. NetInv
  <2>1. Good(Idle, status, breaks)
    BY IdleGood
  <2> QED
    BY <1>2, <2>1 DEF NetInv, Good, ConnOK
<1>4. OneRequest
  <2>1. Idle.by = None /\ Idle.left = FALSE
    BY DEF Idle
  <2> QED
    BY <1>2, <2>1 DEF OneRequest
<1>5. OrderInv
  BY <1>2, NamesAssumption DEF NamesAssumption, OrderInv, OrderOK, Honest
<1>6. RestOK
  BY DEF GInit, RestOK
<1>7. refused \in 0..MaxFaults
  BY DEF GInit
<1> QED
  BY <1>1, <1>3, <1>4, <1>5, <1>6, <1>7 DEF GInv, GatewayInv

\* Ids are refused one by one, within the bound.
LEMMA RefusalsCounted ==
    ASSUME IInv, upsets \in Nat, refused \in 0..MaxFaults, [GNext]_allVars
    PROVE  refused' \in 0..MaxFaults
<1>1. crashes \in Nat /\ breaks \in Nat
  BY FaultsAssumption DEF IInv, Typed, TypeOK, ProcessTypeOK
<1>2. ASSUME NEW k \in Conn, NoNextId(k) PROVE refused' \in 0..MaxFaults
  BY <1>1, <1>2 DEF NoNextId, Room, Faults
<1>3. ASSUME NEW k \in Conn, Serve(k) PROVE refused' \in 0..MaxFaults
  BY <1>2, <1>3 DEF Serve, Read, Submitting, SubmitReplies, StatusReplies, WorkersReplies,
     CallFails, Write
<1> QED
  BY <1>3 DEF GNext, Insist, Visit, Open, HangUp, ChannelBreaks, GatewayExit, GatewayStart,
     SchedulerCrash, allVars, gatewayVars

LEMMA GInvNext == GInv /\ [GNext]_allVars => GInv'
<1> SUFFICES ASSUME GInv, [GNext]_allVars PROVE GInv'
  OBVIOUS
<1>1. [Next]_vars
  BY StepOfScheduler
<1>2. IInv' /\ Recorded' /\ Forward
  BY <1>1, NextInvariant, RecordedNext, GoesForward DEF GInv
<1>3. cut \subseteq Conn /\ gw \in {"up", "down"}
  BY DEF GInv, GatewayInv, RestOK
<1>4. ASSUME NEW c \in Client, NEW k \in Conn, Insist(c, k) \/ Visit(c, k) PROVE GatewayInv'
  BY <1>4, ClientSteps
<1>5. ASSUME NEW k \in Conn, Serve(k) PROVE GatewayInv'
  BY <1>2, <1>5, ReadStep, SubmittingStep, ReplySteps, WriteStep DEF Serve
<1>6. ASSUME NEW k \in Conn, HangUp(k) PROVE GatewayInv'
  BY <1>6, HangUpStep
<1>7. GatewayExit => GatewayInv'
  BY ExitStep
<1>8. GatewayStart => GatewayInv'
  BY <1>2, <1>3, OtherSteps DEF GatewayStart
<1>9. UNCHANGED gatewayVars => GatewayInv'
  BY <1>2, <1>3, OtherSteps DEF gatewayVars
<1>10. SchedulerCrash => GatewayInv'
  BY <1>2, <1>3, OtherSteps DEF SchedulerCrash
<1>11. ASSUME NEW k \in Conn, ChannelBreaks(k) PROVE GatewayInv'
  BY <1>11, ChannelStep
<1>12. GatewayInv'
  BY <1>4, <1>5, <1>6, <1>7, <1>8, <1>9, <1>10, <1>11 DEF GNext, allVars
<1>13. refused' \in 0..MaxFaults
  BY RefusalsCounted DEF GInv, GatewayInv, RestOK
<1> QED
  BY <1>2, <1>12, <1>13 DEF GInv

LEMMA GInductive == GSpec => []GInv
  BY GInvInit, GInvNext, PTL DEF GSpec

-----------------------------------------------------------------------------
(* The types of the gateway's variables; a client has an id before it has a*)
(* status.                                                                 *)
THEOREM GatewayTyped == GSpec => []GTypeOK
<1>1. GInv => GTypeOK
  BY DEF GInv, GatewayInv, NetInv, OrderInv, OrderOK, ConnOK, RestOK, GTypeOK
<1> QED
  BY GInductive, <1>1, PTL

(* While no Redis connection has failed, a client that was told that its   *)
(* task runs was told the truth, whatever restarts, hang-ups and repeated  *)
(* submissions came in between.                                            *)
THEOREM AnswersAreTrue == GSpec => []ToldTheTruth
<1>1. GInv => ToldTheTruth
  BY DEF GInv, GatewayInv, OrderInv, Honest, Says, ToldTheTruth
<1> QED
  BY GInductive, <1>1, PTL

-----------------------------------------------------------------------------
(* How many tasks an order makes.                                          *)

\* The tasks made for a client that are in the system or still enter it.
Made(c) == {t \in Task : made[t] = c /\ (InTheSystem(t) \/ sub[t] = "saved")}

\* Its submissions that have no id yet, also those it has left behind.
Pending(c) ==
    {k \in Conn : /\ net[k].by = c /\ net[k].op = "submit" /\ net[k].id = None
                  /\ net[k].pc \in {"reading", "call"}}

\* A submission that is confirmed unless it is refused or a fault prevents it.
Hopeful(k) ==
    /\ net[k].op = "submit" /\ ~net[k].left
    /\ \/ net[k].pc = "reading" /\ net[k].id = None
       \/ /\ net[k].pc = "call" /\ k \notin cut
          /\ net[k].id = None \/ sub[net[k].id] \in {"saved", "accepted"}
       \/ net[k].pc = "writing" /\ net[k].code = 200

\* The client has its confirmation or is on the way to it.
Charged(c) == order[c].id # None \/ \E k \in Conn : net[k].by = c /\ Hopeful(k)
Charge(c) == IF Charged(c) THEN 1 ELSE 0

(* The invariant behind OneTaskPerOrder: what a client has made or may     *)
(* still make is paid for by the faults, but for the one submission that   *)
(* ends its order.  So a client that has to submit again, because it is    *)
(* not charged, has room for one task more.                                *)
Within(c) ==
    /\ IsFiniteSet(Made(c)) /\ IsFiniteSet(Pending(c))
    /\ Cardinality(Made(c)) + Cardinality(Pending(c)) <= Faults + Charge(c)

\* Only a submission without an id is left behind; only open calls are cut.
LeftAndCut ==
    /\ \A k \in Conn : net[k].left => net[k].op = "submit" /\ net[k].id = None
    /\ \A k \in cut : net[k].pc = "call"

Budget == LeftAndCut /\ \A c \in Client : Within(c)

(* The four ways the sum can move.                                         *)

LEMMA FaultsCounted == ASSUME GInv PROVE Faults \in Nat
<1>1. crashes \in Nat /\ breaks \in Nat
  BY FaultsAssumption DEF GInv, IInv, Typed, TypeOK, ProcessTypeOK
<1>2. upsets \in Nat
  BY DEF GInv, GatewayInv, RestOK
<1> QED
  BY <1>1, <1>2 DEF Faults

\* Nothing is added, and the charge is dropped for a fault only.
LEMMA WithinStays ==
    ASSUME GInv, NEW c \in Client, Within(c),
           Made(c)' \subseteq Made(c), Pending(c)' \subseteq Pending(c),
           \/ Faults' = Faults /\ (Charged(c) => Charged(c)')
           \/ Faults' = Faults + 1
    PROVE  Within(c)'
<1>1. /\ IsFiniteSet(Made(c)') /\ Cardinality(Made(c)') <= Cardinality(Made(c))
      /\ IsFiniteSet(Pending(c)') /\ Cardinality(Pending(c)') <= Cardinality(Pending(c))
  BY FS_Subset DEF Within
<1>2. /\ Cardinality(Made(c)') \in Nat /\ Cardinality(Made(c)) \in Nat
      /\ Cardinality(Pending(c)') \in Nat /\ Cardinality(Pending(c)) \in Nat
  BY <1>1, FS_CardinalityType DEF Within
<1>3. Faults \in Nat
  BY FaultsCounted
<1>4. Charge(c) \in 0..1 /\ Charge(c)' \in 0..1
  BY DEF Charge
<1>5. Faults + Charge(c) <= Faults' + Charge(c)'
  <2>1. CASE Faults' = Faults /\ (Charged(c) => Charged(c)')
    <3>1. Charge(c) <= Charge(c)'
      BY <2>1 DEF Charge
    <3> QED
      BY <1>3, <1>4, <2>1, <3>1
  <2>2. CASE Faults' = Faults + 1
    BY <1>3, <1>4, <2>2
  <2> QED
    BY <2>1, <2>2
<1>6. Faults' \in Nat
  BY <1>3
<1>7. Cardinality(Made(c)) + Cardinality(Pending(c)) <= Faults + Charge(c)
  BY DEF Within
<1>8. Cardinality(Made(c)') + Cardinality(Pending(c)') <= Faults' + Charge(c)'
  BY <1>1, <1>2, <1>3, <1>4, <1>5, <1>6, <1>7
<1> QED
  BY <1>1, <1>8 DEF Within

\* A submission without an id comes to nothing, and with it perhaps the charge.
LEMMA WithinSpends ==
    ASSUME GInv, NEW c \in Client, Within(c), NEW k \in Pending(c),
           Made(c)' \subseteq Made(c), Pending(c)' \subseteq Pending(c) \ {k},
           Faults' = Faults
    PROVE  Within(c)'
<1>1. /\ IsFiniteSet(Pending(c) \ {k})
      /\ Cardinality(Pending(c) \ {k}) = Cardinality(Pending(c)) - 1
  BY FS_RemoveElement DEF Within
<1>2. /\ IsFiniteSet(Made(c)') /\ Cardinality(Made(c)') <= Cardinality(Made(c))
      /\ IsFiniteSet(Pending(c)') /\ Cardinality(Pending(c)') <= Cardinality(Pending(c) \ {k})
  BY <1>1, FS_Subset DEF Within
<1>3. /\ Cardinality(Made(c)') \in Nat /\ Cardinality(Made(c)) \in Nat
      /\ Cardinality(Pending(c)') \in Nat /\ Cardinality(Pending(c)) \in Nat
  BY <1>2, FS_CardinalityType DEF Within
<1>4. Faults \in Nat /\ Charge(c) \in 0..1 /\ Charge(c)' \in 0..1
  BY FaultsCounted DEF Charge
<1>5. Cardinality(Made(c)) + Cardinality(Pending(c)) <= Faults + Charge(c)
  BY DEF Within
<1>6. Cardinality(Made(c)') + Cardinality(Pending(c)') <= Faults' + Charge(c)'
  BY <1>1, <1>2, <1>3, <1>4, <1>5
<1> QED
  BY <1>2, <1>6 DEF Within

\* A submission gets its id: it is no longer pending, but its task is made.
LEMMA WithinMoves ==
    ASSUME GInv, NEW c \in Client, Within(c), NEW k \in Pending(c), NEW t,
           Made(c)' \subseteq Made(c) \cup {t}, Pending(c)' \subseteq Pending(c) \ {k},
           Faults' = Faults, Charged(c) => Charged(c)'
    PROVE  Within(c)'
<1>1. /\ IsFiniteSet(Pending(c) \ {k})
      /\ Cardinality(Pending(c) \ {k}) = Cardinality(Pending(c)) - 1
  BY FS_RemoveElement DEF Within
<1>2. /\ IsFiniteSet(Made(c) \cup {t})
      /\ \/ Cardinality(Made(c) \cup {t}) = Cardinality(Made(c))
         \/ Cardinality(Made(c) \cup {t}) = Cardinality(Made(c)) + 1
  BY FS_AddElement DEF Within
<1>3. /\ IsFiniteSet(Made(c)') /\ Cardinality(Made(c)') <= Cardinality(Made(c) \cup {t})
      /\ IsFiniteSet(Pending(c)') /\ Cardinality(Pending(c)') <= Cardinality(Pending(c) \ {k})
  BY <1>1, <1>2, FS_Subset
<1>4. /\ Cardinality(Made(c)') \in Nat /\ Cardinality(Made(c)) \in Nat
      /\ Cardinality(Pending(c)') \in Nat /\ Cardinality(Pending(c)) \in Nat
  BY <1>3, FS_CardinalityType DEF Within
<1>5. /\ Faults \in Nat /\ Charge(c) \in 0..1 /\ Charge(c)' \in 0..1
      /\ Charge(c) <= Charge(c)'
  BY FaultsCounted DEF Charge
<1>6. Cardinality(Made(c)) + Cardinality(Pending(c)) <= Faults + Charge(c)
  BY DEF Within
<1>7. Cardinality(Made(c)') + Cardinality(Pending(c)') <= Faults' + Charge(c)'
  BY <1>1, <1>2, <1>3, <1>4, <1>5, <1>6
<1> QED
  BY <1>3, <1>7 DEF Within

\* A client that is not charged submits, and is charged for it.
LEMMA WithinOpens ==
    ASSUME GInv, NEW c \in Client, Within(c), NEW k,
           Made(c)' \subseteq Made(c), Pending(c)' \subseteq Pending(c) \cup {k},
           Faults' = Faults, ~Charged(c), Charged(c)'
    PROVE  Within(c)'
<1>1. /\ IsFiniteSet(Pending(c) \cup {k})
      /\ \/ Cardinality(Pending(c) \cup {k}) = Cardinality(Pending(c))
         \/ Cardinality(Pending(c) \cup {k}) = Cardinality(Pending(c)) + 1
  BY FS_AddElement DEF Within
<1>2. /\ IsFiniteSet(Made(c)') /\ Cardinality(Made(c)') <= Cardinality(Made(c))
      /\ IsFiniteSet(Pending(c)') /\ Cardinality(Pending(c)') <= Cardinality(Pending(c) \cup {k})
  BY <1>1, FS_Subset DEF Within
<1>3. /\ Cardinality(Made(c)') \in Nat /\ Cardinality(Made(c)) \in Nat
      /\ Cardinality(Pending(c)') \in Nat /\ Cardinality(Pending(c)) \in Nat
  BY <1>2, FS_CardinalityType DEF Within
<1>4. Faults \in Nat /\ Charge(c) = 0 /\ Charge(c)' = 1
  BY FaultsCounted DEF Charge
<1>5. Cardinality(Made(c)) + Cardinality(Pending(c)) <= Faults + Charge(c)
  BY DEF Within
<1>6. Cardinality(Made(c)') + Cardinality(Pending(c)') <= Faults' + Charge(c)'
  BY <1>1, <1>2, <1>3, <1>4, <1>5
<1> QED
  BY <1>2, <1>6 DEF Within

-----------------------------------------------------------------------------
(* What the scheduler does to the tasks that are made.                     *)

InOrEntering(t) == InTheSystem(t) \/ sub[t] = "saved"

\* A submission that is on its way to a confirmation stays so.
Confirming ==
    \A t \in Task : sub[t] \in {"saved", "accepted"} => sub'[t] \in {"saved", "accepted"}

\* The scheduler by itself brings no task into the system.
LEMMA NoneEnters ==
    ASSUME IInv, SchedulerStep \/ Crash, NEW t \in Task, InOrEntering(t)'
    PROVE  InOrEntering(t)
<1> USE DEF IInv, InOrEntering, InTheSystem
<1>1. CASE Dispatch
  <2>1. sub' = sub
    BY <1>1 DEF Dispatch, LoopTop, Lpop, Select, Requeue, AssignStatus, AssignWorker,
                IncrLoad, ReadLoad, CacheLoad
  <2>2. ASSUME NEW c \in Classes, Lpop(c) PROVE InOrEntering(t)
    <3>1. CASE conn = "live" /\ queue[c] # <<>>
      <4>1. dtask' = Head(queue[c]) /\ queue' = [queue EXCEPT ![c] = Tail(@)]
            /\ status' = status
        BY <2>2, <3>1 DEF Lpop
      <4>2. dtask' \in AllQueued /\ AllQueued' = AllQueued \ {dtask'}
        BY <3>1, <4>1, PopOnce, ListsOfTasks DEF Places
      <4> QED
        BY <2>1, <4>1, <4>2
    <3>2. CASE ~(conn = "live" /\ queue[c] # <<>>)
      <4>1. queue' = queue /\ status' = status /\ ~Holding'
        BY <2>2, <3>2 DEF Lpop, Holding, NextClass, Classes
      <4> QED
        BY <2>1, <4>1, SameQueue
    <3> QED
      BY <3>1, <3>2
  <2>3. CASE Requeue
    <3>1. /\ dtask \in Task /\ dtask \notin AllQueued /\ Holding /\ ~Holding'
          /\ status' = status
      BY <2>3 DEF Requeue, Typed, LocalsSet, Places, Holding
    <3>2. AllQueued' = AllQueued \/ AllQueued' = AllQueued \cup {dtask}
      BY <2>3, <3>1, PushOnce, SameQueue, ListsOfTasks DEF Requeue, Places
    <3> QED
      BY <2>1, <3>1, <3>2
  <2>4. CASE AssignStatus
    <3>1. /\ dtask \in Task /\ queue' = queue /\ Holding /\ ~Holding'
          /\ \A u \in Task \ {dtask} : status'[u] = status[u]
      BY <2>4 DEF AssignStatus, Typed, LocalsSet, Holding, TypeOK, RedisTypeOK
    <3> QED
      BY <2>1, <3>1, SameQueue
  <2>5. CASE LoopTop \/ Select \/ AssignWorker \/ IncrLoad \/ ReadLoad \/ CacheLoad
    <3>1. queue' = queue /\ status' = status
      BY <2>5 DEF LoopTop, Select, AssignWorker, IncrLoad, ReadLoad, CacheLoad, redisVars
    <3>2. Holding' => Holding /\ dtask' = dtask
      BY <2>5 DEF LoopTop, Select, AssignWorker, IncrLoad, ReadLoad, CacheLoad, Holding
    <3> QED
      BY <2>1, <3>1, <3>2, SameQueue
  <2> QED
    BY <1>1, <2>2, <2>3, <2>4, <2>5 DEF Dispatch
<1>2. CASE Environment
  <2>1. queue' = queue /\ status' = status /\ sub' = sub
    BY <1>2 DEF Environment, UpdateWorkers, MarkWorkerDead, Signal, Shutdown, Start,
                redisVars
  <2>2. Holding' => Holding /\ dtask' = dtask
    BY <1>2 DEF Environment, UpdateWorkers, MarkWorkerDead, Signal, Shutdown, Start,
                loopVars, Holding
  <2> QED
    BY <2>1, <2>2, SameQueue
<1>3. ASSUME NEW u \in Task, SubmitPush(u) \/ \E executed \in BOOLEAN : BreakPush(u, executed)
      PROVE  InOrEntering(t)
  <2>1. /\ status' = status /\ dpc' = dpc /\ dtask' = dtask /\ sub[u] = "saved"
        /\ \A v \in Task \ {u} : sub'[v] = sub[v]
    BY <1>3 DEF SubmitPush, BreakPush, Break, loopVars, Typed, TypeOK, ProcessTypeOK
  <2>2. u \notin AllQueued
    BY <2>1 DEF Places, Replied
  <2>3. AllQueued' = AllQueued \/ AllQueued' = AllQueued \cup {u}
    BY <1>3, <2>2, PushOnce, SameQueue, ListsOfTasks DEF SubmitPush, BreakPush, Places
  <2> QED
    BY <2>1, <2>3 DEF Holding
<1>4. ASSUME NEW c \in Classes, BreakLpop(c) PROVE InOrEntering(t)
  <2>1. /\ status' = status /\ dpc' = dpc /\ dtask' = dtask /\ sub' = sub
        /\ queue[c] # <<>> /\ queue' = [queue EXCEPT ![c] = Tail(@)]
    BY <1>4 DEF BreakLpop
  <2>2. AllQueued' \subseteq AllQueued
    BY <2>1, PopOnce, ListsOfTasks DEF Places
  <2> QED
    BY <2>1, <2>2 DEF Holding
<1>5. CASE BreakLoop
  <2>1. queue' = queue /\ status' = status /\ dpc' = dpc /\ dtask' = dtask /\ sub' = sub
    BY <1>5 DEF BreakLoop, redisVars
  <2> QED
    BY <2>1, SameQueue DEF Holding
<1>6. CASE Crash
  <2>1. /\ queue' = queue /\ status' = status /\ ~Holding'
        /\ sub'[t] = IF sub[t] = "saved" THEN "aborted" ELSE sub[t]
    BY <1>6 DEF Crash, redisVars, Holding
  <2> QED
    BY <2>1, SameQueue
<1> QED
  BY <1>1, <1>2, <1>3, <1>4, <1>5, <1>6 DEF SchedulerStep, Spare

\* A scheduler step is a fault or leaves confirmations on their way.
LEMMA FaultOrConfirming ==
    ASSUME GInv, SchedulerStep, upsets' = upsets
    PROVE  (Faults' = Faults /\ Confirming) \/ Faults' = Faults + 1
<1>1. crashes \in Nat /\ breaks \in Nat /\ upsets \in Nat
  BY FaultsAssumption DEF GInv, GatewayInv, RestOK, IInv, Typed, TypeOK, ProcessTypeOK
<1>2. CASE Dispatch \/ Environment
  <2>1. sub' = sub /\ crashes' = crashes /\ breaks' = breaks
    BY <1>2 DEF Dispatch, LoopTop, Lpop, Select, Requeue, AssignStatus, AssignWorker,
                IncrLoad, ReadLoad, CacheLoad, Environment, UpdateWorkers,
                MarkWorkerDead, Signal, Shutdown, Start, faultVars
  <2> QED
    BY <2>1 DEF Faults, Confirming
<1>3. CASE \E t \in Task : SubmitPush(t)
  <2>1. crashes' = crashes /\ breaks' = breaks
    BY <1>3 DEF SubmitPush, faultVars
  <2>2. Confirming
    BY <1>3 DEF SubmitPush, Confirming, GInv, IInv, Typed, TypeOK, ProcessTypeOK
  <2> QED
    BY <2>1, <2>2 DEF Faults
<1>4. CASE \/ \E t \in Task, executed \in BOOLEAN : BreakPush(t, executed)
           \/ \E c \in Classes : BreakLpop(c)
           \/ BreakLoop
  <2>1. crashes' = crashes /\ breaks' = breaks + 1
    BY <1>4 DEF BreakPush, BreakLpop, BreakLoop, Break
  <2>2. Faults' = crashes + (breaks + 1) + upsets
    BY <2>1 DEF Faults
  <2> QED
    BY <1>1, <2>2 DEF Faults
<1> QED
  BY <1>2, <1>3, <1>4 DEF SchedulerStep, Spare

-----------------------------------------------------------------------------
(* What a step of the gateway does to the sums.                            *)

\* The charge of a client rests on connections the step does not touch.
LEMMA ChargeOfOthers ==
    ASSUME GInv, NEW c \in Client, NEW k \in Conn, NEW r,
           net' = [net EXCEPT ![k] = r], ~(net[k].by = c /\ Hopeful(k)),
           order[c].id # None => order'[c].id # None,
           Confirming, cut' \subseteq cut, Charged(c)
    PROVE  Charged(c)'
<1>1. net \in [Conn -> ConnType] /\ \A j \in Conn : Sound(net[j], status, breaks)
  BY DEF GInv, GatewayInv, NetInv
<1>2. CASE order[c].id # None
  BY <1>2 DEF Charged
<1>3. CASE order[c].id = None
  <2>1. PICK j \in Conn : net[j].by = c /\ Hopeful(j)
    BY <1>3 DEF Charged
  <2>2. j # k /\ net'[j] = net[j]
    BY <1>1, <2>1
  <2>3. net[j].id # None => net[j].id \in Task
    BY <1>1, <2>1 DEF Hopeful, Sound
  <2>4. Hopeful(j)'
    BY <2>1, <2>2, <2>3 DEF Hopeful, Confirming
  <2> QED
    BY <2>1, <2>2, <2>4 DEF Charged
<1> QED
  BY <1>2, <1>3

\* A step on a connection that holds no submission of the client.
LEMMA Elsewhere ==
    ASSUME GInv, NEW c \in Client, Within(c), NEW k \in Conn, NEW r,
           net' = [net EXCEPT ![k] = r],
           ~(net[k].by = c /\ net[k].op = "submit"), ~(r.by = c /\ r.op = "submit"),
           order[c].id # None => order'[c].id # None,
           Confirming, cut' \subseteq cut, Made(c)' \subseteq Made(c),
           Faults' = Faults \/ Faults' = Faults + 1
    PROVE  Within(c)'
<1>1. net \in [Conn -> ConnType]
  BY DEF GInv, GatewayInv, NetInv
<1>2. Pending(c)' \subseteq Pending(c)
  BY <1>1 DEF Pending
<1>3. ~(net[k].by = c /\ Hopeful(k))
  BY DEF Hopeful
<1>4. Charged(c) => Charged(c)'
  BY <1>3, ChargeOfOthers
<1> QED
  BY <1>2, <1>4, WithinStays

LEMMA LeftAndCutKept ==
    ASSUME GInv, LeftAndCut, NEW k \in Conn, NEW r, net' = [net EXCEPT ![k] = r],
           r.left => r.op = "submit" /\ r.id = None,
           cut' \subseteq cut, k \in cut' => r.pc = "call"
    PROVE  LeftAndCut'
<1>1. net \in [Conn -> ConnType] /\ cut \subseteq Conn
  BY DEF GInv, GatewayInv, NetInv, RestOK
<1>2. \A j \in Conn : net'[j] = IF j = k THEN r ELSE net[j]
  BY <1>1
<1> QED
  BY <1>1, <1>2 DEF LeftAndCut

\* What the steps leave alone of the scheduler and of what is made.
LEMMA AsideKeeps ==
    ASSUME UNCHANGED <<vars, made, upsets>>
    PROVE  /\ Faults' = Faults /\ Confirming
           /\ \A c : Made(c)' = Made(c)
<1>1. /\ sub' = sub /\ status' = status /\ dpc' = dpc /\ dtask' = dtask
      /\ queue' = queue /\ crashes' = crashes /\ breaks' = breaks
  BY DEF vars, redisVars, loopVars, faultVars
<1>2. AllQueued' = AllQueued
  BY <1>1, SameQueue
<1> QED
  BY <1>1, <1>2 DEF Faults, Confirming, Made, InTheSystem, Holding

LEMMA IdleFields == Idle.by = None /\ Idle.left = FALSE /\ Idle.op = "fixed" /\ Idle.id = None
                    /\ Idle.pc = "free"
  BY DEF Idle

\* How the response to the request q looks.
ResponseTo(q, r, code) ==
    \/ r = Idle /\ q.left
    \/ /\ ~q.left /\ r.left = FALSE /\ r.pc = "writing"
       /\ r.by = q.by /\ r.op = q.op /\ r.id = q.id /\ r.code = code

\* A response to anything but a submission, and how a response looks.
LEMMA ResponseFields ==
    ASSUME GInv, NEW k \in Conn, NEW code, NEW told, Respond(k, code, told)
    PROVE  \E r : /\ net' = [net EXCEPT ![k] = r] /\ cut' = cut \ {k}
                  /\ ResponseTo(net[k], r, code)
<1> DEFINE s == [net[k] EXCEPT !.pc = "writing", !.code = code, !.told = told]
<1>1. net[k] \in ConnType
  BY DEF GInv, GatewayInv, NetInv
<1>2. /\ s.left = net[k].left /\ s.pc = "writing" /\ s.by = net[k].by
      /\ s.op = net[k].op /\ s.id = net[k].id /\ s.code = code
  BY <1>1 DEF ConnType
<1>3. CASE net[k].left
  BY <1>3 DEF Respond, ResponseTo
<1>4. CASE ~net[k].left
  <2>1. net' = [net EXCEPT ![k] = s] /\ cut' = cut \ {k}
    BY <1>4 DEF Respond
  <2>2. net[k].left \in BOOLEAN
    BY <1>1 DEF ConnType
  <2> HIDE DEF s
  <2> QED
    BY <1>2, <1>4, <2>1, <2>2 DEF ResponseTo
<1> QED
  BY <1>3, <1>4

\* A response to what is not a submission moves no sum.
LEMMA OtherResponse ==
    ASSUME GInv, Budget, NEW k \in Conn, NEW code, NEW told, Respond(k, code, told),
           net[k].op # "submit", UNCHANGED <<vars, order, made, upsets>>
    PROVE  Budget'
<1>0. \E r : /\ net' = [net EXCEPT ![k] = r] /\ cut' = cut \ {k}
             /\ ResponseTo(net[k], r, code)
  BY ResponseFields
<1>1. PICK r : /\ net' = [net EXCEPT ![k] = r] /\ cut' = cut \ {k}
               /\ r.left = FALSE /\ r.op # "submit"
  BY <1>0, IdleFields DEF ResponseTo
<1>2. LeftAndCut'
  BY <1>1, LeftAndCutKept DEF Budget
<1>3. ASSUME NEW c \in Client PROVE Within(c)'
  <2>1. Faults' = Faults /\ Confirming /\ Made(c)' \subseteq Made(c)
    BY AsideKeeps
  <2> QED
    BY <1>1, <2>1, Elsewhere DEF Budget
<1> QED
  BY <1>2, <1>3 DEF Budget

\* A response to a submission: confirmed, refused, or cut off.
LEMMA SubmitResponse ==
    ASSUME GInv, Budget, NEW k \in Conn, NEW code, Respond(k, code, "nothing"),
           net[k].op = "submit", net[k].pc = "call",
           UNCHANGED <<vars, order, made, upsets>>,
           \/ net[k].id = None
           \/ ~Hopeful(k)
           \/ code = 200
    PROVE  Budget'
<1> DEFINE d == net[k].by
<1>0. \E r : /\ net' = [net EXCEPT ![k] = r] /\ cut' = cut \ {k}
             /\ ResponseTo(net[k], r, code)
  BY ResponseFields
<1>1. net \in [Conn -> ConnType] /\ net[k] \in ConnType
  BY DEF GInv, GatewayInv, NetInv
<1>2. PICK r : /\ net' = [net EXCEPT ![k] = r] /\ cut' = cut \ {k}
               /\ \/ r = Idle /\ net[k].left
                  \/ /\ ~net[k].left /\ r.left = FALSE /\ r.pc = "writing"
                     /\ r.by = d /\ r.op = "submit" /\ r.code = code
  BY <1>0 DEF ResponseTo
<1>3. r.left = FALSE /\ r.pc \in {"free", "writing"} /\ (r.by = d \/ r.by = None)
  BY <1>2, IdleFields
<1>4. LeftAndCut'
  BY <1>2, <1>3, LeftAndCutKept DEF Budget
<1>5. ASSUME NEW c \in Client PROVE Within(c)'
  <2>1. Faults' = Faults /\ Confirming /\ Made(c)' \subseteq Made(c)
    BY AsideKeeps
  <2>2. Within(c)
    BY DEF Budget
  <2>3. CASE c # d
    <3>1. r.by # c
      BY <1>3, <2>3
    <3> QED
      BY <1>2, <2>1, <2>2, <2>3, <3>1, Elsewhere
  <2>4. CASE c = d
    <3>1. Pending(c)' \subseteq Pending(c) \ {k}
      BY <1>1, <1>2, <1>3 DEF Pending
    <3>2. CASE net[k].id = None
      <4>1. k \in Pending(c)
        BY <2>4, <3>2 DEF Pending
      <4> QED
        BY <2>1, <2>2, <3>1, <4>1, WithinSpends
    <3>3. CASE ~Hopeful(k)
      <4>1. Charged(c) => Charged(c)'
        BY <1>2, <2>1, <3>3, ChargeOfOthers
      <4> QED
        BY <2>1, <2>2, <3>1, <4>1, WithinStays
    <3>4. CASE code = 200 /\ net[k].id # None
      <4>1. ~net[k].left
        BY <3>4 DEF Budget, LeftAndCut
      <4>2. net'[k] = r
        BY <1>1, <1>2
      <4>3. Hopeful(k)' /\ net'[k].by = c
        BY <1>2, <2>4, <3>4, <4>1, <4>2 DEF Hopeful
      <4>4. Charged(c)'
        BY <4>3 DEF Charged
      <4> QED
        BY <2>1, <2>2, <3>1, <4>4, WithinStays
    <3> QED
      BY <3>2, <3>3, <3>4
  <2> QED
    BY <2>3, <2>4
<1> QED
  BY <1>4, <1>5 DEF Budget

-----------------------------------------------------------------------------
(* One lemma for each action, or group of them.                            *)

LEMMA BudgetOpen ==
    ASSUME GInv, Budget, NEW c \in Client, NEW k \in Conn, NEW op, NEW id,
           Open(c, k, op, id), op = "submit" => id = None /\ order[c].id = None
    PROVE  Budget'
<1> DEFINE s == [Idle EXCEPT !.pc = "reading", !.by = c, !.op = op, !.id = id]
<1>1. /\ net \in [Conn -> ConnType] /\ net' = [net EXCEPT ![k] = s]
      /\ \A j \in Conn : net[j].by # c \/ net[j].left
      /\ UNCHANGED <<vars, cut, order, made, upsets>>
  BY DEF Open, GInv, GatewayInv, NetInv
<1>2. s.pc = "reading" /\ s.by = c /\ s.op = op /\ s.id = id /\ s.left = FALSE
  BY DEF Idle
<1>3. k \in FreeConns
  <2>1. k = NextConn
    BY DEF Open
  <2>2. FreeConns # {}
    <3>1. ASSUME FreeConns = {} PROVE FALSE
      <4>1. k = None /\ net[k].by # c
        BY <2>1, <3>1 DEF NextConn
      <4> QED
        BY <4>1
    <3> QED
      BY <3>1
  <2> QED
    BY <2>1, <2>2 DEF NextConn
<1>4. net[k].pc = "free" /\ net[k].by = None
  BY <1>3 DEF FreeConns, GInv, GatewayInv, NetInv, ConnOK
<1> HIDE DEF s
<1>5. LeftAndCut'
  BY <1>1, <1>2, <1>4, LeftAndCutKept DEF Budget, LeftAndCut
<1>6. ASSUME NEW d \in Client PROVE Within(d)'
  <2>1. Faults' = Faults /\ Confirming /\ Made(d)' \subseteq Made(d)
    BY <1>1, AsideKeeps
  <2>2. Within(d) /\ net[k].by # d
    BY <1>4 DEF Budget
  <2>3. CASE d # c \/ op # "submit"
    BY <1>1, <1>2, <2>1, <2>2, <2>3, Elsewhere
  <2>4. CASE d = c /\ op = "submit"
    <3>1. Pending(d)' \subseteq Pending(d) \cup {k}
      BY <1>1 DEF Pending
    <3>2. ~Charged(d)
      BY <1>1, <2>4 DEF Charged, Hopeful
    <3>3. net'[k] = s
      BY <1>1
    <3>4. Charged(d)'
      BY <1>2, <2>4, <3>3 DEF Charged, Hopeful
    <3> QED
      BY <2>1, <2>2, <3>1, <3>2, <3>4, WithinOpens
  <2> QED
    BY <2>3, <2>4
<1> QED
  BY <1>5, <1>6 DEF Budget

LEMMA BudgetClient ==
    ASSUME GInv, Budget, NEW c \in Client, NEW k \in Conn, Insist(c, k) \/ Visit(c, k)
    PROVE  Budget'
<1>1. CASE order[c].id = None /\ Open(c, k, "submit", None)
  BY <1>1, BudgetOpen
<1>2. CASE \/ Open(c, k, "status", order[c].id) \/ Open(c, k, "status", NoSuch)
  BY <1>2, BudgetOpen
<1>3. ASSUME NEW op \in Local \cup {"workers"}, Open(c, k, op, None) PROVE Budget'
  <2>1. op # "submit"
    BY DEF Local
  <2> QED
    BY <1>3, <2>1, BudgetOpen
<1> QED
  BY <1>1, <1>2, <1>3 DEF Insist, Visit

LEMMA BudgetRead ==
    ASSUME GInv, Budget, NEW k \in Conn, Read(k)
    PROVE  Budget'
<1> DEFINE r == net[k]
           s == [r EXCEPT !.pc = "call"]
<1>1. /\ net[k].pc = "reading" /\ net \in [Conn -> ConnType] /\ net[k] \in ConnType
      /\ UNCHANGED <<vars, order, made, upsets>>
  BY DEF Read, GInv, GatewayInv, NetInv
<1>2. ~net[k].left /\ k \notin cut
  BY <1>1 DEF GInv, GatewayInv, OneRequest, Budget, LeftAndCut
<1>3. CASE net[k].op # "submit" /\ net' = [net EXCEPT ![k] = Idle] /\ UNCHANGED cut
  <2>1. LeftAndCut'
    BY <1>2, <1>3, LeftAndCutKept, IdleFields DEF Budget
  <2>2. ASSUME NEW c \in Client PROVE Within(c)'
    <3>1. Faults' = Faults /\ Confirming /\ Made(c)' \subseteq Made(c)
      BY <1>1, AsideKeeps
    <3> QED
      BY <1>1, <1>3, <3>1, Elsewhere, IdleFields DEF Budget
  <2> QED
    BY <2>1, <2>2 DEF Budget
<1>4. ASSUME NEW code, net[k].op # "submit", Respond(k, code, "nothing") PROVE Budget'
  BY <1>1, <1>4, OtherResponse
<1>5. CASE net' = [net EXCEPT ![k] = s] /\ UNCHANGED cut
  <2>1. /\ s.pc = "call" /\ s.left = net[k].left /\ s.by = net[k].by
        /\ s.op = net[k].op /\ s.id = net[k].id
    BY <1>1 DEF ConnType
  <2> HIDE DEF s
  <2>2. LeftAndCut'
    BY <1>2, <1>5, <2>1, LeftAndCutKept DEF Budget
  <2>3. net'[k] = s
    BY <1>1, <1>5
  <2>4. ASSUME NEW c \in Client PROVE Within(c)'
    <3>1. Faults' = Faults /\ Confirming /\ Made(c)' \subseteq Made(c)
      BY <1>1, AsideKeeps
    <3>2. Pending(c)' \subseteq Pending(c)
      BY <1>1, <1>5, <2>1 DEF Pending
    <3>3. Charged(c) => Charged(c)'
      <4>1. CASE net[k].by = c /\ Hopeful(k)
        <5>1. Hopeful(k)' /\ net'[k].by = c
          BY <1>1, <1>2, <1>5, <2>1, <2>3, <4>1 DEF Hopeful
        <5> QED
          BY <5>1 DEF Charged
      <4>2. CASE ~(net[k].by = c /\ Hopeful(k))
        BY <1>1, <1>5, <3>1, <4>2, ChargeOfOthers
      <4> QED
        BY <4>1, <4>2
    <3> QED
      BY <3>1, <3>2, <3>3, WithinStays DEF Budget
  <2> QED
    BY <2>2, <2>4 DEF Budget
<1>6. \/ r.op = "malformed" /\ net' = [net EXCEPT ![k] = Idle] /\ UNCHANGED cut
      \/ r.op = "fixed" /\ Respond(k, 200, "nothing")
      \/ r.op = "nowhere" /\ Respond(k, 404, "nothing")
      \/ r.op = "noId" /\ Respond(k, 400, "nothing")
      \/ net' = [net EXCEPT ![k].pc = "call"] /\ UNCHANGED cut
  BY ReadCases
<1> QED
  BY <1>3, <1>4, <1>5, <1>6

\* SubmitTask begins: the pending submission becomes a task, or comes to nothing.
LEMMA BudgetSubmitting ==
    ASSUME GInv, Budget, NEW k \in Conn, Submitting(k)
    PROVE  Budget'
<1>2. PICK u \in Task : u = NextId /\ sub[u] = "none"
  BY DEF Submitting, NextId, Fresh
<1> DEFINE d == net[k].by
           s == [net[k] EXCEPT !.id = u]
<1>1. /\ net[k].pc = "call" /\ net[k].op = "submit" /\ net[k].id = None /\ k \notin cut
      /\ net \in [Conn -> ConnType] /\ net[k] \in ConnType
      /\ UNCHANGED <<gw, cut, order, upsets>>
  BY DEF Submitting, Calls, GInv, GatewayInv, NetInv
<1>3. /\ IInv /\ sub \in [Task -> {"none", "saved", "accepted", "rejected", "aborted"}]
      /\ status \in [Task -> {"absent", "pending", "running"}]
      /\ crashes \in Nat /\ breaks \in Nat /\ upsets \in Nat
  BY FaultsAssumption
     DEF GInv, IInv, Typed, TypeOK, ProcessTypeOK, RedisTypeOK, GatewayInv, RestOK
<1>4. /\ queue' = queue /\ dpc' = dpc /\ dtask' = dtask /\ crashes' = crashes
      /\ \A t \in Task \ {u} : sub'[t] = sub[t] /\ status'[t] = status[t]
      /\ \/ breaks' = breaks /\ sub'[u] = "saved"
         \/ breaks' = breaks /\ sub'[u] = "rejected"
         \/ breaks' = breaks + 1 /\ sub'[u] = "rejected"
      /\ status'[u] # "running"
  <2>1. status[u] = "absent"
    BY <1>2, <1>3 DEF IInv, Places
  <2>2. CASE \E p \in Priorities : SubmitSave(u, p)
    BY <1>2, <1>3, <2>2 DEF SubmitSave, loopVars, faultVars
  <2>3. CASE \E p \in Priorities : BreakSave(u, p)
    BY <1>2, <1>3, <2>3 DEF BreakSave, Break, loopVars
  <2>4. CASE SubmitRefused(u)
    BY <1>2, <1>3, <2>1, <2>4 DEF SubmitRefused, redisVars, loopVars, faultVars
  <2> QED
    BY <1>2, <2>2, <2>3, <2>4 DEF Submitting, Spare
<1>5. AllQueued' = AllQueued /\ u \notin AllQueued /\ ~(Holding /\ dtask = u)
  BY <1>2, <1>3, <1>4, SameQueue DEF IInv, Places, Replied
<1>6. /\ made' = [made EXCEPT ![u] = d] /\ made \in [Task -> Client \cup {None}]
      /\ \/ net[k].left /\ net' = [net EXCEPT ![k] = Idle]
         \/ ~net[k].left /\ net' = [net EXCEPT ![k] = s]
  BY <1>2 DEF Submitting, GInv, GatewayInv, RestOK
<1>7. /\ s.pc = "call" /\ s.left = net[k].left /\ s.by = d /\ s.op = "submit" /\ s.id = u
  BY <1>1 DEF ConnType
<1>8. PICK r : /\ net' = [net EXCEPT ![k] = r]
               /\ \/ net[k].left /\ r = Idle
                  \/ ~net[k].left /\ r = s
  BY <1>6
<1> HIDE DEF s
<1>9. /\ u # None
      /\ net[k].left \in BOOLEAN
  BY <1>1, <1>2, NamesAssumption DEF ConnType
<1>10. /\ r.left = FALSE /\ (r.by = d \/ r.by = None)
       /\ r.op = "submit" => r.id # None
  BY <1>7, <1>8, <1>9, IdleFields
<1>11. LeftAndCut'
  BY <1>1, <1>8, <1>10, LeftAndCutKept DEF Budget
<1>12. Confirming
  BY <1>2, <1>4 DEF Confirming
<1>13. Faults' = IF breaks' = breaks THEN Faults ELSE Faults + 1
  <2>1. CASE breaks' = breaks
    BY <1>1, <1>4, <2>1 DEF Faults
  <2>2. CASE breaks' = breaks + 1
    <3>1. Faults' = crashes + (breaks + 1) + upsets
      BY <1>1, <1>4, <2>2 DEF Faults
    <3> QED
      BY <1>3, <2>2, <3>1 DEF Faults
  <2> QED
    BY <1>4, <2>1, <2>2
<1>14. ASSUME NEW c \in Client PROVE Within(c)'
  <2>1. Within(c)
    BY DEF Budget
  <2>2. \A t \in Task \ {u} : /\ made'[t] = made[t]
                              /\ InTheSystem(t)' = InTheSystem(t)
    BY <1>4, <1>5, <1>6 DEF InTheSystem, Holding
  <2>3. ~InTheSystem(u)'
    BY <1>4, <1>5 DEF InTheSystem, Holding
  <2>4. /\ Made(c)' \subseteq Made(c) \cup {u}
        /\ c # d \/ sub'[u] # "saved" => Made(c)' \subseteq Made(c)
    <3>1. made'[u] = d
      BY <1>2, <1>6
    <3> QED
      BY <1>4, <2>2, <2>3, <3>1 DEF Made
  <2>5. CASE c # d
    <3>1. ~(net[k].by = c /\ net[k].op = "submit") /\ ~(r.by = c /\ r.op = "submit")
      BY <1>10, <2>5
    <3>2. cut' \subseteq cut /\ (order[c].id # None => order'[c].id # None)
      BY <1>1
    <3>3. Faults' = Faults \/ Faults' = Faults + 1
      BY <1>13
    <3> QED
      BY <1>8, <1>12, <2>1, <2>4, <2>5, <3>1, <3>2, <3>3, Elsewhere
  <2>6. CASE c = d
    <3>1. k \in Pending(c)
      BY <1>1, <2>6 DEF Pending
    <3>2. Pending(c)' \subseteq Pending(c) \ {k}
      BY <1>1, <1>8, <1>10 DEF Pending
    <3>3. CASE breaks' # breaks
      BY <1>4, <1>13, <2>1, <2>4, <3>2, <3>3, WithinStays
    <3>4. CASE breaks' = breaks /\ sub'[u] = "rejected"
      BY <1>13, <2>1, <2>4, <3>1, <3>2, <3>4, WithinSpends
    <3>5. CASE breaks' = breaks /\ sub'[u] = "saved"
      <4>1. CASE net[k].left
        <5>1. ~Hopeful(k)
          BY <4>1 DEF Hopeful
        <5>2. Charged(c) => Charged(c)'
          BY <1>1, <1>8, <1>12, <5>1, ChargeOfOthers
        <5> QED
          BY <1>13, <2>1, <2>4, <3>1, <3>2, <3>5, <5>2, WithinMoves
      <4>2. CASE ~net[k].left
        <5>1. net'[k] = s
          BY <1>1, <1>6, <4>2
        <5>2. Hopeful(k)' /\ net'[k].by = c
          BY <1>1, <1>7, <2>6, <3>5, <4>2, <5>1 DEF Hopeful
        <5>3. Charged(c)'
          BY <5>2 DEF Charged
        <5> QED
          BY <1>13, <2>1, <2>4, <3>1, <3>2, <3>5, <5>3, WithinMoves
      <4> QED
        BY <4>1, <4>2
    <3> QED
      BY <1>4, <3>3, <3>4, <3>5
  <2> QED
    BY <2>5, <2>6
<1> QED
  BY <1>11, <1>14 DEF Budget

LEMMA BudgetReplies ==
    ASSUME GInv, Budget, NEW k \in Conn,
           \/ SubmitReplies(k) \/ StatusReplies(k) \/ WorkersReplies(k)
           \/ NoNextId(k) \/ CallFails(k)
    PROVE  Budget'
<1>1. net[k].pc = "call" /\ UNCHANGED <<vars, gw, order, made, upsets>>
  BY DEF SubmitReplies, StatusReplies, WorkersReplies, NoNextId, CallFails, Calls
<1>2. CASE SubmitReplies(k)
  <2>1. net[k].op = "submit" /\ net[k].id # None
    BY <1>2 DEF SubmitReplies, Calls
  <2>2. CASE sub[net[k].id] = "accepted" /\ Respond(k, 200, "nothing")
    BY <1>1, <2>1, <2>2, SubmitResponse
  <2>3. CASE sub[net[k].id] = "rejected" /\ Respond(k, 500, "nothing")
    <3>1. ~Hopeful(k)
      BY <1>1, <2>1, <2>3 DEF Hopeful
    <3> QED
      BY <1>1, <2>1, <2>3, <3>1, SubmitResponse
  <2> QED
    BY <1>2, <2>2, <2>3 DEF SubmitReplies
<1>3. CASE StatusReplies(k) \/ WorkersReplies(k)
  <2>1. net[k].op # "submit"
    BY <1>3 DEF StatusReplies, WorkersReplies, Calls
  <2>2. \E code, told : Respond(k, code, told)
    BY <1>3 DEF StatusReplies, WorkersReplies
  <2> QED
    BY <1>1, <2>1, <2>2, OtherResponse
<1>4. CASE CallFails(k)
  <2>1. Respond(k, 503, "nothing")
    BY <1>4 DEF CallFails
  <2>2. CASE net[k].op # "submit"
    BY <1>1, <2>1, <2>2, OtherResponse
  <2>3. CASE net[k].op = "submit"
    <3>1. net[k].id = None \/ ~Hopeful(k)
      BY <1>1, <1>4, <2>3 DEF CallFails, Calls, Hopeful
    <3> QED
      BY <1>1, <2>1, <2>3, <3>1, SubmitResponse
  <2> QED
    BY <2>2, <2>3
<1>5. CASE NoNextId(k)
  <2>1. net[k].op = "submit" /\ net[k].id = None /\ Respond(k, 503, "nothing")
    BY <1>5 DEF NoNextId, Calls
  <2> QED
    BY <1>1, <2>1, SubmitResponse
<1> QED
  BY <1>2, <1>3, <1>4, <1>5

LEMMA BudgetWrite ==
    ASSUME GInv, Budget, NEW k \in Conn, Write(k)
    PROVE  Budget'
<1>1. /\ net[k].pc = "writing" /\ net' = [net EXCEPT ![k] = Idle]
      /\ order' = [order EXCEPT ![net[k].by] = Told(@, net[k])]
      /\ UNCHANGED <<vars, cut, made, upsets>>
  BY DEF Write
<1>2. /\ net \in [Conn -> ConnType] /\ net[k] \in ConnType
      /\ Sound(net[k], status, breaks)
      /\ order \in [Client -> [id : Task \cup {None}, seen : Statuses \cup {"nothing"}]]
  BY DEF GInv, GatewayInv, NetInv, OrderInv
<1>3. k \notin cut
  BY <1>1 DEF Budget, LeftAndCut
<1>4. LeftAndCut'
  BY <1>1, <1>3, LeftAndCutKept, IdleFields DEF Budget
<1>5. ASSUME NEW c \in Client PROVE Within(c)'
  <2>1. Faults' = Faults /\ Confirming /\ Made(c)' \subseteq Made(c)
    BY <1>1, AsideKeeps
  <2>2. Pending(c)' \subseteq Pending(c)
    BY <1>1, <1>2, IdleFields DEF Pending
  <2>3. order[c].id # None => order'[c].id # None
    <3>1. CASE net[k].by = c
      <4>1. order'[c] = Told(order[c], net[k])
        BY <1>1, <1>2, <3>1
      <4>2. net[k].op = "submit" /\ net[k].code = 200 => net[k].id \in Task
        BY <1>2 DEF Sound
      <4> QED
        BY <1>2, <4>1, <4>2, NamesAssumption DEF Told
    <3>2. CASE net[k].by # c
      BY <1>1, <1>2, <3>2
    <3> QED
      BY <3>1, <3>2
  <2>4. Charged(c) => Charged(c)'
    <3>1. CASE net[k].by = c /\ Hopeful(k)
      <4>1. net[k].op = "submit" /\ net[k].code = 200
        BY <1>1, <3>1 DEF Hopeful
      <4>2. net[k].id \in Task
        BY <1>2, <4>1 DEF Sound
      <4>3. order'[c] = [order[c] EXCEPT !.id = net[k].id]
        BY <1>1, <1>2, <3>1, <4>1 DEF Told
      <4>4. order'[c].id = net[k].id
        BY <1>2, <4>3
      <4> QED
        BY <4>2, <4>4, NamesAssumption DEF Charged
    <3>2. CASE ~(net[k].by = c /\ Hopeful(k))
      BY <1>1, <2>1, <2>3, <3>2, ChargeOfOthers
    <3> QED
      BY <3>1, <3>2
  <2> QED
    BY <2>1, <2>2, <2>4, WithinStays DEF Budget
<1> QED
  BY <1>4, <1>5 DEF Budget

\* What is abandoned is pending only if it was, and is left if it is kept.
LEMMA AbandonedFields ==
    ASSUME NEW r \in ConnType
    PROVE  \/ Abandoned(r) = Idle
           \/ /\ r.pc = "call" /\ r.op = "submit" /\ r.id = None
              /\ Abandoned(r).pc = "call" /\ Abandoned(r).op = "submit"
              /\ Abandoned(r).id = None /\ Abandoned(r).by = r.by
<1> DEFINE s == [r EXCEPT !.left = TRUE]
<1>1. s.pc = r.pc /\ s.op = r.op /\ s.id = r.id /\ s.by = r.by
  BY DEF ConnType
<1>2. Abandoned(r) = Idle \/ (/\ r.pc = "call" /\ r.op = "submit" /\ r.id = None
                              /\ Abandoned(r) = s)
  BY DEF Abandoned
<1> HIDE DEF s
<1> QED
  BY <1>1, <1>2

\* The two upsets: a client hangs up, or the gateway exits.
LEMMA BudgetUpset ==
    ASSUME GInv, Budget, UNCHANGED <<vars, order, made>>, upsets' = upsets + 1,
           \A k \in Conn : net'[k] = net[k] \/ net'[k] = Abandoned(net[k]),
           cut' = {j \in cut : net'[j].pc = "call"}
    PROVE  Budget'
<1>1. net \in [Conn -> ConnType] /\ cut \subseteq Conn
  BY DEF GInv, GatewayInv, NetInv, RestOK
<1>2. ASSUME NEW k \in Conn
      PROVE  \/ net'[k] = net[k] \/ net'[k] = Idle
             \/ /\ net[k].pc = "call" /\ net[k].op = "submit" /\ net[k].id = None
                /\ net'[k].pc = "call" /\ net'[k].op = "submit"
                /\ net'[k].id = None /\ net'[k].by = net[k].by
  BY <1>1, AbandonedFields
<1>3. LeftAndCut'
  BY <1>2, IdleFields DEF Budget, LeftAndCut
<1>4. ASSUME NEW c \in Client PROVE Within(c)'
  <2>1. crashes \in Nat /\ breaks \in Nat /\ upsets \in Nat
    BY FaultsAssumption DEF GInv, IInv, Typed, TypeOK, ProcessTypeOK, GatewayInv, RestOK
  <2>2. /\ sub' = sub /\ status' = status /\ dpc' = dpc /\ dtask' = dtask
        /\ queue' = queue /\ crashes' = crashes /\ breaks' = breaks
    BY DEF vars, redisVars, loopVars, faultVars
  <2>3. Faults' = Faults + 1
    BY <2>1, <2>2 DEF Faults
  <2>4. Made(c)' \subseteq Made(c)
    BY <2>2, SameQueue DEF Made, InTheSystem, Holding
  <2>5. Pending(c)' \subseteq Pending(c)
    BY <1>2, IdleFields DEF Pending
  <2> QED
    BY <2>3, <2>4, <2>5, WithinStays DEF Budget
<1> QED
  BY <1>3, <1>4 DEF Budget

\* The third one: the channel of a call breaks, and its charge may be lost.
LEMMA BudgetChannel ==
    ASSUME GInv, Budget, NEW k \in Conn, ChannelBreaks(k)
    PROVE  Budget'
<1>1. /\ net[k].pc = "call" /\ cut' = cut \cup {k} /\ upsets' = upsets + 1
      /\ UNCHANGED <<vars, net, order, made>>
  BY DEF ChannelBreaks
<1>2. LeftAndCut'
  BY <1>1 DEF Budget, LeftAndCut
<1>3. ASSUME NEW c \in Client PROVE Within(c)'
  <2>1. crashes \in Nat /\ breaks \in Nat /\ upsets \in Nat
    BY FaultsAssumption DEF GInv, IInv, Typed, TypeOK, ProcessTypeOK, GatewayInv, RestOK
  <2>2. /\ sub' = sub /\ status' = status /\ dpc' = dpc /\ dtask' = dtask
        /\ queue' = queue /\ crashes' = crashes /\ breaks' = breaks
    BY <1>1 DEF vars, redisVars, loopVars, faultVars
  <2>3. Faults' = Faults + 1
    BY <1>1, <2>1, <2>2 DEF Faults
  <2>4. Made(c)' \subseteq Made(c)
    BY <1>1, <2>2, SameQueue DEF Made, InTheSystem, Holding
  <2>5. Pending(c)' \subseteq Pending(c)
    BY <1>1 DEF Pending
  <2> QED
    BY <2>3, <2>4, <2>5, WithinStays DEF Budget
<1> QED
  BY <1>2, <1>3 DEF Budget

\* The scheduler's own steps.
LEMMA BudgetScheduler ==
    ASSUME GInv, Budget, SchedulerStep, UNCHANGED gatewayVars
    PROVE  Budget'
<1>1. UNCHANGED <<net, cut, order, made, upsets>>
  BY DEF gatewayVars
<1>2. LeftAndCut'
  BY <1>1 DEF Budget, LeftAndCut
<1>3. ASSUME NEW c \in Client PROVE Within(c)'
  <2>1. Made(c)' \subseteq Made(c)
    BY <1>1, NoneEnters DEF Made, InOrEntering, GInv
  <2>2. Pending(c)' \subseteq Pending(c)
    BY <1>1 DEF Pending
  <2>3. (Faults' = Faults /\ Confirming) \/ Faults' = Faults + 1
    BY <1>1, FaultOrConfirming
  <2>4. ASSUME Confirming, Charged(c) PROVE Charged(c)'
    <3>1. \A k \in Conn : net[k].op = "submit" => net[k].id \in Task \cup {None}
      BY DEF GInv, GatewayInv, NetInv, Sound
    <3> QED
      BY <1>1, <2>4, <3>1 DEF Charged, Hopeful, Confirming
  <2> QED
    BY <2>1, <2>2, <2>3, <2>4, WithinStays DEF Budget
<1> QED
  BY <1>2, <1>3 DEF Budget

LEMMA BudgetCrash ==
    ASSUME GInv, Budget, SchedulerCrash
    PROVE  Budget'
<1>1. /\ Crash /\ cut' = {k \in Conn : net[k].pc = "call"}
      /\ UNCHANGED <<net, order, made, upsets>>
  BY DEF SchedulerCrash, Spare
<1>2. LeftAndCut'
  BY <1>1 DEF Budget, LeftAndCut
<1>3. ASSUME NEW c \in Client PROVE Within(c)'
  <2>1. Made(c)' \subseteq Made(c)
    BY <1>1, NoneEnters DEF Made, InOrEntering, GInv
  <2>2. Pending(c)' \subseteq Pending(c)
    BY <1>1 DEF Pending
  <2>3. Faults' = Faults + 1
    <3>1. crashes \in Nat /\ breaks \in Nat /\ upsets \in Nat
      BY FaultsAssumption DEF GInv, IInv, Typed, TypeOK, ProcessTypeOK, GatewayInv, RestOK
    <3>2. Faults' = (crashes + 1) + breaks + upsets
      BY <1>1 DEF Crash, Faults
    <3> QED
      BY <3>1, <3>2 DEF Faults
  <2> QED
    BY <2>1, <2>2, <2>3, WithinStays DEF Budget
<1> QED
  BY <1>2, <1>3 DEF Budget

LEMMA BudgetSame ==
    ASSUME GInv, Budget, UNCHANGED <<vars, net, cut, order, made, upsets>>
    PROVE  Budget'
<1>1. LeftAndCut'
  BY DEF Budget, LeftAndCut
<1>2. ASSUME NEW c \in Client PROVE Within(c)'
  <2>1. Faults' = Faults /\ Made(c)' \subseteq Made(c) /\ sub' = sub
    BY AsideKeeps DEF vars
  <2>2. Pending(c)' = Pending(c) /\ Charged(c)' = Charged(c)
    BY <2>1 DEF Pending, Charged, Hopeful
  <2> QED
    BY <2>1, <2>2, WithinStays DEF Budget
<1> QED
  BY <1>1, <1>2 DEF Budget

LEMMA BudgetInit == GInit => Budget
<1> SUFFICES ASSUME GInit PROVE Budget
  OBVIOUS
<1>1. /\ net = [k \in Conn |-> Idle] /\ cut = {} /\ upsets = 0 /\ crashes = 0 /\ breaks = 0
      /\ made = [t \in Task |-> None]
      /\ order = [c \in Client |-> [id |-> None, seen |-> "nothing"]]
  BY DEF GInit, Init
<1>2. LeftAndCut
  BY <1>1, IdleFields DEF LeftAndCut
<1>3. ASSUME NEW c \in Client PROVE Within(c)
  <2>1. Made(c) = {}
    BY <1>1 DEF Made
  <2>2. Pending(c) = {}
    BY <1>1, IdleFields DEF Pending
  <2>3. IsFiniteSet({}) /\ Cardinality({}) = 0
    BY FS_EmptySet
  <2>4. Faults = 0 /\ Charge(c) \in 0..1
    BY <1>1 DEF Faults, Charge
  <2> QED
    BY <2>1, <2>2, <2>3, <2>4 DEF Within
<1> QED
  BY <1>2, <1>3 DEF Budget

LEMMA BudgetNext == GInv /\ Budget /\ [GNext]_allVars => Budget'
<1> SUFFICES ASSUME GInv, Budget, [GNext]_allVars PROVE Budget'
  OBVIOUS
<1>1. net \in [Conn -> ConnType]
  BY DEF GInv, GatewayInv, NetInv
<1>2. ASSUME NEW c \in Client, NEW k \in Conn, Insist(c, k) \/ Visit(c, k) PROVE Budget'
  BY <1>2, BudgetClient
<1>3. ASSUME NEW k \in Conn, Serve(k) PROVE Budget'
  BY <1>3, BudgetRead, BudgetSubmitting, BudgetReplies, BudgetWrite DEF Serve
<1>4. ASSUME NEW k \in Conn, HangUp(k) PROVE Budget'
  <2>1. \A j \in Conn : net'[j] = net[j] \/ net'[j] = Abandoned(net[j])
    BY <1>1, <1>4 DEF HangUp
  <2> QED
    BY <1>4, <2>1, BudgetUpset DEF HangUp
<1>5. CASE GatewayExit
  <2>1. \A j \in Conn : net'[j] = net[j] \/ net'[j] = Abandoned(net[j])
    BY <1>5 DEF GatewayExit
  <2> QED
    BY <1>5, <2>1, BudgetUpset DEF GatewayExit
<1>6. CASE GatewayStart \/ UNCHANGED allVars
  BY <1>6, BudgetSame DEF GatewayStart, allVars, gatewayVars
<1> QED
  BY <1>2, <1>3, <1>4, <1>5, <1>6, BudgetScheduler, BudgetCrash, BudgetChannel DEF GNext

(* A client that posts again until it is confirmed makes one task, and one *)
(* more for each fault at most: the gateway gives requests no identity,    *)
(* but orderly shutdowns, refusals and restarts are never paid for twice.  *)
THEOREM OneTaskUnlessFaults == GSpec => []OneTaskPerOrder
<1>1. GInv /\ Budget /\ [GNext]_allVars => GInv' /\ Budget'
  BY GInvNext, BudgetNext
<1>2. GInit => GInv /\ Budget
  BY GInvInit, BudgetInit
<1>3. GInv /\ Budget => OneTaskPerOrder
  <2> SUFFICES ASSUME GInv, Budget, NEW c \in Client
               PROVE  Cardinality({t \in Task : made[t] = c /\ InTheSystem(t)}) <= 1 + Faults
    BY DEF OneTaskPerOrder
  <2> DEFINE S == {t \in Task : made[t] = c /\ InTheSystem(t)}
  <2>1. Within(c) /\ S \subseteq Made(c)
    BY DEF Budget, Made
  <2>2. IsFiniteSet(S) /\ Cardinality(S) <= Cardinality(Made(c))
    BY <2>1, FS_Subset DEF Within
  <2>3. /\ Cardinality(S) \in Nat /\ Cardinality(Made(c)) \in Nat
        /\ Cardinality(Pending(c)) \in Nat
    BY <2>1, <2>2, FS_CardinalityType DEF Within
  <2>4. Faults \in Nat /\ Charge(c) \in 0..1
    BY FaultsCounted DEF Charge
  <2>5. Cardinality(Made(c)) + Cardinality(Pending(c)) <= Faults + Charge(c)
    BY <2>1 DEF Within
  <2> QED
    BY <2>2, <2>3, <2>4, <2>5
<1> QED
  BY <1>1, <1>2, <1>3, PTL DEF GSpec
=============================================================================
