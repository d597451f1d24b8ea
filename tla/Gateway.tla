------------------------------ MODULE Gateway ------------------------------
(***************************************************************************)
(* The gateway in front of the scheduler, and clients that insist: each    *)
(* has one order, posts it until it is answered 200 with an id, and then   *)
(* asks for the status of that id.  The gateway (gateway.cpp,              *)
(* gateway/http_handler.cpp) has a detached thread for each connection,    *)
(* which reads one request, calls the scheduler if need be, writes one     *)
(* response and closes.  It keeps nothing between requests.                *)
(*                                                                         *)
(* The scheduler is the module TaskDispatcher with all its steps and       *)
(* faults; its submissions are those the gateway's calls begin.            *)
(***************************************************************************)
EXTENDS TaskDispatcher

CONSTANTS
    Client,     \* clients with an order each
    Conn,       \* bound: connections that are open at a time
    NoSuch,     \* an id that no submission was given
    MaxFaults   \* bound: crashes, failed connections, upsets and ids that are
                \* refused, together

ASSUME ClientsAssumption ==
    None \notin Client \cup Conn /\ NoSuch \notin Task \cup {None}
ASSUME AltogetherAssumption == MaxFaults \in Nat

VARIABLES
    gw,         \* the gateway process, "up" or "down"
    net,        \* each connection with its thread, request and response
    cut,        \* connections whose call was open when the scheduler died or
                \* the channel to it broke
    order,      \* what each client has been told: the id and the status
    \* history, read by no action
    made,       \* for whom a task was submitted
    upsets,     \* exits of the gateway, clients that hung up, broken channels
    refused     \* submissions for which nextId threw

gatewayVars == <<gw, net, cut, order, made, upsets, refused>>
allVars == <<vars, gatewayVars>>

\* Requests that are answered without the scheduler: /health, /stats and
\* /queue, any other route, GET /task without an id, and requests that make
\* stoi throw (Content-Length, priority).
Local == {"fixed", "nowhere", "noId", "malformed"}
Requests == Local \cup {"submit", "status", "workers"}

Idle == [pc |-> "free", by |-> None, left |-> FALSE, op |-> "fixed", id |-> None,
         code |-> 0, told |-> "nothing"]

Faults == crashes + breaks + upsets

Room == Faults + refused < MaxFaults

Spare(fault) == Room /\ fault

Fresh == {t \in Task : sub[t] = "none"}
NextId == CHOOSE t \in Fresh : TRUE

\* What the integer status of an answer may mean; "other" is not an enum value.
Statuses == {"pending", "running", "other"}

GInit ==
    /\ Init
    /\ gw = "up" /\ cut = {} /\ upsets = 0 /\ refused = 0
    /\ net = [k \in Conn |-> Idle]
    /\ order = [c \in Client |-> [id |-> None, seen |-> "nothing"]]
    /\ made = [t \in Task |-> None]

\* Connections are alike; the next one takes a free place.
FreeConns == {k \in Conn : net[k].pc = "free"}
NextConn == IF FreeConns = {} THEN None ELSE CHOOSE k \in FreeConns : TRUE

Respond(k, code, told) ==
    /\ net' = [net EXCEPT ![k] = IF @.left THEN Idle
                 ELSE [@ EXCEPT !.pc = "writing", !.code = code, !.told = told]]
    /\ cut' = cut \ {k}

-----------------------------------------------------------------------------
(* Clients.  The first of the requests are those of an order, the others   *)
(* come from anybody and change nothing.                                   *)

Open(c, k, op, id) ==
    /\ gw = "up" /\ k = NextConn
    /\ \A j \in Conn : net[j].by # c \/ net[j].left
    /\ net' = [net EXCEPT ![k] = [Idle EXCEPT !.pc = "reading", !.by = c, !.op = op,
                                               !.id = id]]
    /\ UNCHANGED <<vars, gw, cut, order, made, upsets, refused>>

\* The ids of an instance are finite: no submission begins without one.
Unserved == {k \in Conn : net[k].op = "submit" /\ net[k].id = None}

Insist(c, k) ==
    IF order[c].id = None
    THEN Cardinality(Unserved) < Cardinality(Fresh) /\ Open(c, k, "submit", None)
    ELSE order[c].seen # "running" /\ Open(c, k, "status", order[c].id)

\* A client looks around before it orders.
Visit(c, k) ==
    /\ \A t \in Task : made[t] # c
    /\ (\E op \in Local \cup {"workers"} : Open(c, k, op, None)) \/ Open(c, k, "status", NoSuch)

\* What is left of a connection when either end goes away: a call that the
\* scheduler has not begun may still be served, for nobody.  One it has begun
\* goes on there, and its reply is of no use.
Abandoned(r) ==
    IF r.pc = "call" /\ r.op = "submit" /\ r.id = None
    THEN [r EXCEPT !.left = TRUE] ELSE Idle

\* A client hangs up; its thread notices when it reads or writes.
HangUp(k) ==
    /\ Room
    /\ net[k].pc # "free" /\ ~net[k].left
    /\ upsets' = upsets + 1
    /\ net' = [net EXCEPT ![k] = Abandoned(@)]
    /\ cut' = {j \in cut : net'[j].pc = "call"}
    /\ UNCHANGED <<vars, gw, order, made, refused>>

-----------------------------------------------------------------------------
(* handleConnection: read and route, call, write and close.                *)

\* Wrong variant: a POST falls through the routes.
ReadGetsOnly(k) ==
    /\ net[k].pc = "reading"
    /\ IF net[k].op = "submit" THEN Respond(k, 404, "nothing")
       ELSE net' = [net EXCEPT ![k].pc = "call"] /\ UNCHANGED cut
    /\ UNCHANGED <<vars, gw, order, made, upsets, refused>>

Read(k) ==
    /\ net[k].pc = "reading"
    /\ CASE net[k].op = "malformed" -> net' = [net EXCEPT ![k] = Idle] /\ UNCHANGED cut
         [] net[k].op = "fixed" -> Respond(k, 200, "nothing")
         [] net[k].op = "nowhere" -> Respond(k, 404, "nothing")
         [] net[k].op = "noId" -> Respond(k, 400, "nothing")
         [] OTHER -> net' = [net EXCEPT ![k].pc = "call"] /\ UNCHANGED cut
    /\ UNCHANGED <<vars, gw, order, made, upsets, refused>>

Calls(k, op) == net[k].pc = "call" /\ net[k].op = op

\* SchedulerServiceImpl::SubmitTask begins: an id, and the record.
Submitting(k) ==
    /\ Calls(k, "submit") /\ net[k].id = None /\ k \notin cut
    /\ Fresh # {}
    /\ \/ \E p \in Priorities : SubmitSave(NextId, p) \/ Spare(BreakSave(NextId, p))
       \/ SubmitRefused(NextId)
    /\ net' = [net EXCEPT ![k] = IF @.left THEN Idle ELSE [@ EXCEPT !.id = NextId]]
    /\ made' = [made EXCEPT ![NextId] = net[k].by]
    /\ UNCHANGED <<gw, cut, order, upsets, refused>>

\* Snowflake::nextId throws while the clock is behind its last id, and the
\* exception leaves SubmitTask: the call ends with UNKNOWN, answered 503.
NoNextId(k) ==
    /\ Calls(k, "submit") /\ net[k].id = None /\ k \notin cut /\ proc # "down"
    /\ Room
    /\ refused' = refused + 1
    /\ Respond(k, 503, "nothing")
    /\ UNCHANGED <<vars, gw, order, made, upsets>>

\* Wrong variant: a scheduler that is stopping takes its answer back.
SubmitRepliesWhileUp(k) ==
    /\ Calls(k, "submit") /\ net[k].id # None /\ k \notin cut
    /\ sub[net[k].id] \in {"accepted", "rejected"}
    /\ Respond(k, IF sub[net[k].id] = "accepted" /\ proc = "up" THEN 200 ELSE 500, "nothing")
    /\ UNCHANGED <<vars, gw, order, made, upsets, refused>>

SubmitReplies(k) ==
    /\ Calls(k, "submit") /\ net[k].id # None /\ k \notin cut
    /\ sub[net[k].id] \in {"accepted", "rejected"}
    /\ Respond(k, IF sub[net[k].id] = "accepted" THEN 200 ELSE 500, "nothing")
    /\ UNCHANGED <<vars, gw, order, made, upsets, refused>>

\* Wrong variant: concludes from the lists that the task is at a worker.
StatusInferred(k) ==
    /\ Calls(k, "status") /\ k \notin cut /\ proc # "down"
    /\ Respond(k, 200, IF net[k].id \in AllQueued THEN "pending" ELSE "running")
    /\ UNCHANGED <<vars, gw, order, made, upsets, refused>>

\* GetTaskStatus.  getTask sets the id before it reads the record, so that an
\* empty hash is "found", with integers that nobody has set; only without any
\* connection is there no id.
StatusReplies(k) ==
    /\ Calls(k, "status") /\ k \notin cut /\ proc # "down"
    /\ \/ net[k].id \in Task /\ Respond(k, 200, status[net[k].id])
       \/ /\ net[k].id = NoSuch \/ "dead" \in pool
          /\ \E s \in Statuses : Respond(k, 200, s)
       \/ "dead" \in pool /\ Respond(k, 404, "nothing")
    /\ UNCHANGED <<vars, gw, order, made, upsets, refused>>

WorkersReplies(k) ==
    /\ Calls(k, "workers") /\ k \notin cut /\ proc # "down"
    /\ Respond(k, 200, "nothing")
    /\ UNCHANGED <<vars, gw, order, made, upsets, refused>>

\* Wrong variant: the call waits until the scheduler can be reached.
CallFailsIfCut(k) ==
    /\ net[k].pc = "call" /\ k \in cut
    /\ Respond(k, 503, "nothing")
    /\ UNCHANGED <<vars, gw, order, made, upsets, refused>>

\* The channel breaks with both processes up. What the scheduler has begun goes
\* on there; a request that reaches it only as the channel breaks has begun.
ChannelBreaks(k) ==
    /\ net[k].pc = "call" /\ k \notin cut /\ Room
    /\ upsets' = upsets + 1
    /\ cut' = cut \cup {k}
    /\ UNCHANGED <<vars, gw, net, order, made, refused>>

\* The scheduler cannot be reached, or died or was cut off during the call: no
\* deadline, no retry, 503.
CallFails(k) ==
    /\ net[k].pc = "call"
    /\ k \in cut \/ (proc = "down" /\ ~(Calls(k, "submit") /\ net[k].id # None))
    /\ Respond(k, 503, "nothing")
    /\ UNCHANGED <<vars, gw, order, made, upsets, refused>>

\* The client learns an id from a 200 to its POST and a status from one to its GET.
Told(o, r) ==
    IF r.code # 200 THEN o
    ELSE IF r.op = "submit" THEN [o EXCEPT !.id = r.id]
    ELSE IF r.op = "status" /\ r.id = o.id THEN [o EXCEPT !.seen = r.told]
    ELSE o

\* Wrong variant: the place of the connection is used again as it was left.
WriteLeavesRequest(k) ==
    /\ net[k].pc = "writing"
    /\ order' = [order EXCEPT ![net[k].by] = Told(@, net[k])]
    /\ net' = [net EXCEPT ![k].pc = "free"]
    /\ UNCHANGED <<vars, gw, cut, made, upsets, refused>>

Write(k) ==
    /\ net[k].pc = "writing"
    /\ order' = [order EXCEPT ![net[k].by] = Told(@, net[k])]
    /\ net' = [net EXCEPT ![k] = Idle]
    /\ UNCHANGED <<vars, gw, cut, made, upsets, refused>>

Serve(k) ==
    \/ Read(k) \/ Submitting(k) \/ NoNextId(k) \/ SubmitReplies(k)
    \/ StatusReplies(k) \/ WorkersReplies(k) \/ CallFails(k) \/ Write(k)

-----------------------------------------------------------------------------
(* The process.  main leaves io_context_, the detached threads die with    *)
(* it; a call that has reached the scheduler goes on there for nobody.     *)

GatewayExit ==
    /\ gw = "up" /\ Room
    /\ upsets' = upsets + 1
    /\ gw' = "down"
    /\ net' = [k \in Conn |-> Abandoned(net[k])]
    /\ cut' = {j \in cut : net'[j].pc = "call"}
    /\ UNCHANGED <<vars, order, made, refused>>

GatewayStart ==
    /\ gw = "down"
    /\ gw' = "up"
    /\ UNCHANGED <<vars, net, cut, order, made, upsets, refused>>

-----------------------------------------------------------------------------
\* What the scheduler does by itself: everything but beginning a submission.
SchedulerStep ==
    \/ Dispatch \/ Environment
    \/ \E t \in Task : SubmitPush(t) \/ \E executed \in BOOLEAN : Spare(BreakPush(t, executed))
    \/ (\E c \in Classes : Spare(BreakLpop(c))) \/ Spare(BreakLoop)

SchedulerCrash ==
    /\ Spare(Crash)
    /\ cut' = {k \in Conn : net[k].pc = "call"}
    /\ UNCHANGED <<gw, net, order, made, upsets, refused>>

GNext ==
    \/ \E c \in Client, k \in Conn : Insist(c, k) \/ Visit(c, k)
    \/ \E k \in Conn : Serve(k) \/ HangUp(k) \/ ChannelBreaks(k)
    \/ GatewayExit \/ GatewayStart
    \/ SchedulerStep /\ UNCHANGED gatewayVars
    \/ SchedulerCrash

GSpec == GInit /\ [][GNext]_allVars

\* Besides the threads of the scheduler: a thread that can go on does, and a
\* client makes its next request in spite of other connections.
GFairness ==
    /\ WF_allVars(Dispatch /\ UNCHANGED gatewayVars)
    /\ \A t \in Task : WF_allVars(SubmitPush(t) /\ UNCHANGED gatewayVars)
    /\ \A k \in Conn : WF_allVars(Serve(k))
    /\ \A c \in Client : SF_allVars(\E k \in Conn : Insist(c, k))

GFairSpec == GSpec /\ GFairness
-----------------------------------------------------------------------------
ConnType ==
    [pc : {"free", "reading", "call", "writing"}, by : Client \cup {None},
     left : BOOLEAN, op : Requests, id : Task \cup {None, NoSuch},
     code : {0, 200, 400, 404, 500, 503}, told : Statuses \cup {"nothing"}]

(* The thread of a connection has a client and a request; a client has     *)
(* been told an id before it is told a status.                             *)
GTypeOK ==
    /\ gw \in {"up", "down"}
    /\ net \in [Conn -> ConnType] /\ cut \subseteq Conn
    /\ \A k \in Conn : net[k].pc = "free" <=> net[k].by = None
    /\ order \in [Client -> [id : Task \cup {None}, seen : Statuses \cup {"nothing"}]]
    /\ \A c \in Client : order[c].seen # "nothing" => order[c].id # None
    /\ made \in [Task -> Client \cup {None}]
    /\ upsets \in 0..MaxFaults /\ refused \in 0..MaxFaults

\* The task is queued, in the dispatcher's hands, or handed to a worker.
InTheSystem(t) == t \in AllQueued \/ (Holding /\ dtask = t) \/ status[t] = "running"

(* The gateway gives a request no identity, so that a client who posts     *)
(* again after a 500, a 503 or a closed connection may create a second     *)
(* task (http_handler.cpp:106-120).  But each task beyond the first takes  *)
(* a fault: a crash, a failed connection, an exit of the gateway, a client *)
(* that hangs up or a channel that breaks.  Orderly shutdowns and restarts *)
(* of the scheduler, and ids it refuses, never make a client submit twice. *)
OneTaskPerOrder ==
    \A c \in Client :
        Cardinality({t \in Task : made[t] = c /\ InTheSystem(t)})
            <= 1 + Faults

(* As long as no connection has failed, what a client is told of its task  *)
(* is what the record said: running only if it has been handed over.  (A   *)
(* failed one makes getTask answer with integers that nobody has set.)     *)
ToldTheTruth ==
    breaks = 0 => \A c \in Client :
        order[c].seen # "nothing" =>
            /\ order[c].seen \in {"pending", "running"}
            /\ order[c].seen = "running" => status[order[c].id] = "running"

(* From end to end: a client that insists is told that its task runs,      *)
(* through restarts of both processes, if they stay up in the end and some *)
(* worker can be selected.                                                 *)
EveryOrderRuns ==
    NoFaults /\ <>[](proc = "up" /\ gw = "up") /\ <>[](Selectable # {})
        => \A c \in Client : []<>(order[c].seen = "running")

(* No thread of the gateway waits for ever: a call ends, also when the     *)
(* scheduler is down, dies, or never comes back.                           *)
CallsEnd == \A k \in Conn : []<>(net[k].pc # "call")

(* scheduler.cpp:75 has the reply "Task not found", and the gateway the    *)
(* code 404 for it: the answer about an id nobody was given.               *)
UnknownIsNotFound ==
    \A k \in Conn : net[k].id = NoSuch /\ net[k].code # 0 => net[k].code \in {404, 503}
=============================================================================
