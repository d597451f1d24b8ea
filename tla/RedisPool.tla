----------------------------- MODULE RedisPool -----------------------------
(***************************************************************************)
(* How threads come by a Redis connection.  The threads of the scheduler   *)
(* take one from the pool, issue commands and give it back (RedisPool, the *)
(* functions of TaskDispatcher).  The gRPC threads of the tracker and of   *)
(* stats all use the one RedisClient that main has connected, without a    *)
(* lock.  A command is written to the connection and its reply is read     *)
(* from it, in two steps; Redis answers a connection in order.             *)
(***************************************************************************)
EXTENDS Integers, Sequences, FiniteSets

CONSTANTS
    User,       \* threads of the scheduler that use the pool
    Reporter,   \* those that call completeTask, failTask or retryTask
    Direct,     \* threads of a process with one connection for all
    PoolSize,   \* connections the pool tries to open at the start
    MaxBreaks,  \* bound: failures of connections and outages of Redis
    MaxMissing  \* bound: places lost while a counter's key is missing

ASSUME PoolAssumption ==
    /\ Reporter \subseteq User /\ User \cap Direct = {}
    /\ PoolSize \in Nat /\ MaxBreaks \in Nat /\ MaxMissing \in Nat

VARIABLES
    redis,      \* "up" or "down"
    pool,       \* pool_, in_use_, and of each connection err and the replies
    shared,     \* the one connection of the Direct threads
    conn,       \* the place in the pool of each user's connection, 0 for none
    pc,         \* what each thread is at
    breaks,
    \* history, read by no action
    opened,     \* connections the constructor has opened
    peak,       \* the most users and lost places at a time
    leaked,     \* places whose user has thrown away the connection
    overlapped  \* two Direct threads have used their connection at once

history == <<opened, peak, leaked, overlapped>>
vars == <<redis, pool, shared, conn, pc, breaks, history>>

Thread == User \cup Direct

NewConn(used) == [used |-> used, err |-> FALSE, replies |-> <<>>]

\* A failed connection delivers nothing any more: hiredis keeps the error.
Failed(c) == [c EXCEPT !.err = TRUE, !.replies = <<>>]

Places == DOMAIN pool
Used == {i \in Places : pool[i].used}
Holders == {u \in User : conn[u] # 0}

At(u) == IF u \in Direct THEN shared ELSE pool[conn[u]]

PutAt(u, c) ==
    IF u \in Direct THEN shared' = c /\ UNCHANGED pool
    ELSE pool' = [pool EXCEPT ![conn[u]] = c] /\ UNCHANGED shared

\* A thread that has had a reply since it took its connection is "replied",
\* or "again" while it waits for another; before that "has" and "sent".
Waiting(u) == pc[u] \in {"sent", "again"}

To(u, where) == pc' = [pc EXCEPT ![u] = where]

Init ==
    /\ redis = "up"
    /\ opened \in 0..PoolSize
    /\ pool = [i \in 1..opened |-> NewConn(FALSE)]
    /\ shared = NewConn(TRUE)
    /\ conn = [u \in User |-> 0]
    /\ pc = [u \in Thread |-> "idle"]
    /\ breaks = 0 /\ peak = 0 /\ leaked = 0 /\ overlapped = FALSE

-----------------------------------------------------------------------------
(* The pool, each call under its mutex.                                    *)

Busiest(holders) ==
    peak' = IF Cardinality(holders) + leaked > peak THEN Cardinality(holders) + leaked ELSE peak

Hold(u, i) ==
    /\ conn' = [conn EXCEPT ![u] = i]
    /\ To(u, "has")
    /\ Busiest(Holders \cup {u})
    /\ UNCHANGED <<redis, shared, breaks, opened, leaked, overlapped>>

Free == {i \in Places : ~pool[i].used}

\* Wrong variant: does not set in_use_.
TakeFreeUnmarked(u) ==
    /\ pc[u] = "idle" /\ Free # {}
    /\ \E i \in Free : (\A j \in Free : i <= j) /\ Hold(u, i)
    /\ UNCHANGED pool

\* The first free place.  connected_ is never reset, so that isConnected()
\* holds and connect() is not called, whatever became of the connection.
TakeFree(u) ==
    /\ pc[u] = "idle" /\ Free # {}
    /\ \E i \in Free :
        /\ \A j \in Free : i <= j
        /\ pool' = [pool EXCEPT ![i].used = TRUE]
        /\ Hold(u, i)

\* Wrong variant: opens a connection rather than take one that has failed.
OpenNewer(u) ==
    /\ pc[u] = "idle" /\ redis = "up"
    /\ \A i \in Free : pool[i].err
    /\ pool' = Append(pool, NewConn(TRUE))
    /\ Hold(u, Len(pool'))

\* With every place in use a new connection is opened; without Redis there is
\* none, and the caller gives up.
OpenNew(u) ==
    /\ pc[u] = "idle" /\ Free = {} /\ redis = "up"
    /\ pool' = Append(pool, NewConn(TRUE))
    /\ Hold(u, Len(pool'))

GetConnection(u) == TakeFree(u) \/ OpenNew(u)

\* Wrong variant: the caller goes on with the connection it has given back.
ReturnKeeps(u) ==
    /\ pc[u] \in {"has", "replied"}
    /\ pool' = [pool EXCEPT ![conn[u]].used = FALSE]
    /\ To(u, "idle")
    /\ UNCHANGED <<redis, shared, conn, breaks, history>>

ReturnConnection(u) ==
    /\ pc[u] \in {"has", "replied"}
    /\ pool' = [pool EXCEPT ![conn[u]].used = FALSE]
    /\ conn' = [conn EXCEPT ![u] = 0]
    /\ To(u, "idle")
    /\ UNCHANGED <<redis, shared, breaks, history>>

\* decrementWorkerLoad: stoll of the empty string, after HGET had named a worker.
\* The GET has failed, or there is no key worker:load:<id>, as between the HSET
\* and the INCR of a hand-over.  Nobody gives the connection back.
Throw(u) ==
    /\ u \in Reporter /\ pc[u] = "replied"
    /\ pool[conn[u]].err \/ leaked < MaxMissing
    /\ leaked' = leaked + 1
    /\ conn' = [conn EXCEPT ![u] = 0]
    /\ To(u, "idle")
    /\ UNCHANGED <<redis, pool, shared, breaks, opened, peak, overlapped>>

-----------------------------------------------------------------------------
(* Commands.  On a failed connection they return at once, with nothing.    *)

Sharing(u) == u \in Direct /\ \E v \in Direct \ {u} : Waiting(v)

Ready(u) == pc[u] \in (IF u \in Direct THEN {"idle"} ELSE {"has", "replied"})

Send(u) ==
    /\ Ready(u) /\ ~At(u).err
    /\ PutAt(u, [At(u) EXCEPT !.replies = Append(@, u)])
    /\ To(u, IF pc[u] = "replied" THEN "again" ELSE "sent")
    /\ overlapped' = (overlapped \/ Sharing(u))
    /\ UNCHANGED <<redis, conn, breaks, opened, peak, leaked>>

\* The next reply on the connection, whosoever it is.
Receive(u) ==
    /\ Waiting(u) /\ At(u).replies # <<>>
    /\ PutAt(u, [At(u) EXCEPT !.replies = Tail(@)])
    /\ To(u, IF u \in Direct THEN "idle" ELSE "replied")
    /\ UNCHANGED <<redis, conn, breaks, history>>

\* redisCommand returns a null pointer; connected_ stays.
Fail(u) ==
    /\ Waiting(u) /\ At(u).err
    /\ To(u, IF u \in Direct THEN "idle" ELSE IF pc[u] = "again" THEN "replied" ELSE "has")
    /\ UNCHANGED <<redis, pool, shared, conn, breaks, history>>

-----------------------------------------------------------------------------
(* Faults.                                                                 *)

Struck == breaks < MaxBreaks /\ breaks' = breaks + 1

\* Wrong variant: the error is forgotten, the reply comes late.
BreakForgets(i) ==
    /\ Struck
    /\ \E u \in User :
        /\ conn[u] = i /\ Waiting(u)
        /\ To(u, "replied")
    /\ UNCHANGED <<redis, pool, shared, conn, history>>

Break(i) ==
    /\ Struck
    /\ pool' = [pool EXCEPT ![i] = Failed(@)]
    /\ UNCHANGED <<redis, shared, conn, pc, history>>

Outage ==
    /\ redis = "up" /\ Struck
    /\ redis' = "down"
    /\ pool' = [i \in Places |-> Failed(pool[i])]
    /\ shared' = Failed(shared)
    /\ UNCHANGED <<conn, pc, history>>

RedisStarts ==
    /\ redis = "down"
    /\ redis' = "up"
    /\ UNCHANGED <<pool, shared, conn, pc, breaks, history>>

\* Two threads at once in one redisContext: the stream may be spoilt.
Garble ==
    /\ \E u \in Direct : Waiting(u) /\ Sharing(u)
    /\ shared' = Failed(shared)
    /\ UNCHANGED <<redis, pool, conn, pc, breaks, history>>

Next ==
    \/ \E u \in User : GetConnection(u) \/ ReturnConnection(u) \/ Throw(u)
    \/ \E u \in Thread : Send(u) \/ Receive(u) \/ Fail(u)
    \/ \E i \in Places : Break(i)
    \/ Outage \/ RedisStarts \/ Garble

Spec == Init /\ [][Next]_vars
-----------------------------------------------------------------------------
ConnType == [used : BOOLEAN, err : BOOLEAN, replies : Seq(Thread)]

(* The variables hold what the program can hold; a user has a connection   *)
(* exactly while it is at work, and a failed connection has no replies.    *)
TypeOK ==
    /\ redis \in {"up", "down"}
    /\ pool \in Seq(ConnType) /\ shared \in ConnType
    /\ conn \in [User -> Nat] /\ \A u \in User : conn[u] \in {0} \cup Places
    /\ pc \in [Thread -> {"idle", "has", "sent", "replied", "again"}]
    /\ \A u \in User : conn[u] = 0 <=> pc[u] = "idle"
    /\ \A i \in Places : pool[i].err => pool[i].replies = <<>>
    /\ opened \in 0..PoolSize /\ breaks \in 0..MaxBreaks
    /\ peak \in Nat /\ leaked \in Nat /\ overlapped \in BOOLEAN

(* A connection is in the hands of one thread at most, and its place is    *)
(* marked as in use until that thread gives it back, on every path: a      *)
(* place that is in use has a user, or was lost to an exception.           *)
OneUser ==
    /\ \A u, v \in Holders : conn[u] = conn[v] => u = v
    /\ \A u \in Holders : conn[u] \in Used
    /\ Cardinality(Used) = Cardinality(Holders) + leaked

(* The replies on a connection are those of the thread that waits for them:*)
(* no thread gets what another asked for, though connections pass from     *)
(* thread to thread and fail in the middle of a call.  Threads without a   *)
(* pool have that only as long as no two of their calls overlap.           *)
OwnReply ==
    \A u \in Thread :
        Waiting(u) /\ ~At(u).err =>
            At(u).replies = <<u>> \/ (u \in Direct /\ overlapped)

(* Nothing closes a connection, yet their number is not above what was     *)
(* opened at the start or needed at the busiest time, counting those that  *)
(* exceptions have lost.  In particular, outages do not add to it.         *)
PoolBounded == Len(pool) <= opened \/ Len(pool) <= peak
=============================================================================
