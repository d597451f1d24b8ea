--------------------------- MODULE ServiceRegistry ---------------------------
(***************************************************************************)
(* One service id in etcd and the processes that register under it, one    *)
(* after the other (a worker and its successor) or at once (instances with *)
(* the same configured id).  A process has a main thread (registerService, *)
(* getServices, shutdown) and a refresh thread (startRefreshLoop), which   *)
(* share the registry's mutex_; it is held while requests are made.        *)
(*                                                                         *)
(* One action is one request to etcd, or one step of a thread between      *)
(* requests.  Time is counted in refresh intervals of 5 seconds.  The      *)
(* entries of other ids and the services themselves are left out: requests *)
(* name the key, and the value of the entry is put back as it was read.    *)
(***************************************************************************)
EXTENDS Integers

CONSTANTS
    Process,    \* processes with this service id; each is started once
    Lister,     \* those that read the registry each second: schedulers
    Tardy,      \* bound: those whose puts may be executed late
    Ttl,        \* ticks a lease is granted for: 10 seconds are 2
    NoOne       \* no process

ASSUME RegistryAssumption ==
    Lister \cup Tardy \subseteq Process /\ NoOne \notin Process /\ Ttl \in Nat \ {0}

VARIABLES
    m,          \* where the main thread of each process is
    r,          \* where its refresh thread is
    lease,      \* ticks left of the lease it was granted last
    entry,      \* ticks left of the lease of /services/<name>/<id>
    by,         \* the process whose lease that is
    late,       \* ticks left of the lease of a put that its process has given
                \* up waiting for and etcd has not executed yet
    \* history, read by no action
    crashed,    \* processes that did not end by shutdown
    uncleaned,  \* processes whose revoke or delete was not confirmed, or was
                \* overtaken by a put that came late
    healthy,    \* every request answered, none lasting over a tick
    sharing,    \* two processes have been up at once
    idle        \* ticks since a process was up, counted to Ttl + 1

etcdVars == <<entry, by, late>>
history == <<crashed, uncleaned, healthy, sharing, idle>>
vars == <<m, r, lease, etcdVars, history>>

Gone == -1
Older(ticks) == IF ticks = Gone THEN Gone ELSE ticks - 1

Listed == entry # Gone

Alive == {p \in Process : m[p] \notin {"new", "down"}}

\* running_: set by startRefreshLoop, reset by stopRefreshLoop.
Running(p) == m[p] \in {"run", "list"}

\* service_name_ and service_id_ are set and the refresh thread was started.
Registered(p) == r[p] # "none"

\* Wrong variant: stopRefreshLoop joins with the mutex held.
MainHoldsWhileJoining(p) == m[p] \in {"grant", "put", "revoke", "list", "stop", "delete"}

\* mutex_ of the registry.
MainHolds(p) == m[p] \in {"grant", "put", "revoke", "list", "delete"}
RefreshHolds(p) == r[p] \in {"get", "grant", "put"}

\* What becomes of a request: executed and answered, executed without an
\* answer that arrives, not executed.  A put may also time out and be executed
\* afterwards.  (So may a delete or a revoke; what it removes then is missed
\* by nobody whose requests are answered, and it is taken as not executed.)
Answers == {"ok", "lost", "refused"}
PutAnswers(p) == IF p \in Tardy /\ late[p] = Gone THEN Answers \cup {"late"} ELSE Answers
Executed(a) == a \in {"ok", "lost"}
Noted(a) == healthy' = (healthy /\ a = "ok")

\* PUT of the key with the lease; etcd refuses a lease that has run out.
PutEntry(p, a) ==
    /\ Noted(a)
    /\ a # "refused" => lease[p] # Gone
    /\ IF Executed(a) THEN entry' = lease[p] /\ by' = p ELSE UNCHANGED <<entry, by>>
    /\ late' = IF a = "late" THEN [late EXCEPT ![p] = lease[p]] ELSE late

DeleteEntry == entry' = Gone /\ by' = NoOne

\* POST lease/grant; without an answer the lease is of no use to anybody.
Grant(p, a, ttl) ==
    /\ Noted(a)
    /\ lease' = [lease EXCEPT ![p] = IF a = "ok" THEN ttl ELSE Gone]

-----------------------------------------------------------------------------
Init ==
    /\ m = [p \in Process |-> "new"]
    /\ r = [p \in Process |-> "none"]
    /\ lease = [p \in Process |-> Gone]
    /\ entry = Gone /\ by = NoOne /\ late = [p \in Process |-> Gone]
    /\ crashed = {} /\ uncleaned = {}
    /\ healthy = TRUE /\ sharing = FALSE /\ idle = 0

-----------------------------------------------------------------------------
(* The main thread.                                                        *)

Start(p) ==
    /\ m[p] = "new"
    /\ m' = [m EXCEPT ![p] = "grant"]
    /\ sharing' = (sharing \/ Alive # {})
    /\ idle' = 0
    /\ UNCHANGED <<r, lease, etcdVars, crashed, uncleaned, healthy>>

RegisterGrant(p, a) ==
    /\ m[p] = "grant"
    /\ Grant(p, a, Ttl)
    /\ m' = [m EXCEPT ![p] = IF a = "ok" THEN "put" ELSE "run"]
    /\ UNCHANGED <<r, etcdVars, crashed, uncleaned, sharing, idle>>

\* Wrong variant: leaves the lease when the put is not confirmed.
RegisterPutKeepsLease(p, a) ==
    /\ m[p] = "put"
    /\ PutEntry(p, a)
    /\ m' = [m EXCEPT ![p] = "run"]
    /\ r' = [r EXCEPT ![p] = IF a = "ok" THEN "top" ELSE "none"]
    /\ UNCHANGED <<lease, crashed, uncleaned, sharing, idle>>

\* On success the caller starts the refresh thread, else it goes on without.
RegisterPut(p, a) ==
    /\ m[p] = "put"
    /\ PutEntry(p, a)
    /\ m' = [m EXCEPT ![p] = IF a = "ok" THEN "run" ELSE "revoke"]
    /\ r' = [r EXCEPT ![p] = IF a = "ok" THEN "top" ELSE "none"]
    /\ UNCHANGED <<lease, crashed, uncleaned, sharing, idle>>

\* etcd deletes the keys of a revoked lease, and refuses a put that names it.
RegisterRevoke(p, a) ==
    /\ m[p] = "revoke"
    /\ Noted(a)
    /\ IF Executed(a) /\ by = p THEN DeleteEntry ELSE UNCHANGED <<entry, by>>
    /\ late' = IF Executed(a) THEN [late EXCEPT ![p] = Gone] ELSE late
    /\ m' = [m EXCEPT ![p] = "run"]
    /\ uncleaned' = IF a = "ok" THEN uncleaned ELSE uncleaned \cup {p}
    /\ UNCHANGED <<r, lease, crashed, sharing, idle>>

\* getServices of the scheduler's loop, as far as it keeps the mutex.
ListBegin(p) ==
    /\ p \in Lister /\ m[p] = "run" /\ ~RefreshHolds(p)
    /\ m' = [m EXCEPT ![p] = "list"]
    /\ UNCHANGED <<r, lease, etcdVars, history>>

ListEnd(p) ==
    /\ m[p] = "list"
    /\ m' = [m EXCEPT ![p] = "run"]
    /\ UNCHANGED <<r, lease, etcdVars, history>>

\* SIGTERM ends the loop of main, which calls shutdown: running_ = false.
Stop(p) ==
    /\ m[p] = "run"
    /\ m' = [m EXCEPT ![p] = "stop"]
    /\ UNCHANGED <<r, lease, etcdVars, history>>

\* The refresh thread has ended; the mutex is taken if there is a name to delete.
Join(p) ==
    /\ m[p] = "stop"
    /\ r[p] \in {"none", "ended"}
    /\ m' = [m EXCEPT ![p] = IF Registered(p) THEN "delete" ELSE "down"]
    /\ UNCHANGED <<r, lease, etcdVars, history>>

Deregister(p, a) ==
    /\ m[p] = "delete"
    /\ Noted(a)
    /\ IF Executed(a) THEN DeleteEntry ELSE UNCHANGED <<entry, by>>
    /\ UNCHANGED late
    /\ m' = [m EXCEPT ![p] = "down"]
    /\ uncleaned' = IF a = "ok" THEN uncleaned ELSE uncleaned \cup {p}
    /\ UNCHANGED <<r, lease, crashed, sharing, idle>>

Register(p) ==
    \/ \E a \in Answers : RegisterGrant(p, a) \/ RegisterRevoke(p, a)
    \/ \E a \in PutAnswers(p) : RegisterPut(p, a)

Main(p) ==
    \/ Register(p) \/ ListEnd(p) \/ Join(p)
    \/ \E a \in Answers : Deregister(p, a)

-----------------------------------------------------------------------------
(* The refresh thread.                                                     *)

RefreshTo(p, pc) == r' = [r EXCEPT ![p] = pc]

RefreshTop(p) ==
    /\ r[p] = "top"
    /\ RefreshTo(p, IF Running(p) THEN "sleep" ELSE "ended")
    /\ UNCHANGED <<m, lease, etcdVars, history>>

\* running_ is read again once the mutex is held.
RefreshLock(p) ==
    /\ r[p] = "lock" /\ ~MainHolds(p)
    /\ RefreshTo(p, IF Running(p) THEN "get" ELSE "ended")
    /\ UNCHANGED <<m, lease, etcdVars, history>>

\* Without a value, or without an answer, there is nothing to put back.
RefreshGet(p, a) ==
    /\ r[p] = "get"
    /\ Noted(a)
    /\ RefreshTo(p, IF a = "ok" /\ Listed THEN "grant" ELSE "top")
    /\ UNCHANGED <<m, lease, etcdVars, crashed, uncleaned, sharing, idle>>

\* Wrong variant: refreshes with a lifetime of its own.
RefreshGrantLonger(p, a) ==
    /\ r[p] = "grant"
    /\ Grant(p, a, Ttl + 1)
    /\ RefreshTo(p, IF a = "ok" THEN "put" ELSE "top")
    /\ UNCHANGED <<m, etcdVars, crashed, uncleaned, sharing, idle>>

RefreshGrant(p, a) ==
    /\ r[p] = "grant"
    /\ Grant(p, a, Ttl)
    /\ RefreshTo(p, IF a = "ok" THEN "put" ELSE "top")
    /\ UNCHANGED <<m, etcdVars, crashed, uncleaned, sharing, idle>>

\* Wrong variant: writes the value and leaves the key with the lease it had.
RefreshPutSameLease(p, a) ==
    /\ r[p] = "put"
    /\ Noted(a)
    /\ RefreshTo(p, "top")
    /\ UNCHANGED <<m, lease, etcdVars, crashed, uncleaned, sharing, idle>>

RefreshPut(p, a) ==
    /\ r[p] = "put"
    /\ PutEntry(p, a)
    /\ RefreshTo(p, "top")
    /\ UNCHANGED <<m, lease, crashed, uncleaned, sharing, idle>>

Refresh(p) ==
    \/ RefreshTop(p) \/ RefreshLock(p)
    \/ \E a \in Answers : RefreshGet(p, a) \/ RefreshGrant(p, a)
    \/ \E a \in PutAnswers(p) : RefreshPut(p, a)

-----------------------------------------------------------------------------
Crash(p) ==
    /\ p \in Alive
    /\ m' = [m EXCEPT ![p] = "down"]
    /\ r' = [r EXCEPT ![p] = IF @ = "none" THEN @ ELSE "ended"]
    /\ crashed' = crashed \cup {p}
    /\ UNCHANGED <<lease, etcdVars, uncleaned, healthy, sharing, idle>>

\* A thread of p has something to do before the next tick.
Busy(p) ==
    \/ m[p] \in {"grant", "put", "revoke", "list", "delete"}
    \/ m[p] = "stop" /\ r[p] \in {"none", "ended"}
    \/ r[p] \in {"top", "lock", "get", "grant", "put"}

\* A refresh interval: sleepers wake up, leases grow older.
Tick ==
    /\ r' = [p \in Process |-> IF r[p] = "sleep" THEN "lock" ELSE r[p]]
    /\ lease' = [p \in Process |-> Older(lease[p])]
    /\ late' = [p \in Process |-> Older(late[p])]
    /\ entry' = Older(entry)
    /\ by' = IF entry' = Gone THEN NoOne ELSE by
    /\ healthy' = (healthy /\ \A p \in Process : ~Busy(p))
    /\ idle' = IF Alive # {} \/ idle > Ttl THEN idle ELSE idle + 1
    /\ UNCHANGED <<m, crashed, uncleaned, sharing>>

\* A lease of two ticks, granted between two of them, ends between two.
Expire ==
    /\ entry = 0
    /\ DeleteEntry
    /\ UNCHANGED <<m, r, lease, late, history>>

\* etcd executes a put its process has given up, which may be gone by now.
PutLate(p) ==
    /\ late[p] # Gone
    /\ entry' = late[p] /\ by' = p
    /\ late' = [late EXCEPT ![p] = Gone]
    /\ uncleaned' = IF m[p] = "down" THEN uncleaned \cup {p} ELSE uncleaned
    /\ UNCHANGED <<m, r, lease, crashed, healthy, sharing, idle>>

Next ==
    \/ \E p \in Process : \/ Start(p) \/ Main(p) \/ ListBegin(p) \/ Stop(p) \/ Refresh(p)
                          \/ Crash(p) \/ PutLate(p)
    \/ Tick \/ Expire

Spec == Init /\ [][Next]_vars
-----------------------------------------------------------------------------
(* The two threads are where their code can be; the entry has a lease, and *)
(* hence an owner, and never one longer than a process may be granted.     *)
TypeOK ==
    /\ m \in [Process -> {"new", "grant", "put", "revoke", "run", "list", "stop",
                          "delete", "down"}]
    /\ r \in [Process -> {"none", "top", "sleep", "lock", "get", "grant", "put", "ended"}]
    /\ lease \in [Process -> Gone..Ttl]
    /\ entry \in Gone..Ttl /\ by \in Process \cup {NoOne}
    /\ Listed <=> by # NoOne
    /\ late \in [Process -> Gone..Ttl]
    /\ crashed \subseteq Process /\ uncleaned \subseteq Process
    /\ healthy \in BOOLEAN /\ sharing \in BOOLEAN /\ idle \in 0..(Ttl + 1)

(* A service all of whose processes are gone, in whatever way and in the   *)
(* middle of whatever request, is listed no longer than one lease lasts:   *)
(* every put of registerService and of refreshService has a lease.         *)
DeadIsDelisted == Listed => idle <= Ttl

(* shutdown and the failing paths of registerService clean up: what a      *)
(* process has put is gone when it has ended, unless it crashed, or etcd   *)
(* did not confirm the delete or the revoke, or executes a put only then.  *)
(* No refresh slips in behind.                                             *)
NothingLeftBehind ==
    \A p \in Process \ (crashed \cup uncleaned) : m[p] = "down" => by # p

(* A lease outlasts an interval: a registered process stays listed while   *)
(* requests are answered in time, also when it follows a crashed one whose *)
(* lease still runs, and while its main thread holds the mutex.            *)
HealthyIsListed ==
    healthy /\ ~sharing =>
        \A p \in Process : Registered(p) /\ m[p] \in {"run", "list", "stop"} => Listed
=============================================================================
