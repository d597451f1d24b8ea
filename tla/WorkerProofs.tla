---------------------------- MODULE WorkerProofs ----------------------------
(***************************************************************************)
(* For all sets of processes and workers and every lease time.             *)
(* Of the service registry: the variables keep their types, a dead service *)
(* is listed no longer than a lease lasts, a process that ends in order    *)
(* leaves nothing behind, and one that is up stays listed while requests   *)
(* are answered.                                                           *)
(* Of the worker: its processes use the registry as ServiceRegistry says,  *)
(* so that what is proved there holds for them; a listed worker serves.    *)
(***************************************************************************)
EXTENDS Worker, TLAPS

-----------------------------------------------------------------------------
(* The service registry.                                                   *)

(* Who may have put the entry, and where the refresh thread may be while   *)
(* the main thread is somewhere else: it exists only after a confirmed     *)
(* registration, and it has ended before the delete.                       *)
Threads ==
    \A p \in Process :
        /\ m[p] \in {"new", "grant", "put", "revoke"} => r[p] = "none"
        /\ m[p] \in {"delete", "down"} => r[p] \in {"none", "ended"}
        /\ m[p] = "delete" => r[p] = "ended"

Owner ==
    \A p \in Process :
        by = p => /\ m[p] \notin {"new", "grant", "put"}
                  /\ m[p] \in {"run", "list", "stop"} /\ r[p] = "none" => p \in uncleaned
                  /\ m[p] = "down" => p \in crashed \cup uncleaned

(* A put that may still come is that of a process that has begun to put,   *)
(* and whose revoke was not executed if it goes on without a refresh       *)
(* thread.  There is none while every request has been answered.           *)
Late ==
    \A p \in Process :
        late[p] # Gone => /\ ~healthy
                          /\ m[p] \notin {"new", "grant", "put"}
                          /\ m[p] \in {"run", "list", "stop"} /\ r[p] = "none" => p \in uncleaned

(* While somebody is up no time counts as idle; afterwards the entry grows *)
(* older with every tick, and so does the lease of a late put.             *)
Ageing ==
    /\ Alive # {} => idle = 0
    /\ Listed => entry + idle <= Ttl
    /\ \A p \in Process : late[p] # Gone => late[p] + idle <= Ttl

IInv == TypeOK /\ Threads /\ Owner /\ Late /\ Ageing

USE RegistryAssumption DEF RegistryAssumption, Gone

-----------------------------------------------------------------------------
LEMMA InitIInv == Init => IInv
<1> SUFFICES ASSUME Init PROVE IInv
  OBVIOUS
<1> USE DEF Init
<1>1. TypeOK
  <2>1. healthy \in BOOLEAN /\ sharing \in BOOLEAN
    OBVIOUS
  <2>2. Gone \in Gone..Ttl /\ idle \in 0..(Ttl + 1)
    OBVIOUS
  <2>3. lease \in [Process -> Gone..Ttl] /\ entry \in Gone..Ttl
    BY <2>2
  <2>4. by \in Process \cup {NoOne} /\ (Listed <=> by # NoOne)
        /\ late \in [Process -> Gone..Ttl]
    BY <2>2 DEF Listed
  <2> QED
    BY <2>1, <2>2, <2>3, <2>4 DEF TypeOK
<1>2. Threads /\ Owner /\ Late
  BY DEF Threads, Owner, Late
<1>3. Ageing
  BY DEF Ageing, Listed, Alive
<1> QED
  BY <1>1, <1>2, <1>3 DEF IInv

\* The typing is inductive by itself.
LEMMA TypeNext == TypeOK /\ [Next]_vars => TypeOK'
<1> SUFFICES ASSUME TypeOK, [Next]_vars PROVE TypeOK'
  OBVIOUS
<1> USE DEF TypeOK, Listed
<1>1. ASSUME NEW p \in Process, Start(p) PROVE TypeOK'
  BY <1>1 DEF Start, etcdVars
<1>2. ASSUME NEW p \in Process, NEW a \in Answers, RegisterGrant(p, a) PROVE TypeOK'
  BY <1>2 DEF RegisterGrant, Grant, Noted, etcdVars
<1>3. ASSUME NEW p \in Process, NEW a \in PutAnswers(p), RegisterPut(p, a) PROVE TypeOK'
  BY <1>3 DEF RegisterPut, PutEntry, Noted, etcdVars, Executed
<1>4. ASSUME NEW p \in Process, NEW a \in Answers, RegisterRevoke(p, a) PROVE TypeOK'
  BY <1>4 DEF RegisterRevoke, DeleteEntry, Noted, Executed
<1>5. ASSUME NEW p \in Process, ListBegin(p) \/ ListEnd(p) \/ Stop(p) \/ Join(p) PROVE TypeOK'
  BY <1>5 DEF ListBegin, ListEnd, Stop, Join, etcdVars, history
<1>6. ASSUME NEW p \in Process, NEW a \in Answers, Deregister(p, a) PROVE TypeOK'
  BY <1>6 DEF Deregister, DeleteEntry, Noted, Executed
<1>7. ASSUME NEW p \in Process, RefreshTop(p) \/ RefreshLock(p) PROVE TypeOK'
  BY <1>7 DEF RefreshTop, RefreshLock, RefreshTo, etcdVars, history
<1>8. ASSUME NEW p \in Process, NEW a \in Answers, RefreshGet(p, a) PROVE TypeOK'
  BY <1>8 DEF RefreshGet, RefreshTo, Noted, etcdVars
<1>9. ASSUME NEW p \in Process, NEW a \in Answers, RefreshGrant(p, a) PROVE TypeOK'
  BY <1>9 DEF RefreshGrant, Grant, RefreshTo, Noted, etcdVars
<1>10. ASSUME NEW p \in Process, NEW a \in PutAnswers(p), RefreshPut(p, a) PROVE TypeOK'
  BY <1>10 DEF RefreshPut, PutEntry, RefreshTo, Noted, etcdVars, Executed
<1>11. ASSUME NEW p \in Process, Crash(p) PROVE TypeOK'
  BY <1>11 DEF Crash, Alive, etcdVars
<1>12. CASE Tick
  BY <1>12 DEF Tick, Older
<1>13. CASE Expire
  BY <1>13 DEF Expire, DeleteEntry, history
<1>14. CASE UNCHANGED vars
  BY <1>14 DEF vars, etcdVars, history
<1>15. ASSUME NEW p \in Process, PutLate(p) PROVE TypeOK'
  BY <1>15 DEF PutLate
<1> QED
  BY <1>1, <1>2, <1>3, <1>4, <1>5, <1>6, <1>7, <1>8, <1>9, <1>10, <1>11, <1>12,
     <1>13, <1>14, <1>15 DEF Next, Main, Register, Refresh

\* The threads of a process keep in step, whatever the requests return.
LEMMA ThreadsNext == TypeOK /\ Threads /\ [Next]_vars => Threads'
<1> SUFFICES ASSUME TypeOK, Threads, [Next]_vars PROVE Threads'
  OBVIOUS
<1> USE DEF TypeOK, Threads
<1>1. ASSUME NEW p \in Process, Start(p) \/ Register(p) PROVE Threads'
  BY <1>1 DEF Start, Register, RegisterGrant, RegisterPut, RegisterRevoke
<1>2. ASSUME NEW p \in Process, ListBegin(p) \/ ListEnd(p) \/ Stop(p) \/ Join(p) PROVE Threads'
  BY <1>2 DEF ListBegin, ListEnd, Stop, Join, Registered
<1>3. ASSUME NEW p \in Process, NEW a \in Answers, Deregister(p, a) PROVE Threads'
  BY <1>3 DEF Deregister
<1>4. ASSUME NEW p \in Process, Refresh(p) PROVE Threads'
  BY <1>4 DEF Refresh, RefreshTo, RefreshTop, RefreshLock, RefreshGet, RefreshGrant, RefreshPut, Running
<1>5. ASSUME NEW p \in Process, Crash(p) PROVE Threads'
  BY <1>5 DEF Crash, Alive
<1>6. CASE Tick
  BY <1>6 DEF Tick
<1>7. CASE Expire \/ UNCHANGED vars \/ \E p \in Process : PutLate(p)
  BY <1>7 DEF Expire, PutLate, vars
<1> QED
  BY <1>1, <1>2, <1>3, <1>4, <1>5, <1>6, <1>7 DEF Next, Main

LEMMA OwnerNext == TypeOK /\ Threads /\ Owner /\ Late /\ [Next]_vars => Owner'
<1> SUFFICES ASSUME TypeOK, Threads, Owner, Late, [Next]_vars PROVE Owner'
  OBVIOUS
<1> USE DEF TypeOK, Threads, Owner
<1>1. ASSUME NEW p \in Process, Start(p) PROVE Owner'
  BY <1>1 DEF Start, etcdVars
<1>2. ASSUME NEW p \in Process, NEW a \in Answers, RegisterGrant(p, a) PROVE Owner'
  BY <1>2 DEF RegisterGrant, etcdVars
<1>3. ASSUME NEW p \in Process, NEW a \in PutAnswers(p), RegisterPut(p, a) PROVE Owner'
  BY <1>3 DEF RegisterPut, PutEntry, etcdVars
<1>4. ASSUME NEW p \in Process, NEW a \in Answers, RegisterRevoke(p, a) PROVE Owner'
  BY <1>4 DEF RegisterRevoke, DeleteEntry, Executed
<1>5. ASSUME NEW p \in Process, ListBegin(p) \/ ListEnd(p) \/ Stop(p) \/ Join(p) PROVE Owner'
  BY <1>5 DEF ListBegin, ListEnd, Stop, Join, Registered, etcdVars, history
<1>6. ASSUME NEW p \in Process, NEW a \in Answers, Deregister(p, a) PROVE Owner'
  BY <1>6 DEF Deregister, DeleteEntry, Executed
<1>7. ASSUME NEW p \in Process, RefreshTop(p) \/ RefreshLock(p) PROVE Owner'
  BY <1>7 DEF RefreshTo, RefreshTop, RefreshLock, etcdVars, history
<1>8. ASSUME NEW p \in Process, NEW a \in Answers, RefreshGet(p, a) \/ RefreshGrant(p, a) PROVE Owner'
  BY <1>8 DEF RefreshTo, RefreshGet, RefreshGrant, etcdVars
<1>9. ASSUME NEW p \in Process, NEW a \in PutAnswers(p), RefreshPut(p, a) PROVE Owner'
  BY <1>9 DEF RefreshTo, RefreshPut, PutEntry, etcdVars
<1>10. ASSUME NEW p \in Process, Crash(p) PROVE Owner'
  BY <1>10 DEF Crash, Alive, etcdVars
<1>11. CASE Tick
  BY <1>11 DEF Tick
<1>12. CASE Expire \/ UNCHANGED vars
  BY <1>12 DEF Expire, DeleteEntry, vars, etcdVars, history
<1>13. ASSUME NEW p \in Process, PutLate(p) PROVE Owner'
  BY <1>13 DEF PutLate, Late
<1> QED
  BY <1>1, <1>2, <1>3, <1>4, <1>5, <1>6, <1>7, <1>8, <1>9, <1>10, <1>11, <1>12, <1>13
     DEF Next, Main, Register, Refresh

\* A put is late only after a request without an answer, and stays that of a
\* process that has got as far as to put.
LEMMA LateNext == TypeOK /\ Threads /\ Late /\ [Next]_vars => Late'
<1> SUFFICES ASSUME TypeOK, Threads, Late, [Next]_vars PROVE Late'
  OBVIOUS
<1> USE DEF TypeOK, Threads, Late
<1>1. ASSUME NEW p \in Process, Start(p) PROVE Late'
  BY <1>1 DEF Start, etcdVars
<1>2. ASSUME NEW p \in Process, NEW a \in Answers, RegisterGrant(p, a) PROVE Late'
  BY <1>2 DEF RegisterGrant, Grant, Noted, etcdVars
<1>3. ASSUME NEW p \in Process, NEW a \in PutAnswers(p), RegisterPut(p, a) PROVE Late'
  BY <1>3 DEF RegisterPut, PutEntry, Noted
<1>4. ASSUME NEW p \in Process, NEW a \in Answers, RegisterRevoke(p, a) PROVE Late'
  BY <1>4 DEF RegisterRevoke, Executed, Noted
<1>5. ASSUME NEW p \in Process, ListBegin(p) \/ ListEnd(p) \/ Stop(p) \/ Join(p) PROVE Late'
  BY <1>5 DEF ListBegin, ListEnd, Stop, Join, etcdVars, history
<1>6. ASSUME NEW p \in Process, NEW a \in Answers, Deregister(p, a) PROVE Late'
  BY <1>6 DEF Deregister, Noted
<1>7. ASSUME NEW p \in Process, RefreshTop(p) \/ RefreshLock(p) PROVE Late'
  BY <1>7 DEF RefreshTo, RefreshTop, RefreshLock, etcdVars, history
<1>8. ASSUME NEW p \in Process, NEW a \in Answers, RefreshGet(p, a) \/ RefreshGrant(p, a) PROVE Late'
  BY <1>8 DEF RefreshTo, RefreshGet, RefreshGrant, Grant, Noted, etcdVars
<1>9. ASSUME NEW p \in Process, NEW a \in PutAnswers(p), RefreshPut(p, a) PROVE Late'
  BY <1>9 DEF RefreshTo, RefreshPut, PutEntry, Noted
<1>10. ASSUME NEW p \in Process, Crash(p) PROVE Late'
  BY <1>10 DEF Crash, Alive, etcdVars
<1>11. CASE Tick
  BY <1>11 DEF Tick, Older
<1>12. CASE Expire \/ UNCHANGED vars
  BY <1>12 DEF Expire, vars, etcdVars, history
<1>13. ASSUME NEW p \in Process, PutLate(p) PROVE Late'
  BY <1>13 DEF PutLate
<1> QED
  BY <1>1, <1>2, <1>3, <1>4, <1>5, <1>6, <1>7, <1>8, <1>9, <1>10, <1>11, <1>12, <1>13
     DEF Next, Main, Register, Refresh

\* No put is begun while nobody is up, and one tick of age for each idle tick.
LEMMA AgeingNext == TypeOK /\ Threads /\ Ageing /\ [Next]_vars => Ageing'
<1> SUFFICES ASSUME TypeOK, Threads, Ageing, [Next]_vars PROVE Ageing'
  OBVIOUS
<1> USE DEF TypeOK, Ageing, Listed
<1>1. ASSUME UNCHANGED <<entry, late, idle>>, Alive' # {} => Alive # {} PROVE Ageing'
  BY <1>1
<1>2. ASSUME NEW p \in Process, Start(p) PROVE Ageing'
  BY <1>2 DEF Start, etcdVars, Alive
<1>3. ASSUME NEW p \in Process, NEW a \in Answers, RegisterGrant(p, a) PROVE Ageing'
  <2>1. p \in Alive /\ UNCHANGED <<entry, late, idle>>
    BY <1>3 DEF RegisterGrant, Alive, etcdVars
  <2> QED
    BY <2>1, <1>1
<1>4. ASSUME NEW p \in Process, NEW a, PutEntry(p, a), p \in Alive,
             UNCHANGED <<lease, idle>>
      PROVE  Ageing'
  <2>1. idle = 0 /\ idle' = 0 /\ lease[p] <= Ttl
    BY <1>4
  <2>2. (entry' = lease[p] \/ UNCHANGED entry) /\ (late' = [late EXCEPT ![p] = lease[p]] \/ UNCHANGED late)
    BY <1>4 DEF PutEntry
  <2> QED
    BY <2>1, <2>2
<1>5. ASSUME NEW p \in Process, NEW a \in PutAnswers(p), RegisterPut(p, a) PROVE Ageing'
  BY <1>5, <1>4 DEF RegisterPut, Alive
<1>6. ASSUME NEW p \in Process, NEW a \in Answers, RegisterRevoke(p, a) \/ Deregister(p, a)
      PROVE  Ageing'
  <2>1. p \in Alive /\ UNCHANGED idle /\ (entry' = Gone \/ UNCHANGED entry)
    BY <1>6 DEF RegisterRevoke, Deregister, DeleteEntry, Alive
  <2>2. late' = [late EXCEPT ![p] = Gone] \/ UNCHANGED late
    BY <1>6 DEF RegisterRevoke, Deregister
  <2> QED
    BY <2>1, <2>2
<1>7. ASSUME NEW p \in Process, ListBegin(p) \/ ListEnd(p) \/ Stop(p) \/ Join(p) PROVE Ageing'
  <2>1. p \in Alive /\ UNCHANGED <<entry, late, idle>>
    BY <1>7 DEF ListBegin, ListEnd, Stop, Join, Alive, etcdVars, history
  <2> QED
    BY <2>1, <1>1
<1>8. ASSUME NEW p \in Process, RefreshTop(p) \/ RefreshLock(p) PROVE Ageing'
  BY <1>8, <1>1 DEF RefreshTop, RefreshLock, Alive, etcdVars, history
<1>9. ASSUME NEW p \in Process, NEW a \in Answers, RefreshGet(p, a) \/ RefreshGrant(p, a)
      PROVE  Ageing'
  BY <1>9, <1>1 DEF RefreshGet, RefreshGrant, Alive, etcdVars
<1>10. ASSUME NEW p \in Process, NEW a \in PutAnswers(p), RefreshPut(p, a) PROVE Ageing'
  <2>1. p \in Alive
    BY <1>10 DEF RefreshPut, Alive, Threads
  <2> QED
    BY <2>1, <1>10, <1>4 DEF RefreshPut
<1>11. ASSUME NEW p \in Process, Crash(p) PROVE Ageing'
  <2>1. p \in Alive /\ UNCHANGED <<entry, late, idle>>
    BY <1>11 DEF Crash, etcdVars
  <2> QED
    BY <2>1, <1>1
<1>12. CASE Tick
  <2>1. Alive' = Alive
    BY <1>12 DEF Tick, Alive
  <2>2. entry' = IF entry = Gone THEN Gone ELSE entry - 1
    BY <1>12 DEF Tick, Older
  <2>3. \A p \in Process : late'[p] = IF late[p] = Gone THEN Gone ELSE late[p] - 1
    BY <1>12 DEF Tick, Older
  <2> QED
    BY <2>1, <2>2, <2>3, <1>12 DEF Tick
<1>13. CASE Expire
  BY <1>13 DEF Expire, DeleteEntry, Alive, history
<1>14. CASE UNCHANGED vars
  BY <1>14, <1>1 DEF vars, Alive, etcdVars, history
<1>15. ASSUME NEW p \in Process, PutLate(p) PROVE Ageing'
  BY <1>15 DEF PutLate, Alive
<1> QED
  BY <1>2, <1>3, <1>5, <1>6, <1>7, <1>8, <1>9, <1>10, <1>11, <1>12, <1>13, <1>14, <1>15
     DEF Next, Main, Register, Refresh

LEMMA Inductive == Spec => []IInv
<1>1. IInv /\ [Next]_vars => IInv'
  BY TypeNext, ThreadsNext, OwnerNext, LateNext, AgeingNext DEF IInv
<1> QED
  BY InitIInv, <1>1, PTL DEF Spec

-----------------------------------------------------------------------------
(* The types of the service registry's variables.                          *)
THEOREM RegistryTyped == Spec => []TypeOK
<1>1. Init => TypeOK
  BY InitIInv DEF IInv
<1> QED
  BY <1>1, TypeNext, PTL DEF Spec

(* Of a service without processes the entry disappears after one lease:    *)
(* registerService and refreshService never put it without a lease.        *)
THEOREM DelistsTheDead == Spec => []DeadIsDelisted
<1>1. IInv => DeadIsDelisted
  BY DEF IInv, TypeOK, Ageing, DeadIsDelisted, Listed
<1> QED
  BY Inductive, <1>1, PTL

(* shutdown joins the refresh thread and deletes; registerService revokes  *)
(* what it could not confirm: an orderly end leaves no entry behind.       *)
THEOREM CleansUp == Spec => []NothingLeftBehind
<1>1. IInv => NothingLeftBehind
  BY DEF IInv, Owner, NothingLeftBehind
<1> QED
  BY Inductive, <1>1, PTL

-----------------------------------------------------------------------------
(* How old the entry is while no request fails. A second invariant: the    *)
(* refresh thread does not end before main is told to stop; one process is *)
(* up at a time; what it is about to put is a lease of full length, since  *)
(* no tick passes between grant and put; and its entry is one tick old at  *)
(* most, because a tick finds the refresh thread asleep.                   *)

EndsAfterStop == \A p \in Process : r[p] = "ended" => m[p] \notin {"run", "list"}

Alone == \A p, q \in Process : m[p] \notin {"new", "down"} /\ m[q] \notin {"new", "down"} => p = q

Fresh ==
    \A p \in Process :
        /\ m[p] = "put" \/ r[p] = "put" => lease[p] = Ttl
        /\ m[p] \in {"run", "list", "stop"} /\ r[p] # "none" =>
               /\ entry >= Ttl - 1
               /\ r[p] \in {"top", "sleep"} => entry = Ttl

HInv == EndsAfterStop /\ (healthy /\ ~sharing => Alone /\ Fresh)

LEMMA EndsAfterStopNext == TypeOK /\ Threads /\ EndsAfterStop /\ [Next]_vars => EndsAfterStop'
<1> SUFFICES ASSUME TypeOK, Threads, EndsAfterStop, [Next]_vars PROVE EndsAfterStop'
  OBVIOUS
<1> USE DEF TypeOK, Threads, EndsAfterStop
<1>1. ASSUME NEW p \in Process, Start(p) \/ Register(p) PROVE EndsAfterStop'
  BY <1>1 DEF Start, Register, RegisterGrant, RegisterPut, RegisterRevoke
<1>2. ASSUME NEW p \in Process, ListBegin(p) \/ ListEnd(p) \/ Stop(p) \/ Join(p)
      PROVE  EndsAfterStop'
  BY <1>2 DEF ListBegin, ListEnd, Stop, Join
<1>3. ASSUME NEW p \in Process, NEW a \in Answers, Deregister(p, a) PROVE EndsAfterStop'
  BY <1>3 DEF Deregister
<1>4. ASSUME NEW p \in Process, Refresh(p) PROVE EndsAfterStop'
  BY <1>4 DEF Refresh, RefreshTo, RefreshTop, RefreshLock, RefreshGet, RefreshGrant, RefreshPut,
     Running
<1>5. ASSUME NEW p \in Process, Crash(p) PROVE EndsAfterStop'
  BY <1>5 DEF Crash
<1>6. CASE Tick
  BY <1>6 DEF Tick
<1>7. CASE Expire \/ UNCHANGED vars \/ \E p \in Process : PutLate(p)
  BY <1>7 DEF Expire, PutLate, vars
<1> QED
  BY <1>1, <1>2, <1>3, <1>4, <1>5, <1>6, <1>7 DEF Next, Main

\* A second process may start only where sharing notes it.
LEMMA AloneNext ==
    ASSUME TypeOK, Threads, [Next]_vars, healthy' /\ ~sharing', healthy /\ ~sharing => Alone
    PROVE  Alone' /\ healthy /\ ~sharing
<1> USE DEF TypeOK, Threads, Alone
<1>1. healthy /\ ~sharing
  BY DEF Next, Start, Main, Register, RegisterGrant, RegisterPut, RegisterRevoke, ListBegin, ListEnd, Stop,
     Join, Deregister, Refresh, RefreshTop, RefreshLock, RefreshGet, RefreshGrant, RefreshPut, Crash,
     Tick, Expire, PutLate, Grant, PutEntry, Noted, history, vars
<1>2. ASSUME \A p \in Process : m'[p] \notin {"new", "down"} => m[p] \notin {"new", "down"}
      PROVE  Alone'
  BY <1>1, <1>2
<1>3. ASSUME NEW p \in Process, Start(p) PROVE Alone'
  BY <1>1, <1>3 DEF Start, Alive
<1>4. ASSUME NEW p \in Process, Register(p) PROVE Alone'
  BY <1>2, <1>4 DEF Register, RegisterGrant, RegisterPut, RegisterRevoke
<1>5. ASSUME NEW p \in Process, ListBegin(p) \/ ListEnd(p) \/ Stop(p) \/ Join(p) PROVE Alone'
  BY <1>2, <1>5 DEF ListBegin, ListEnd, Stop, Join
<1>6. ASSUME NEW p \in Process, NEW a \in Answers, Deregister(p, a) PROVE Alone'
  BY <1>2, <1>6 DEF Deregister
<1>7. ASSUME NEW p \in Process, Refresh(p) PROVE Alone'
  BY <1>2, <1>7 DEF Refresh, RefreshTop, RefreshLock, RefreshGet, RefreshGrant, RefreshPut
<1>8. ASSUME NEW p \in Process, Crash(p) PROVE Alone'
  BY <1>2, <1>8 DEF Crash
<1>9. CASE Tick \/ Expire \/ UNCHANGED vars \/ \E p \in Process : PutLate(p)
  BY <1>1, <1>2, <1>9 DEF Tick, Expire, PutLate, vars
<1> QED
  BY <1>1, <1>3, <1>4, <1>5, <1>6, <1>7, <1>8, <1>9 DEF Next, Main

\* Ttl > 1: an entry that is one tick old has not run out.
LEMMA FreshNext ==
    ASSUME Ttl > 1, TypeOK, Threads, Late, EndsAfterStop, Alone, Fresh, [Next]_vars, healthy'
    PROVE  Fresh'
<1> USE DEF TypeOK, Threads, EndsAfterStop, Alone, Fresh, Gone
<1>1. ASSUME NEW p \in Process, Start(p) PROVE Fresh'
  BY <1>1 DEF Start, etcdVars
<1>2. ASSUME NEW p \in Process, NEW a \in Answers, RegisterGrant(p, a) PROVE Fresh'
  BY <1>2 DEF RegisterGrant, Grant, Noted, etcdVars
<1>3. ASSUME NEW p \in Process, NEW a \in PutAnswers(p), RegisterPut(p, a) PROVE Fresh'
  BY <1>3 DEF RegisterPut, PutEntry, Noted, Executed
<1>4. ASSUME NEW p \in Process, NEW a \in Answers, RegisterRevoke(p, a) PROVE Fresh'
  BY <1>4 DEF RegisterRevoke, Noted, Executed
<1>5. ASSUME NEW p \in Process, ListBegin(p) \/ ListEnd(p) \/ Stop(p) \/ Join(p) PROVE Fresh'
  BY <1>5 DEF ListBegin, ListEnd, Stop, Join, Registered, etcdVars
<1>6. ASSUME NEW p \in Process, NEW a \in Answers, Deregister(p, a) PROVE Fresh'
  BY <1>6 DEF Deregister
<1>7. ASSUME NEW p \in Process, RefreshTop(p) \/ RefreshLock(p) PROVE Fresh'
  BY <1>7 DEF RefreshTo, RefreshTop, RefreshLock, etcdVars
<1>8. ASSUME NEW p \in Process, NEW a \in Answers, RefreshGet(p, a) PROVE Fresh'
  <2>1. m[p] \in {"run", "list", "stop"} /\ Listed
    BY <1>8 DEF RefreshGet, Listed
  <2>2. UNCHANGED <<m, lease, entry>> /\ r[p] = "get"
    BY <1>8 DEF RefreshGet, etcdVars
  <2>3. r'[p] = "grant" /\ \A q \in Process \ {p} : r'[q] = r[q]
    BY <1>8, <2>1 DEF RefreshTo, RefreshGet, Noted
  <2> HIDE DEF TypeOK, Threads, EndsAfterStop, Alone
  <2> QED
    BY <2>1, <2>2, <2>3
<1>9. ASSUME NEW p \in Process, NEW a \in Answers, RefreshGrant(p, a) PROVE Fresh'
  <2>1. m[p] \in {"run", "list", "stop"} /\ lease'[p] = Ttl
    BY <1>9 DEF RefreshGrant, Grant, Noted
  <2>2. \A q \in Process \ {p} : m[q] \in {"new", "down"} /\ r[q] \in {"none", "ended"}
    BY <2>1
  <2>3. UNCHANGED <<m, entry>> /\ r'[p] \notin {"top", "sleep"}
    BY <1>9 DEF RefreshTo, RefreshGrant, Grant, Noted, etcdVars
  <2>4. r[p] # "none" /\ \A q \in Process \ {p} : r'[q] = r[q]
    BY <1>9 DEF RefreshTo, RefreshGrant
  <2> HIDE DEF TypeOK, Threads, EndsAfterStop, Alone
  <2> QED
    BY <2>1, <2>2, <2>3, <2>4
<1>10. ASSUME NEW p \in Process, NEW a \in PutAnswers(p), RefreshPut(p, a) PROVE Fresh'
  <2>1. m[p] \in {"run", "list", "stop"} /\ entry' = Ttl
    BY <1>10 DEF RefreshPut, PutEntry, Noted, Executed
  <2>2. \A q \in Process \ {p} : m[q] \in {"new", "down"} /\ r[q] \in {"none", "ended"}
    BY <2>1
  <2>3. UNCHANGED <<m, lease>> /\ r' = [r EXCEPT ![p] = "top"]
    BY <1>10 DEF RefreshTo, RefreshPut
  <2>4. ASSUME NEW q \in Process, q # p PROVE r'[q] \in {"none", "ended"} /\ m'[q] \in {"new", "down"}
    BY <2>2, <2>3, <2>4
  <2>5. r'[p] = "top" /\ m'[p] \notin {"put"}
    BY <2>1, <2>3
  <2> HIDE DEF TypeOK, Threads, EndsAfterStop, Alone
  <2> QED
    BY <2>1, <2>4, <2>5
<1>11. ASSUME NEW p \in Process, Crash(p) PROVE Fresh'
  BY <1>11 DEF Crash, etcdVars
<1>12. CASE Tick
  <2>1. \A q \in Process : ~Busy(q)
    BY <1>12 DEF Tick
  <2>2. UNCHANGED m /\ \A q \in Process : m[q] # "put" /\ r'[q] # "put"
    BY <2>1, <1>12 DEF Tick, Busy
  <2>3. ASSUME NEW q \in Process, m[q] \in {"run", "list", "stop"}, r'[q] # "none"
        PROVE  entry' >= Ttl - 1 /\ r'[q] \notin {"top", "sleep"}
    <3>1. r[q] = "sleep" /\ r'[q] = "lock"
      BY <2>1, <2>3, <1>12 DEF Busy, Tick
    <3>2. entry = Ttl /\ entry' = entry - 1
      BY <2>3, <3>1, <1>12 DEF Tick, Older
    <3> QED
      BY <3>1, <3>2
  <2> HIDE DEF TypeOK, Threads, EndsAfterStop, Alone
  <2> QED
    BY <2>2, <2>3
<1>13. CASE Expire
  BY <1>13 DEF Expire, DeleteEntry
<1>14. CASE UNCHANGED vars
  BY <1>14 DEF vars, etcdVars
<1>15. ASSUME NEW p \in Process, PutLate(p) PROVE FALSE
  BY <1>15 DEF PutLate, Late
<1> QED
  BY <1>1, <1>2, <1>3, <1>4, <1>5, <1>6, <1>7, <1>8, <1>9, <1>10, <1>11, <1>12,
     <1>13, <1>14, <1>15 DEF Next, Main, Register, Refresh

(* A registered process stays listed while requests are answered in time:  *)
(* refreshService grants and puts again before the old lease ends.  The    *)
(* lease has to last longer than one refresh interval (10 and 5 seconds in *)
(* worker and scheduler); with Ttl = 1 the entry may end with the tick.    *)
THEOREM StaysListed == ASSUME Ttl > 1 PROVE Spec => []HealthyIsListed
<1>1. Init => HInv
  BY DEF Init, HInv, EndsAfterStop, Alone, Fresh
<1>2. IInv /\ HInv /\ [Next]_vars => HInv'
  <2> SUFFICES ASSUME IInv, HInv, [Next]_vars PROVE HInv'
    OBVIOUS
  <2>1. EndsAfterStop'
    BY EndsAfterStopNext DEF IInv, HInv
  <2>2. ASSUME healthy' /\ ~sharing' PROVE Alone' /\ Fresh'
    BY <2>2, AloneNext, FreshNext DEF IInv, HInv
  <2> QED
    BY <2>1, <2>2 DEF HInv
<1>3. IInv /\ HInv => HealthyIsListed
  BY DEF IInv, TypeOK, HInv, Fresh, HealthyIsListed, Registered, Listed
<1> QED
  BY Inductive, <1>1, <1>2, <1>3, PTL DEF Spec
-----------------------------------------------------------------------------
(* The worker.                                                             *)

(* A server that closes or is closed is that of a process whose main has   *)
(* returned from shutdown of the registry, or that is dead.                *)
Closing == \A p \in Worker : server[p] \in {"closing", "closed"} => m[p] = "down"

WIInv == WTypeOK /\ Closing

USE WorkerAssumption DEF WorkerAssumption
-----------------------------------------------------------------------------
\* Every step of a worker is a step of the registry or leaves it alone.
LEMMA StepOfRegistry == [WNext]_wvars => [Next]_vars
<1> SUFFICES ASSUME [WNext]_wvars PROVE [Next]_vars
  OBVIOUS
<1>1. ASSUME NEW p \in Process, Leave(p) PROVE Stop(p)
  BY <1>1 DEF Leave
<1>2. ASSUME NEW p \in Process, Die(p) PROVE Crash(p)
  BY <1>2 DEF Die
<1>3. ASSUME NEW p \in Process, Registry(p)
      PROVE  Start(p) \/ Main(p) \/ ListBegin(p) \/ Refresh(p)
  BY <1>3 DEF Registry
<1>4. ASSUME NEW p \in Process, Signal(p) PROVE UNCHANGED vars
  BY <1>4 DEF Signal
<1>5. ASSUME NEW p \in Worker, Work(p) \/ ExecuteTask(p) PROVE UNCHANGED vars
  BY <1>5 DEF Work, MainGoesOn, StartHeartbeat, BuildAndStart, CloseServer, Exit, Beat,
     TaskExecuted, ExecuteTask
<1>6. Pass => Tick
  BY DEF Pass
<1>7. UNCHANGED wvars => UNCHANGED vars
  BY DEF wvars
<1> QED
  BY <1>1, <1>2, <1>3, <1>4, <1>5, <1>6, <1>7 DEF WNext, Next

(* A worker, with its heartbeat thread, its server and its signals, uses   *)
(* the registry as module ServiceRegistry describes.                       *)
THEOREM WorkerUsesRegistry == WSpec => Spec
<1>1. WInit => Init
  BY DEF WInit
<1> QED
  BY <1>1, StepOfRegistry, PTL DEF WSpec, Spec

-----------------------------------------------------------------------------
LEMMA WInitIInv == WInit => WIInv
<1> SUFFICES ASSUME WInit PROVE WIInv
  OBVIOUS
<1>1. TypeOK
  BY InitIInv DEF WInit, IInv
<1>2. WTypeOK
  BY <1>1 DEF WInit, WTypeOK
<1>3. Closing
  BY DEF WInit, Closing
<1> QED
  BY <1>2, <1>3 DEF WIInv

\* main and the other threads of a worker, which leave the registry alone.
LEMMA WorkNext ==
    ASSUME WIInv, TypeOK', NEW p \in Worker, Work(p) \/ ExecuteTask(p) PROVE WIInv'
<1> USE DEF WIInv, WTypeOK, Closing, vars
<1>1. CASE StartHeartbeat(p) \/ BuildAndStart(p)
  BY <1>1 DEF StartHeartbeat, BuildAndStart
<1>2. CASE CloseServer(p)
  BY <1>2 DEF CloseServer
<1>3. CASE Exit(p)
  BY <1>3 DEF Exit
<1>4. CASE Beat(p)
  BY <1>4 DEF Beat
<1>5. CASE TaskExecuted(p)
  BY <1>5 DEF TaskExecuted
<1>6. CASE ExecuteTask(p)
  BY <1>6 DEF ExecuteTask
<1> QED
  BY <1>1, <1>2, <1>3, <1>4, <1>5, <1>6 DEF Work, MainGoesOn

\* In the registry, main of a process that is down stays so.
LEMMA DownStays ==
    ASSUME TypeOK, NEW p \in Process, Registry(p), NEW q \in Process, m[q] = "down"
    PROVE  m'[q] = "down"
<1> USE DEF TypeOK
<1>1. CASE Start(p) \/ ListBegin(p)
  BY <1>1 DEF Start, ListBegin
<1>2. CASE Register(p)
  BY <1>2 DEF Register, RegisterGrant, RegisterPut, RegisterRevoke
<1>3. CASE ListEnd(p) \/ Join(p)
  BY <1>3 DEF ListEnd, Join
<1>4. ASSUME NEW a \in Answers, Deregister(p, a) PROVE m'[q] = "down"
  BY <1>4 DEF Deregister
<1>5. CASE Refresh(p)
  BY <1>5 DEF Refresh, RefreshTop, RefreshLock, RefreshGet, RefreshGrant, RefreshPut
<1> QED
  BY <1>1, <1>2, <1>3, <1>4, <1>5 DEF Registry, Main

LEMMA WInductiveStep == WIInv /\ [WNext]_wvars => WIInv'
<1> SUFFICES ASSUME WIInv, [WNext]_wvars PROVE WIInv'
  OBVIOUS
<1>1. TypeOK /\ TypeOK'
  BY StepOfRegistry, TypeNext DEF WIInv, WTypeOK
<1> USE DEF WIInv, WTypeOK, Closing
<1>2. ASSUME NEW p \in Process, Signal(p) PROVE WIInv'
  BY <1>1, <1>2 DEF Signal, vars
<1>3. ASSUME NEW p \in Process, Leave(p) PROVE WIInv'
  BY <1>1, <1>3 DEF Leave, Stop, workerVars, TypeOK
<1>4. ASSUME NEW p \in Process, Die(p) PROVE WIInv'
  BY <1>1, <1>4 DEF Die, Crash, TypeOK
<1>5. ASSUME NEW p \in Process, Registry(p), UNCHANGED workerVars PROVE WIInv'
  BY <1>1, <1>5, DownStays DEF workerVars
<1>6. ASSUME NEW p \in Worker, Work(p) \/ ExecuteTask(p) PROVE WIInv'
  BY <1>1, <1>6, WorkNext
<1>7. CASE Pass
  BY <1>1, <1>7 DEF Pass, Tick
<1>8. CASE (Expire \/ \E p \in Process : PutLate(p)) /\ UNCHANGED workerVars
  BY <1>1, <1>8 DEF Expire, PutLate, workerVars
<1>9. CASE UNCHANGED wvars
  BY <1>1, <1>9 DEF wvars, vars, workerVars
<1> QED
  BY <1>2, <1>3, <1>4, <1>5, <1>6, <1>7, <1>8, <1>9 DEF WNext

LEMMA WInductive == WSpec => []WIInv
  BY WInitIInv, WInductiveStep, PTL DEF WSpec

-----------------------------------------------------------------------------
(* The types of the worker's variables and of the registry's; main starts  *)
(* the heartbeat thread before it builds the server, and ExecuteTask is    *)
(* called only where there was a server.                                   *)
THEOREM WorkerTyped == WSpec => []WTypeOK
<1>1. WIInv => WTypeOK
  BY DEF WIInv
<1> QED
  BY WInductive, <1>1, PTL

(* main deregisters before it closes the server: who reads the entry of a  *)
(* worker that has started to serve finds it serving.                      *)
THEOREM ListedWorkersServe == WSpec => []ListedServes
<1>1. WIInv /\ NothingLeftBehind => ListedServes
  <2> SUFFICES ASSUME WIInv, NothingLeftBehind,
                      NEW p \in Worker \ (crashed \cup uncleaned),
                      by = p, server[p] \notin {"none", "null"}
               PROVE  server[p] = "up"
    BY DEF ListedServes
  <2>1. m[p] # "down"
    BY DEF NothingLeftBehind
  <2> QED
    BY <2>1 DEF WIInv, WTypeOK, Closing
<1> QED
  BY WInductive, WorkerUsesRegistry, CleansUp, <1>1, PTL

(* A worker's entry disappears one lease after its last process, however   *)
(* that process ended.                                                     *)
THEOREM WorkersAreDelisted == WSpec => []DeadIsDelisted
  BY WorkerUsesRegistry, DelistsTheDead, PTL

(* A worker that ends in order leaves no entry behind.                     *)
THEOREM WorkersCleanUp == WSpec => []NothingLeftBehind
  BY WorkerUsesRegistry, CleansUp, PTL

(* A worker that is up and registered stays listed while etcd answers in   *)
(* time, from its registration until it deregisters.                       *)
THEOREM WorkersStayListed == ASSUME Ttl > 1 PROVE WSpec => []HealthyIsListed
  BY WorkerUsesRegistry, StaysListed, PTL
=============================================================================
