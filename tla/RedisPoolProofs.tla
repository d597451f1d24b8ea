-------------------------- MODULE RedisPoolProofs --------------------------
(***************************************************************************)
(* The connections of RedisPool, for any number of threads, connections    *)
(* and failures: one user each, replies to the thread that waits, and no   *)
(* more of them than were opened at the start or needed at once.           *)
(***************************************************************************)
EXTENDS RedisPool, FiniteSetTheorems, TLAPS

(* A connection in use and not failed holds the one reply its user waits   *)
(* for, or none; one that is free holds none.                              *)
Replies ==
    /\ \A u \in User : conn[u] # 0 /\ ~pool[conn[u]].err =>
            pool[conn[u]].replies = IF Waiting(u) THEN <<u>> ELSE <<>>
    /\ \A i \in Places : ~pool[i].used => pool[i].replies = <<>>

(* The same of the one connection of all Direct threads, while their calls *)
(* have not overlapped.                                                    *)
Alone ==
    /\ \A d \in Direct : pc[d] \in {"idle", "sent"}
    /\ shared.err => shared.replies = <<>>
    /\ ~overlapped =>
        /\ \A d, e \in Direct : pc[d] = "sent" /\ pc[e] = "sent" => d = e
        /\ ~shared.err => \A d \in Direct : pc[d] = "sent" => shared.replies = <<d>>
        /\ (\A d \in Direct : pc[d] = "idle") => shared.replies = <<>>

Hands ==
    /\ \A u, v \in Holders : conn[u] = conn[v] => u = v
    /\ \A u \in Holders : conn[u] \in Used

Count == IsFiniteSet(Holders) /\ Cardinality(Used) = Cardinality(Holders) + leaked

Inv == TypeOK /\ Hands /\ Count /\ Replies /\ Alone /\ PoolBounded

-----------------------------------------------------------------------------
(* Connections and the pool as data.                                       *)

LEMMA FieldsOfConn ==
  ASSUME NEW r \in ConnType
  PROVE  r.used \in BOOLEAN /\ r.err \in BOOLEAN /\ r.replies \in Seq(Thread)
  BY DEF ConnType

LEMMA NewConnType ==
  ASSUME NEW b \in BOOLEAN
  PROVE  /\ NewConn(b) \in ConnType
         /\ NewConn(b).used = b /\ ~NewConn(b).err /\ NewConn(b).replies = <<>>
  BY DEF ConnType, NewConn

LEMMA WithUsed ==
  ASSUME NEW r \in ConnType, NEW b \in BOOLEAN
  PROVE  LET c == [r EXCEPT !.used = b]
         IN  c \in ConnType /\ c.used = b /\ c.err = r.err /\ c.replies = r.replies
  BY DEF ConnType

LEMMA WithReplies ==
  ASSUME NEW r \in ConnType, NEW s \in Seq(Thread)
  PROVE  LET c == [r EXCEPT !.replies = s]
         IN  c \in ConnType /\ c.used = r.used /\ c.err = r.err /\ c.replies = s
  BY DEF ConnType

LEMMA FailedConn ==
  ASSUME NEW r \in ConnType
  PROVE  /\ Failed(r) \in ConnType
         /\ Failed(r).used = r.used /\ Failed(r).err /\ Failed(r).replies = <<>>
<1>1. <<>> \in Seq(Thread)
  OBVIOUS
<1>2. [r EXCEPT !.err = TRUE, !.replies = <<>>] \in ConnType
  BY <1>1, Zenon DEF ConnType
<1>3. Failed(r) = [r EXCEPT !.err = TRUE, !.replies = <<>>]
  BY DEF Failed
<1> QED
  BY <1>2, <1>3 DEF ConnType

LEMMA PlacesOfPool ==
  ASSUME TypeOK
  PROVE  Places = 1..Len(pool) /\ Len(pool) \in Nat /\ \A i \in Places : pool[i] \in ConnType
  BY DEF TypeOK, Places

LEMMA UserIsThread == ASSUME NEW u \in User PROVE u \in Thread /\ u \notin Direct
  BY PoolAssumption DEF Thread

(* One place changes.                                                      *)
LEMMA PlaceChanges ==
  ASSUME TypeOK, NEW i \in Places, NEW c \in ConnType, pool' = [pool EXCEPT ![i] = c]
  PROVE  /\ pool' \in Seq(ConnType) /\ Places' = Places /\ Len(pool') = Len(pool)
         /\ pool'[i] = c /\ \A j \in Places \ {i} : pool'[j] = pool[j]
  BY PlacesOfPool DEF TypeOK, Places

LEMMA PlaceAdded ==
  ASSUME TypeOK, NEW c \in ConnType, pool' = Append(pool, c)
  PROVE  /\ pool' \in Seq(ConnType) /\ Len(pool') = Len(pool) + 1
         /\ Places' = Places \cup {Len(pool')} /\ Len(pool') \notin Places
         /\ pool'[Len(pool')] = c /\ \A j \in Places : pool'[j] = pool[j]
  BY PlacesOfPool DEF TypeOK, Places

LEMMA UsedFinite ==
  ASSUME TypeOK
  PROVE  /\ IsFiniteSet(Used) /\ Cardinality(Used) \in Nat
         /\ Free = {} => Cardinality(Used) = Len(pool)
<1>0. Places = 1..Len(pool) /\ Len(pool) \in Nat
  BY PlacesOfPool
<1>1. IsFiniteSet(Places) /\ Cardinality(Places) = Len(pool)
  <2>1. IsFiniteSet(1..Len(pool)) /\ Cardinality(1..Len(pool)) = IF 1 > Len(pool) THEN 0 ELSE Len(pool) - 1 + 1
    BY <1>0, FS_Interval
  <2> QED
    BY <1>0, <2>1
<1>2. IsFiniteSet(Used)
  BY <1>1, FS_Subset DEF Used
<1>3. Free = {} => Used = Places
  BY PlacesOfPool, FieldsOfConn DEF Used, Free
<1> QED
  BY <1>1, <1>2, <1>3, FS_CardinalityType

-----------------------------------------------------------------------------
(* What a step that keeps holders and marks leaves of the invariant.       *)

LEMMA SameMarks ==
  ASSUME Inv, conn' = conn, leaked' = leaked, Places' = Places,
         \A i \in Places : pool'[i].used = pool[i].used
  PROVE  Hands' /\ Count' /\ Used' = Used
<1>1. Used' = Used /\ Holders' = Holders
  BY DEF Used, Holders
<1> QED
  BY <1>1 DEF Inv, Hands, Count

\* Of Direct threads, one that changes.
LEMMA DirectSame ==
  ASSUME Inv, shared' = shared, overlapped' = overlapped, \A d \in Direct : pc'[d] = pc[d]
  PROVE  Alone'
  BY DEF Inv, Alone

\* The places that do not change, of a user that does not.
LEMMA HolderOfPlace ==
  ASSUME Inv, NEW u \in User, conn[u] # 0
  PROVE  /\ conn[u] \in Places /\ pool[conn[u]] \in ConnType /\ pool[conn[u]].used
         /\ \A v \in User \ {u} : conn[v] # conn[u]
<1>1. u \in Holders /\ conn[u] \in Places
  BY DEF Inv, TypeOK, Holders
<1>2. \A v \in User \ {u} : conn[v] # conn[u]
  BY <1>1 DEF Inv, Hands, Holders
<1> QED
  BY <1>1, <1>2, PlacesOfPool DEF Inv, Hands, Used

-----------------------------------------------------------------------------
(* The pool.                                                               *)

\* A user takes a place i that is not in use, of the new pool.
LEMMA Taken ==
  ASSUME Inv, NEW u \in User, pc[u] = "idle", NEW i \in Nat \ {0}, Hold(u, i),
         pool' \in Seq(ConnType), Places' = Places \cup {i}, i \notin Used,
         pool'[i].used, pool'[i].replies = <<>>, pool'[i].err => pool'[i].replies = <<>>,
         \A j \in Places \ {i} : pool'[j] = pool[j],
         Len(pool') <= Len(pool) \/ Len(pool') <= Cardinality(Used) + 1
  PROVE  Inv'
<1>0. /\ conn[u] = 0 /\ u \in Thread /\ u \notin Direct
      /\ conn' = [conn EXCEPT ![u] = i] /\ pc' = [pc EXCEPT ![u] = "has"]
      /\ UNCHANGED <<redis, shared, breaks, opened, leaked, overlapped>>
  BY UserIsThread DEF Inv, TypeOK, Hold, To
<1>1. Holders' = Holders \cup {u} /\ u \notin Holders
  BY <1>0 DEF Inv, TypeOK, Holders
<1>2. Used' = Used \cup {i}
  <2>1. \A j \in Places \ {i} : j \in Used' <=> j \in Used
    BY DEF Used
  <2> QED
    BY <2>1 DEF Used
<1>3. /\ IsFiniteSet(Holders') /\ Cardinality(Holders') = Cardinality(Holders) + 1
      /\ Cardinality(Holders) \in Nat
  BY <1>1, FS_AddElement, FS_CardinalityType DEF Inv, Count
<1>4. Cardinality(Used') = Cardinality(Used) + 1 /\ Cardinality(Used) \in Nat
  <2>1. IsFiniteSet(Used) /\ Cardinality(Used) \in Nat
    BY UsedFinite DEF Inv
  <2> QED
    BY <1>2, <2>1, FS_AddElement
<1>5. Count'
  BY <1>0, <1>3, <1>4 DEF Inv, Count, TypeOK
<1>6. Hands'
  <2>1. \A v \in Holders : conn'[v] = conn[v] /\ conn[v] \in Used
    BY <1>0, <1>1 DEF Inv, Hands, Holders, TypeOK
  <2>2. conn'[u] = i
    BY <1>0 DEF Inv, TypeOK
  <2> QED
    BY <1>1, <1>2, <2>1, <2>2 DEF Inv, Hands
<1>7. peak' \in Nat /\ peak' >= peak /\ peak' >= Cardinality(Used) + 1
  <2>1. peak' = IF Cardinality(Holders') + leaked > peak THEN Cardinality(Holders') + leaked ELSE peak
    BY <1>1 DEF Hold, Busiest
  <2>2. peak \in Nat /\ leaked \in Nat /\ Cardinality(Used) = Cardinality(Holders) + leaked
    BY DEF Inv, TypeOK, Count
  <2> QED
    BY <1>3, <2>1, <2>2
<1>8. TypeOK'
  <2>1. conn' \in [User -> Nat] /\ \A v \in User : conn'[v] \in {0} \cup Places'
    BY <1>0 DEF Inv, TypeOK
  <2>2. pc' \in [Thread -> {"idle", "has", "sent", "replied", "again"}]
    BY <1>0 DEF Inv, TypeOK
  <2>3. \A v \in User : conn'[v] = 0 <=> pc'[v] = "idle"
    BY <1>0, UserIsThread DEF Inv, TypeOK
  <2>4. \A j \in Places' : pool'[j].err => pool'[j].replies = <<>>
    BY DEF Inv, TypeOK
  <2> QED
    BY <1>0, <1>7, <2>1, <2>2, <2>3, <2>4 DEF Inv, TypeOK
<1>9. Replies'
  <2>1. ASSUME NEW v \in User, conn'[v] # 0, ~pool'[conn'[v]].err
        PROVE  pool'[conn'[v]].replies = IF Waiting(v)' THEN <<v>> ELSE <<>>
    <3>1. CASE v = u
      BY <1>0, <3>1 DEF Inv, TypeOK, Waiting
    <3>2. CASE v # u
      <4>1. v \in Holders /\ conn'[v] = conn[v] /\ pc'[v] = pc[v] /\ v \in Thread
        BY <1>0, <2>1, <3>2, UserIsThread DEF Inv, TypeOK, Holders
      <4>2. conn[v] \in Used /\ conn[v] \in Places /\ conn[v] # i
        BY <4>1 DEF Inv, Hands, Used
      <4>3. pool'[conn[v]] = pool[conn[v]]
        BY <4>2
      <4> QED
        BY <2>1, <4>1, <4>3 DEF Inv, Replies, Waiting
    <3> QED
      BY <3>1, <3>2
  <2>2. \A j \in Places' : ~pool'[j].used => pool'[j].replies = <<>>
    BY DEF Inv, Replies
  <2> QED
    BY <2>1, <2>2 DEF Replies
<1>10. Alone'
  <2>1. \A d \in Direct : pc'[d] = pc[d]
    BY <1>0 DEF Inv, TypeOK, Thread
  <2> QED
    BY <1>0, <2>1, DirectSame
<1>11. PoolBounded'
  <2>1. Len(pool) \in Nat /\ Len(pool') \in Nat /\ opened \in Nat /\ peak \in Nat
    BY PlacesOfPool, PoolAssumption DEF Inv, TypeOK
  <2> QED
    BY <1>0, <1>4, <1>7, <2>1 DEF Inv, PoolBounded
<1> QED
  BY <1>5, <1>6, <1>8, <1>9, <1>10, <1>11 DEF Inv

LEMMA TakeFreeStep == ASSUME Inv, NEW u \in User, TakeFree(u) PROVE Inv'
<1>1. PICK i \in Free : pool' = [pool EXCEPT ![i].used = TRUE] /\ Hold(u, i)
  BY DEF TakeFree
<1> DEFINE c == [pool[i] EXCEPT !.used = TRUE]
<1>2. i \in Places /\ i \in Nat \ {0} /\ pool[i] \in ConnType /\ ~pool[i].used
  BY <1>1, PlacesOfPool DEF Inv, Free
<1>3. c \in ConnType /\ c.used /\ c.err = pool[i].err /\ c.replies = pool[i].replies
  BY <1>2, WithUsed
<1>4. pool' = [pool EXCEPT ![i] = c]
  BY <1>1, Zenon
<1> HIDE DEF c
<1>5. /\ pool' \in Seq(ConnType) /\ Places' = Places /\ Len(pool') = Len(pool)
      /\ pool'[i] = c /\ \A j \in Places \ {i} : pool'[j] = pool[j]
  BY <1>2, <1>3, <1>4, PlaceChanges DEF Inv
<1>6. i \notin Used /\ c.replies = <<>>
  BY <1>2, <1>3 DEF Inv, Replies, Used
<1>7. Len(pool') <= Len(pool)
  BY <1>5, PlacesOfPool DEF Inv
<1> QED
  BY <1>1, <1>2, <1>3, <1>5, <1>6, <1>7, Taken DEF TakeFree

LEMMA OpenNewStep == ASSUME Inv, NEW u \in User, OpenNew(u) PROVE Inv'
<1> DEFINE i == Len(pool')
<1>1. /\ pool' \in Seq(ConnType) /\ i = Len(pool) + 1 /\ Places' = Places \cup {i}
      /\ i \notin Places /\ pool'[i] = NewConn(TRUE) /\ \A j \in Places : pool'[j] = pool[j]
  BY NewConnType, PlaceAdded DEF Inv, OpenNew
<1>2. i \in Nat \ {0} /\ i \notin Used /\ i <= Cardinality(Used) + 1
  <2>1. Len(pool) \in Nat /\ Cardinality(Used) = Len(pool)
    BY PlacesOfPool, UsedFinite DEF Inv, OpenNew
  <2>2. Used \subseteq Places
    BY DEF Used
  <2> HIDE DEF i
  <2> QED
    BY <1>1, <2>1, <2>2
<1>3. pc[u] = "idle" /\ Hold(u, i)
  BY DEF OpenNew
<1> HIDE DEF i
<1>4. pool'[i].used /\ pool'[i].replies = <<>>
  BY <1>1, NewConnType
<1> QED
  BY <1>1, <1>2, <1>3, <1>4, Taken DEF i

\* A user that gives up its connection, the place marked as free or lost.
LEMMA GivenUp ==
  ASSUME Inv, NEW u \in User, conn[u] # 0,
         conn' = [conn EXCEPT ![u] = 0], To(u, "idle"), leaked' \in Nat,
         UNCHANGED <<redis, shared, breaks, opened, peak, overlapped>>,
         pool' \in Seq(ConnType), Places' = Places, Len(pool') = Len(pool),
         \A j \in Places : pool'[j].err = pool[j].err /\ pool'[j].replies = pool[j].replies,
         \A j \in Places \ {conn[u]} : pool'[j].used = pool[j].used,
         \/ Used' = Used \ {conn[u]} /\ leaked' = leaked /\ pool[conn[u]].replies = <<>>
         \/ Used' = Used /\ leaked' = leaked + 1 /\ pool' = pool
  PROVE  Inv'
<1>0. /\ u \in Thread /\ u \notin Direct /\ u \in Holders
      /\ pc' = [pc EXCEPT ![u] = "idle"]
  BY UserIsThread DEF To, Holders
<1>1. Holders' = Holders \ {u}
  BY DEF Inv, TypeOK, Holders
<1>2. \A v \in User \ {u} : conn'[v] = conn[v] /\ pc'[v] = pc[v] /\ v \in Thread
  BY <1>0, UserIsThread DEF Inv, TypeOK
<1>3. conn[u] \in Used /\ conn[u] \in Places /\ \A v \in User \ {u} : conn[v] # conn[u]
  BY <1>0, HolderOfPlace DEF Inv, Hands
<1>4. Count'
  <2>1. IsFiniteSet(Holders') /\ Cardinality(Holders') = Cardinality(Holders) - 1 /\ Cardinality(Holders) \in Nat
    BY <1>0, <1>1, FS_RemoveElement, FS_CardinalityType DEF Inv, Count
  <2>2. IsFiniteSet(Used) /\ Cardinality(Used) \in Nat
    BY UsedFinite DEF Inv
  <2>3. Cardinality(Used \ {conn[u]}) = Cardinality(Used) - 1
    BY <1>3, <2>2, FS_RemoveElement
  <2>4. leaked \in Nat /\ Cardinality(Used) = Cardinality(Holders) + leaked
    BY DEF Inv, TypeOK, Count
  <2>5. Cardinality(Used') = Cardinality(Holders') + leaked'
    <3>1. CASE Used' = Used \ {conn[u]} /\ leaked' = leaked
      BY <2>1, <2>2, <2>3, <2>4, <3>1
    <3>2. CASE Used' = Used /\ leaked' = leaked + 1
      BY <2>1, <2>2, <2>4, <3>2
    <3> QED
      BY <3>1, <3>2
  <2> QED
    BY <2>1, <2>5 DEF Count
<1>5. Hands'
  <2>1. \A v \in Holders' : v \in Holders /\ v # u /\ conn'[v] = conn[v] /\ conn[v] \in Used /\ conn[v] # conn[u]
    BY <1>1, <1>2, <1>3 DEF Inv, Hands, Holders
  <2> QED
    BY <2>1 DEF Inv, Hands
<1>6. TypeOK'
  <2>1. conn' \in [User -> Nat] /\ \A v \in User : conn'[v] \in {0} \cup Places'
    BY DEF Inv, TypeOK
  <2>2. pc' \in [Thread -> {"idle", "has", "sent", "replied", "again"}]
    BY <1>0 DEF Inv, TypeOK
  <2>3. conn'[u] = 0 /\ pc'[u] = "idle"
    BY <1>0 DEF Inv, TypeOK
  <2>4. \A v \in User : conn'[v] = 0 <=> pc'[v] = "idle"
    BY <1>2, <2>3 DEF Inv, TypeOK
  <2>5. \A j \in Places' : pool'[j].err => pool'[j].replies = <<>>
    BY DEF Inv, TypeOK
  <2> QED
    BY <2>1, <2>2, <2>4, <2>5 DEF Inv, TypeOK
<1>7. Replies'
  <2>1. ASSUME NEW v \in User, conn'[v] # 0, ~pool'[conn'[v]].err
        PROVE  pool'[conn'[v]].replies = IF Waiting(v)' THEN <<v>> ELSE <<>>
    <3>1. v # u /\ conn'[v] = conn[v] /\ pc'[v] = pc[v] /\ conn[v] \in Places
      BY <1>2, <2>1 DEF Inv, TypeOK
    <3> QED
      BY <2>1, <3>1 DEF Inv, Replies, Waiting
  <2>2. ASSUME NEW j \in Places', ~pool'[j].used PROVE pool'[j].replies = <<>>
    <3>1. CASE j = conn[u]
      <4>1. j \notin Used'
        BY <2>2 DEF Used
      <4> QED
        BY <1>3, <3>1, <4>1
    <3>2. CASE j # conn[u]
      BY <2>2, <3>2 DEF Inv, Replies
    <3> QED
      BY <3>1, <3>2
  <2> QED
    BY <2>1, <2>2 DEF Replies
<1>8. Alone'
  <2>1. \A d \in Direct : pc'[d] = pc[d]
    BY <1>0 DEF Inv, TypeOK, Thread
  <2> QED
    BY <2>1, DirectSame
<1> QED
  BY <1>4, <1>5, <1>6, <1>7, <1>8 DEF Inv, PoolBounded

LEMMA ReturnStep == ASSUME Inv, NEW u \in User, ReturnConnection(u) PROVE Inv'
<1> DEFINE i == conn[u]
           c == [pool[i] EXCEPT !.used = FALSE]
<1>0. u \in Thread /\ conn[u] # 0 /\ ~Waiting(u)
  BY UserIsThread DEF Inv, TypeOK, ReturnConnection, Waiting
<1>1. i \in Places /\ pool[i] \in ConnType
  BY <1>0, HolderOfPlace
<1>2. c \in ConnType /\ ~c.used /\ c.err = pool[i].err /\ c.replies = pool[i].replies
  BY <1>1, WithUsed
<1>3. pool' = [pool EXCEPT ![i] = c]
  BY Zenon DEF ReturnConnection
<1>4. pool[i].replies = <<>>
  BY <1>0, <1>1, FieldsOfConn DEF Inv, TypeOK, Replies
<1> HIDE DEF c
<1>5. /\ pool' \in Seq(ConnType) /\ Places' = Places /\ Len(pool') = Len(pool)
      /\ pool'[i] = c /\ \A j \in Places \ {i} : pool'[j] = pool[j]
  BY <1>1, <1>2, <1>3, PlaceChanges DEF Inv
<1>6. \A j \in Places : pool'[j].err = pool[j].err /\ pool'[j].replies = pool[j].replies
  BY <1>1, <1>2, <1>5
<1>7. Used' = Used \ {i}
  BY <1>1, <1>2, <1>5 DEF Used
<1>8. leaked' = leaked /\ leaked \in Nat
  BY DEF Inv, TypeOK, ReturnConnection, history
<1> QED
  BY <1>0, <1>4, <1>5, <1>6, <1>7, <1>8, GivenUp DEF ReturnConnection, history

LEMMA ThrowStep == ASSUME Inv, NEW u \in User, Throw(u) PROVE Inv'
<1>1. u \in Thread /\ conn[u] # 0
  BY UserIsThread DEF Inv, TypeOK, Throw
<1>2. Places' = Places /\ Used' = Used /\ Len(pool') = Len(pool) /\ leaked' \in Nat
  BY DEF Inv, TypeOK, Throw, Places, Used
<1> QED
  BY <1>1, <1>2, GivenUp DEF Inv, TypeOK, Throw

-----------------------------------------------------------------------------
(* Commands.                                                               *)

\* A user's connection becomes c while it goes on to w.
LEMMA UserCommand ==
  ASSUME Inv, NEW u \in User, conn[u] # 0, NEW c \in ConnType,
         NEW w \in {"has", "sent", "replied", "again"},
         c.used = pool[conn[u]].used, c.err => c.replies = <<>>,
         ~c.err => c.replies = IF w \in {"sent", "again"} THEN <<u>> ELSE <<>>,
         pool' = [pool EXCEPT ![conn[u]] = c], To(u, w),
         overlapped' = overlapped,
         UNCHANGED <<redis, shared, conn, breaks, opened, peak, leaked>>
  PROVE  Inv'
<1>1. /\ u \in Thread /\ u \notin Direct /\ pc' = [pc EXCEPT ![u] = w]
      /\ conn[u] \in Places /\ pool[conn[u]].used /\ \A v \in User \ {u} : conn[v] # conn[u]
  BY UserIsThread, HolderOfPlace DEF To
<1>2. /\ pool' \in Seq(ConnType) /\ Places' = Places /\ Len(pool') = Len(pool)
      /\ pool'[conn[u]] = c /\ \A j \in Places \ {conn[u]} : pool'[j] = pool[j]
  BY <1>1, PlaceChanges DEF Inv
<1>3. pc'[u] = w /\ \A v \in User \ {u} : pc'[v] = pc[v] /\ v \in Thread
  BY <1>1, UserIsThread DEF Inv, TypeOK
<1>4. Hands' /\ Count'
  BY <1>1, <1>2, SameMarks
<1>5. TypeOK'
  <2>1. pc' \in [Thread -> {"idle", "has", "sent", "replied", "again"}]
    BY <1>1 DEF Inv, TypeOK
  <2>2. \A v \in User : conn'[v] = 0 <=> pc'[v] = "idle"
    BY <1>3 DEF Inv, TypeOK
  <2>3. \A j \in Places' : pool'[j].err => pool'[j].replies = <<>>
    BY <1>2 DEF Inv, TypeOK
  <2> QED
    BY <1>2, <2>1, <2>2, <2>3 DEF Inv, TypeOK
<1>6. Replies'
  <2>1. ASSUME NEW v \in User, conn'[v] # 0, ~pool'[conn'[v]].err
        PROVE  pool'[conn'[v]].replies = IF Waiting(v)' THEN <<v>> ELSE <<>>
    <3>1. CASE v = u
      BY <1>2, <1>3, <2>1, <3>1 DEF Waiting
    <3>2. CASE v # u
      <4>1. conn[v] \in Places \ {conn[u]}
        BY <1>1, <2>1, <3>2 DEF Inv, TypeOK
      <4> QED
        BY <1>2, <1>3, <2>1, <3>2, <4>1 DEF Inv, Replies, Waiting
    <3> QED
      BY <3>1, <3>2
  <2>2. \A j \in Places' : ~pool'[j].used => pool'[j].replies = <<>>
    BY <1>1, <1>2 DEF Inv, Replies
  <2> QED
    BY <2>1, <2>2 DEF Replies
<1>7. Alone'
  <2>1. \A d \in Direct : pc'[d] = pc[d]
    BY <1>1 DEF Inv, TypeOK, Thread
  <2> QED
    BY <2>1, DirectSame
<1> QED
  BY <1>2, <1>4, <1>5, <1>6, <1>7 DEF Inv, PoolBounded

\* The shared connection becomes c while a Direct thread goes on to w.
LEMMA DirectCommand ==
  ASSUME Inv, NEW d \in Direct, NEW c \in ConnType, shared' = c,
         NEW w \in {"idle", "sent"}, To(d, w), c.err => c.replies = <<>>,
         overlapped' \in BOOLEAN, overlapped => overlapped',
         ~overlapped' =>
            /\ \A e \in Direct \ {d} : pc[e] = "idle"
            /\ c.replies = IF w = "sent" /\ ~c.err THEN <<d>> ELSE <<>>,
         UNCHANGED <<redis, pool, conn, breaks, opened, peak, leaked>>
  PROVE  Inv'
<1>1. d \in Thread /\ d \notin User /\ pc' = [pc EXCEPT ![d] = w]
  BY PoolAssumption DEF Thread, To
<1>2. \A u \in User : pc'[u] = pc[u] /\ u \in Thread
  BY <1>1, UserIsThread DEF Inv, TypeOK
<1>3. Hands' /\ Count'
  BY SameMarks DEF Places
<1>4. TypeOK'
  <2>1. pc' \in [Thread -> {"idle", "has", "sent", "replied", "again"}]
    BY <1>1 DEF Inv, TypeOK
  <2>2. \A u \in User : conn'[u] = 0 <=> pc'[u] = "idle"
    BY <1>2 DEF Inv, TypeOK
  <2> QED
    BY <2>1, <2>2 DEF Inv, TypeOK, Places
<1>5. Replies'
  BY <1>2 DEF Inv, Replies, Waiting, Places
<1>6. Alone'
  <2>1. pc'[d] = w /\ \A e \in Direct \ {d} : pc'[e] = pc[e]
    BY <1>1 DEF Inv, TypeOK, Thread
  <2>2. \A e \in Direct : pc'[e] \in {"idle", "sent"}
    BY <2>1 DEF Inv, Alone
  <2> QED
    BY <2>1, <2>2 DEF Alone
<1> QED
  BY <1>3, <1>4, <1>5, <1>6 DEF Inv, PoolBounded

LEMMA UserSend == ASSUME Inv, NEW u \in User, Send(u) PROVE Inv'
<1> DEFINE c == [pool[conn[u]] EXCEPT !.replies = Append(@, u)]
           w == IF pc[u] = "replied" THEN "again" ELSE "sent"
<1>1. /\ u \in Thread /\ u \notin Direct /\ pc[u] \in {"has", "replied"} /\ conn[u] # 0
      /\ ~Waiting(u) /\ ~pool[conn[u]].err
  BY UserIsThread DEF Inv, TypeOK, Send, Ready, Waiting, At
<1>2. pool[conn[u]] \in ConnType /\ pool[conn[u]].replies = <<>>
  BY <1>1, HolderOfPlace DEF Inv, Replies
<1>3. Append(pool[conn[u]].replies, u) = <<u>> /\ <<u>> \in Seq(Thread)
  BY <1>1, <1>2
<1>4. /\ c \in ConnType /\ c.used = pool[conn[u]].used /\ ~c.err
      /\ c.replies = <<u>>
  BY <1>1, <1>2, <1>3, WithReplies
<1>5. pool' = [pool EXCEPT ![conn[u]] = c] /\ shared' = shared /\ To(u, w)
  BY <1>1 DEF Send, At, PutAt
<1>6. overlapped' = overlapped
  BY <1>1 DEF Send, Sharing, Inv, TypeOK
<1>7. UNCHANGED <<redis, conn, breaks, opened, peak, leaked>>
  BY DEF Send
<1>8. w \in {"sent", "again"}
  OBVIOUS
<1> HIDE DEF c, w
<1> QED
  BY <1>1, <1>4, <1>5, <1>6, <1>7, <1>8, UserCommand

LEMMA UserReceive == ASSUME Inv, NEW u \in User, Receive(u) PROVE Inv'
<1> DEFINE c == [pool[conn[u]] EXCEPT !.replies = Tail(@)]
<1>1. /\ u \in Thread /\ u \notin Direct /\ Waiting(u) /\ conn[u] # 0
      /\ pool[conn[u]].replies # <<>>
  BY UserIsThread DEF Inv, TypeOK, Receive, Waiting, At
<1>2. pool[conn[u]] \in ConnType /\ ~pool[conn[u]].err /\ pool[conn[u]].replies = <<u>>
  BY <1>1, HolderOfPlace DEF Inv, TypeOK, Replies
<1>3. Tail(pool[conn[u]].replies) = <<>> /\ <<>> \in Seq(Thread)
  BY <1>2
<1>4. c \in ConnType /\ c.used = pool[conn[u]].used /\ ~c.err /\ c.replies = <<>>
  BY <1>2, <1>3, WithReplies
<1>5. /\ pool' = [pool EXCEPT ![conn[u]] = c] /\ shared' = shared /\ To(u, "replied")
      /\ UNCHANGED <<redis, conn, breaks, history>>
  BY <1>1 DEF Receive, At, PutAt
<1> HIDE DEF c
<1> QED
  BY <1>1, <1>4, <1>5, UserCommand DEF history

LEMMA UserFail == ASSUME Inv, NEW u \in User, Fail(u) PROVE Inv'
<1> DEFINE c == pool[conn[u]]
           w == IF pc[u] = "again" THEN "replied" ELSE "has"
<1>1. u \in Thread /\ u \notin Direct /\ conn[u] # 0 /\ c.err
  BY UserIsThread DEF Inv, TypeOK, Fail, Waiting, At
<1>2. conn[u] \in Places /\ c \in ConnType /\ c.replies = <<>>
  BY <1>1, HolderOfPlace DEF Inv, TypeOK
<1>3. pool' = [pool EXCEPT ![conn[u]] = c] /\ To(u, w)
  BY <1>1, <1>2 DEF Inv, TypeOK, Fail, Places
<1>4. UNCHANGED <<redis, shared, conn, breaks, history>>
  BY DEF Fail
<1>5. w \in {"has", "replied"}
  OBVIOUS
<1> HIDE DEF c, w
<1> QED
  BY <1>1, <1>2, <1>3, <1>4, <1>5, UserCommand DEF history, c

LEMMA DirectSend == ASSUME Inv, NEW d \in Direct, Send(d) PROVE Inv'
<1> DEFINE c == [shared EXCEPT !.replies = Append(@, d)]
<1>1. d \in Thread /\ pc[d] = "idle" /\ ~shared.err /\ shared \in ConnType
  BY DEF Inv, TypeOK, Send, Ready, At, Thread
<1>2. Append(shared.replies, d) \in Seq(Thread)
  BY <1>1, FieldsOfConn
<1>3. c \in ConnType /\ ~c.err /\ c.replies = Append(shared.replies, d)
  BY <1>1, <1>2, WithReplies
<1>4. shared' = c /\ pool' = pool /\ To(d, "sent")
  BY <1>1 DEF Send, At, PutAt
<1>5. overlapped' \in BOOLEAN /\ (overlapped => overlapped')
  BY DEF Inv, TypeOK, Send
<1> HIDE DEF c
<1>6. ASSUME ~overlapped'
      PROVE  (\A e \in Direct \ {d} : pc[e] = "idle") /\ c.replies = <<d>>
  <2>1. ~overlapped /\ \A e \in Direct \ {d} : ~Waiting(e)
    BY <1>6 DEF Send, Sharing
  <2>2. \A e \in Direct : pc[e] = "idle"
    BY <1>1, <2>1 DEF Inv, Alone, Waiting
  <2>3. shared.replies = <<>>
    BY <2>1, <2>2 DEF Inv, Alone
  <2> QED
    BY <1>3, <2>2, <2>3
<1> QED
  BY <1>3, <1>4, <1>5, <1>6, DirectCommand DEF Send

\* Without overlapping calls, all other threads are idle while one waits.
LEMMA OthersIdle ==
  ASSUME Inv, NEW d \in Direct, Waiting(d), ~overlapped
  PROVE  (\A e \in Direct \ {d} : pc[e] = "idle") /\ shared.replies = IF shared.err THEN <<>> ELSE <<d>>
  BY DEF Inv, Alone, Waiting

LEMMA DirectReceive == ASSUME Inv, NEW d \in Direct, Receive(d) PROVE Inv'
<1> DEFINE c == [shared EXCEPT !.replies = Tail(@)]
<1>1. d \in Thread /\ Waiting(d) /\ shared.replies # <<>> /\ ~shared.err /\ shared \in ConnType
  BY DEF Inv, TypeOK, Alone, Receive, At, Thread
<1>2. Tail(shared.replies) \in Seq(Thread)
  BY <1>1, FieldsOfConn
<1>3. c \in ConnType /\ ~c.err /\ c.replies = Tail(shared.replies)
  BY <1>1, <1>2, WithReplies
<1>4. /\ shared' = c /\ pool' = pool /\ To(d, "idle")
      /\ UNCHANGED <<redis, conn, breaks, history>>
  BY DEF Receive, At, PutAt
<1> HIDE DEF c
<1>5. ASSUME ~overlapped
      PROVE  (\A e \in Direct \ {d} : pc[e] = "idle") /\ c.replies = <<>>
  <2>1. (\A e \in Direct \ {d} : pc[e] = "idle") /\ shared.replies = <<d>>
    BY <1>1, <1>5, OthersIdle
  <2>2. Tail(<<d>>) = <<>>
    OBVIOUS
  <2> QED
    BY <1>3, <2>1, <2>2
<1>6. overlapped \in BOOLEAN
  BY DEF Inv, TypeOK
<1> QED
  BY <1>3, <1>4, <1>5, <1>6, DirectCommand DEF history

LEMMA DirectFail == ASSUME Inv, NEW d \in Direct, Fail(d) PROVE Inv'
<1>1. Waiting(d) /\ shared.err /\ shared.replies = <<>> /\ shared \in ConnType /\ To(d, "idle")
  BY DEF Inv, TypeOK, Alone, Fail, At
<1>2. ~overlapped => \A e \in Direct \ {d} : pc[e] = "idle"
  BY <1>1, OthersIdle
<1>3. overlapped \in BOOLEAN /\ UNCHANGED <<redis, pool, shared, conn, breaks, history>>
  BY DEF Inv, TypeOK, Fail
<1> QED
  BY <1>1, <1>2, <1>3, DirectCommand DEF history

-----------------------------------------------------------------------------
(* Faults: some connections fail, or none, and no thread moves.            *)

LEMMA Fails ==
  ASSUME Inv, redis' \in {"up", "down"}, breaks' \in 0..MaxBreaks, UNCHANGED <<conn, pc, history>>,
         pool' \in Seq(ConnType), Places' = Places, Len(pool') = Len(pool),
         \A i \in Places : pool'[i] \in {pool[i], Failed(pool[i])},
         shared' \in {shared, Failed(shared)}
  PROVE  Inv'
<1>1. \A i \in Places :
        /\ pool'[i].used = pool[i].used
        /\ pool'[i] = pool[i] \/ (pool'[i].err /\ pool'[i].replies = <<>>)
  BY PlacesOfPool, FailedConn DEF Inv
<1>2. shared' \in ConnType /\ (shared' = shared \/ (shared'.err /\ shared'.replies = <<>>))
  BY FailedConn DEF Inv, TypeOK
<1>3. Hands' /\ Count'
  BY <1>1, SameMarks DEF history
<1>4. TypeOK'
  <2>1. \A i \in Places' : pool'[i].err => pool'[i].replies = <<>>
    BY <1>1 DEF Inv, TypeOK
  <2> QED
    BY <1>2, <2>1 DEF Inv, TypeOK, history
<1>5. Replies'
  <2>1. ASSUME NEW u \in User, conn'[u] # 0, ~pool'[conn'[u]].err
        PROVE  pool'[conn'[u]].replies = IF Waiting(u)' THEN <<u>> ELSE <<>>
    <3>1. conn[u] \in Places /\ conn'[u] = conn[u] /\ pc'[u] = pc[u]
      BY <2>1 DEF Inv, TypeOK
    <3> QED
      BY <1>1, <2>1, <3>1 DEF Inv, Replies, Waiting
  <2>2. \A i \in Places' : ~pool'[i].used => pool'[i].replies = <<>>
    BY <1>1 DEF Inv, Replies
  <2> QED
    BY <2>1, <2>2 DEF Replies
<1>6. Alone'
  BY <1>2 DEF Inv, Alone, history
<1> QED
  BY <1>3, <1>4, <1>5, <1>6 DEF Inv, PoolBounded, history

LEMMA StruckBounded == ASSUME Inv, Struck PROVE breaks' \in 0..MaxBreaks
  BY PoolAssumption DEF Inv, TypeOK, Struck

LEMMA BreakStep == ASSUME Inv, NEW i \in Places, Break(i) PROVE Inv'
<1>1. Failed(pool[i]) \in ConnType /\ pool' = [pool EXCEPT ![i] = Failed(pool[i])]
  BY PlacesOfPool, FailedConn DEF Inv, Break
<1>2. /\ pool' \in Seq(ConnType) /\ Places' = Places /\ Len(pool') = Len(pool)
      /\ pool'[i] = Failed(pool[i]) /\ \A j \in Places \ {i} : pool'[j] = pool[j]
  BY <1>1, PlaceChanges DEF Inv
<1>3. /\ breaks' \in 0..MaxBreaks /\ UNCHANGED <<redis, shared, conn, pc, history>>
      /\ redis \in {"up", "down"}
  BY StruckBounded DEF Break, Inv, TypeOK
<1> QED
  BY <1>2, <1>3, Fails

LEMMA OutageStep == ASSUME Inv, Outage PROVE Inv'
<1>1. /\ Places = 1..Len(pool) /\ Len(pool) \in Nat
      /\ \A i \in Places : Failed(pool[i]) \in ConnType
  BY PlacesOfPool, FailedConn DEF Inv
<1>2. pool' = [i \in 1..Len(pool) |-> Failed(pool[i])]
  BY <1>1 DEF Outage
<1>3. pool' \in Seq(ConnType) /\ Len(pool') = Len(pool) /\ \A i \in Places : pool'[i] = Failed(pool[i])
  BY <1>1, <1>2
<1>4. Places' = Places
  BY <1>1, <1>2 DEF Places
<1>5. /\ breaks' \in 0..MaxBreaks /\ UNCHANGED <<conn, pc, history>>
      /\ redis' = "down" /\ shared' = Failed(shared)
  BY StruckBounded DEF Outage
<1> QED
  BY <1>3, <1>4, <1>5, Fails

LEMMA OtherSteps == ASSUME Inv, RedisStarts \/ Garble \/ UNCHANGED vars PROVE Inv'
<1>1. /\ UNCHANGED <<pool, conn, pc, breaks, history>> /\ redis' \in {"up", "down"}
      /\ shared' \in {shared, Failed(shared)}
  BY DEF Inv, TypeOK, RedisStarts, Garble, vars
<1>2. pool' \in Seq(ConnType) /\ breaks' \in 0..MaxBreaks
  BY <1>1 DEF Inv, TypeOK
<1>3. Places' = Places /\ Len(pool') = Len(pool) /\ \A i \in Places : pool'[i] = pool[i]
  BY <1>1 DEF Places
<1> QED
  BY <1>1, <1>2, <1>3, Fails

-----------------------------------------------------------------------------
LEMMA InvInit == Init => Inv
<1> SUFFICES ASSUME Init PROVE Inv
  OBVIOUS
<1> DEFINE c == NewConn(FALSE)
<1>0. /\ c \in ConnType /\ ~c.used /\ ~c.err /\ c.replies = <<>>
      /\ NewConn(TRUE) \in ConnType /\ ~NewConn(TRUE).err /\ NewConn(TRUE).replies = <<>>
  <2>1. TRUE \in BOOLEAN /\ FALSE \in BOOLEAN
    OBVIOUS
  <2> QED
    BY ONLY <2>1, NewConnType, Zenon
<1>1. /\ opened \in Nat /\ opened \in 0..PoolSize /\ pool = [i \in 1..opened |-> c]
      /\ shared = NewConn(TRUE)
  BY PoolAssumption DEF Init
<1> HIDE DEF c
<1>2. /\ pool \in Seq(ConnType) /\ Len(pool) = opened /\ Places = 1..opened
      /\ \A i \in Places : pool[i] = c
  BY <1>0, <1>1 DEF Places
<1>3. Holders = {} /\ Used = {}
  BY <1>0, <1>2 DEF Init, Holders, Used
<1>4. TypeOK
  <2>1. \A i \in Places : pool[i].err => pool[i].replies = <<>>
    BY <1>0, <1>2
  <2>2. conn \in [User -> Nat] /\ \A u \in User : conn[u] = 0 /\ pc[u] = "idle"
    BY UserIsThread DEF Init
  <2>3. pc \in [Thread -> {"idle", "has", "sent", "replied", "again"}]
    BY DEF Init
  <2>4. redis \in {"up", "down"} /\ breaks = 0 /\ peak = 0 /\ leaked = 0 /\ overlapped = FALSE
    BY DEF Init
  <2>5. breaks \in 0..MaxBreaks /\ peak \in Nat /\ leaked \in Nat
    BY <2>4, PoolAssumption
  <2>6. \A u \in User : conn[u] \in {0} \cup Places /\ (conn[u] = 0 <=> pc[u] = "idle")
    BY <2>2
  <2>7. shared \in ConnType
    BY <1>0, <1>1
  <2> QED
    BY <1>1, <1>2, <2>1, <2>2, <2>3, <2>4, <2>5, <2>6, <2>7 DEF TypeOK
<1>5. Hands /\ Count
  BY <1>3, FS_EmptySet DEF Init, Hands, Count
<1>6. Replies
  BY <1>0, <1>2 DEF Init, Replies
<1>7. Alone
  BY <1>0, <1>1 DEF Init, Alone, Thread
<1>8. PoolBounded
  BY <1>1, <1>2 DEF PoolBounded
<1> QED
  BY <1>4, <1>5, <1>6, <1>7, <1>8 DEF Inv

LEMMA InvNext == Inv /\ [Next]_vars => Inv'
<1> SUFFICES ASSUME Inv, [Next]_vars PROVE Inv'
  OBVIOUS
<1>1. ASSUME NEW u \in User, GetConnection(u) \/ ReturnConnection(u) \/ Throw(u) PROVE Inv'
  BY <1>1, TakeFreeStep, OpenNewStep, ReturnStep, ThrowStep DEF GetConnection
<1>2. ASSUME NEW u \in Thread, Send(u) \/ Receive(u) \/ Fail(u) PROVE Inv'
  BY <1>2, UserSend, UserReceive, UserFail, DirectSend, DirectReceive, DirectFail DEF Thread
<1>3. ASSUME NEW i \in Places, Break(i) PROVE Inv'
  BY <1>3, BreakStep
<1> QED
  BY <1>1, <1>2, <1>3, OutageStep, OtherSteps DEF Next

LEMMA Inductive == Spec => []Inv
  BY InvInit, InvNext, PTL DEF Spec

-----------------------------------------------------------------------------
(* The types of the pool, and of the threads that use it.                  *)
THEOREM PoolTyped == Spec => []TypeOK
<1>1. Inv => TypeOK
  BY DEF Inv
<1> QED
  BY Inductive, <1>1, PTL

(* A connection has one user at most, and a place that is marked as in use *)
(* has a user or was lost to an exception.                                 *)
THEOREM ConnectionHasOneUser == Spec => []OneUser
<1>1. Inv => OneUser
  BY DEF Inv, Hands, Count, OneUser
<1> QED
  BY Inductive, <1>1, PTL

(* The reply on a connection of the pool is for the thread that waits, and *)
(* so it is on the shared one as long as no two calls overlap.             *)
THEOREM RepliesReachTheirCaller == Spec => []OwnReply
<1>1. Inv => OwnReply
  <2> SUFFICES ASSUME Inv, NEW u \in Thread, Waiting(u), ~At(u).err
               PROVE  At(u).replies = <<u>> \/ (u \in Direct /\ overlapped)
    BY DEF OwnReply
  <2>1. CASE u \in Direct
    BY <2>1, OthersIdle DEF At
  <2>2. CASE u \notin Direct
    <3>1. u \in User /\ conn[u] # 0 /\ At(u) = pool[conn[u]]
      BY <2>2 DEF Inv, TypeOK, Thread, Waiting, At
    <3> QED
      BY <3>1 DEF Inv, Replies
  <2> QED
    BY <2>1, <2>2
<1> QED
  BY Inductive, <1>1, PTL

(* The pool has no more connections than were opened at the start or were  *)
(* needed, or lost, at the busiest time.                                   *)
THEOREM PoolStaysSmall == Spec => []PoolBounded
<1>1. Inv => PoolBounded
  BY DEF Inv
<1> QED
  BY Inductive, <1>1, PTL
=============================================================================
