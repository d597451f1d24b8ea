--------------------------- MODULE SnowflakeProofs --------------------------
(***************************************************************************)
(* For any number of threads, any sequence width and any behaviour of the  *)
(* clock, the ids of one process are strictly increasing; while the clock  *)
(* is not stepped back, those of all processes together are unique.        *)
(***************************************************************************)
EXTENDS Snowflake, TLAPS

LEMMA IdIsNat ==
    ASSUME NEW ts \in Nat, NEW s \in 0..(SequenceSize - 1)
    PROVE  Id(ts, s) \in Nat
<1> DEFINE K == 1024 * SequenceSize
<1>1. K \in Nat /\ SequenceSize \in Nat /\ WorkerId \in Nat
  BY IdAssumption
<1>2. ts * K \in Nat /\ WorkerId * SequenceSize \in Nat
  BY <1>1
<1> QED
  BY <1>1, <1>2 DEF Id

\* Ids are ordered by timestamp, then by sequence number: the sequence does not
\* carry into the bits of the timestamp.
LEMMA IdOrder ==
    ASSUME NEW ts \in Nat, NEW s \in 0..(SequenceSize - 1),
           NEW us \in Nat, NEW r \in 0..(SequenceSize - 1),
           ts < us \/ (ts = us /\ s < r)
    PROVE  Id(ts, s) < Id(us, r)
<1> DEFINE K == 1024 * SequenceSize
           W == WorkerId * SequenceSize
<1>1. K \in Nat /\ SequenceSize \in Nat \ {0} /\ WorkerId \in Nat /\ K >= SequenceSize
  BY IdAssumption
<1>2. W \in Nat
  BY <1>1
<1>3. Id(ts, s) = ts * K + (W + s) /\ Id(us, r) = us * K + (W + r)
  BY DEF Id
<1>4. CASE ts = us /\ s < r
  <2>1. ts * K \in Nat
    BY <1>1
  <2> HIDE DEF K, W
  <2> QED
    BY <1>2, <1>3, <1>4, <2>1
<1>5. CASE ts < us
  <2>1. (ts + 1) * K <= us * K
    <3> HIDE DEF K
    <3>1. us = (ts + 1) + (us - (ts + 1)) /\ us - (ts + 1) \in Nat
      BY <1>5
    <3>2. us * K = (ts + 1) * K + (us - (ts + 1)) * K
      BY <1>1, <3>1
    <3>3. (us - (ts + 1)) * K \in Nat /\ (ts + 1) * K \in Nat
      BY <1>1, <3>1
    <3> QED
      BY <3>2, <3>3
  <2>2. (ts + 1) * K = ts * K + K /\ ts * K \in Nat /\ us * K \in Nat
    <3> HIDE DEF K
    <3> QED
      BY <1>1
  <2> HIDE DEF K, W
  <2> QED
    BY <1>1, <1>2, <1>3, <2>1, <2>2
<1> QED
  BY <1>4, <1>5

-----------------------------------------------------------------------------
\* The largest sequence number the last millisecond may have used.
Used == IF Spinning THEN SequenceSize - 1 ELSE sequence

(* The inductive invariant: the ids are bounded by the last timestamp, and *)
(* while a thread waits, the sequence it reset to 0 is used by nobody.     *)
IInv ==
    /\ TypeOK
    /\ StrictlyIncreasing
    /\ \A i \in DOMAIN issued :
           last_timestamp \in Nat /\ issued[i] <= Id(last_timestamp, Used)
    /\ \A c \in Caller : pc[c] = "spin" =>
           /\ sequence = 0 /\ last_timestamp \in Nat
           /\ \A d \in Caller : pc[d] = "spin" => c = d

\* Appending an id above all the others keeps them strictly increasing.
LEMMA AppendAbove ==
    ASSUME issued \in Seq(Nat), StrictlyIncreasing, NEW id \in Nat,
           \A i \in DOMAIN issued : issued[i] < id,
           issued' = Append(issued, id)
    PROVE  /\ issued' \in Seq(Nat)
           /\ StrictlyIncreasing'
           /\ \A i \in DOMAIN issued' : issued'[i] <= id
<1> DEFINE n == Len(issued)
<1>1. n \in Nat /\ DOMAIN issued = 1..n /\ issued' \in Seq(Nat)
  OBVIOUS
<1>2. /\ DOMAIN issued' = 1..(n + 1)
      /\ \A i \in 1..n : issued'[i] = issued[i]
      /\ issued'[n + 1] = id
  OBVIOUS
<1>3. \A i \in 1..n : issued[i] \in Nat
  BY <1>1
<1> HIDE DEF n
<1>4. StrictlyIncreasing'
  <2> SUFFICES ASSUME NEW i \in 1..(n + 1), NEW j \in 1..(n + 1), i < j
               PROVE  issued'[i] < issued'[j]
    BY <1>2 DEF StrictlyIncreasing
  <2>1. i \in 1..n
    BY <1>1
  <2>2. CASE j \in 1..n
    BY <1>1, <1>2, <2>1, <2>2 DEF StrictlyIncreasing
  <2>3. CASE j = n + 1
    BY <1>1, <1>2, <2>1, <2>3
  <2> QED
    BY <1>1, <2>2, <2>3
<1>5. \A i \in DOMAIN issued' : issued'[i] <= id
  <2> SUFFICES ASSUME NEW i \in 1..(n + 1) PROVE issued'[i] <= id
    BY <1>2
  <2>1. CASE i \in 1..n
    BY <1>1, <1>2, <1>3, <2>1
  <2> QED
    BY <1>1, <1>2, <2>1
<1> QED
  BY <1>1, <1>4, <1>5

\* A return with an id above the bound of the earlier ones keeps the invariant.
LEMMA ReturnAbove ==
    ASSUME IInv, NEW c \in Caller, NEW ts \in Nat, NEW s \in 0..(SequenceSize - 1),
           Return(c, ts, s), UNCHANGED <<clock, earlier, bounds>>,
           \A d \in Caller \ {c} : pc[d] # "spin",
           last_timestamp \in Nat =>
               last_timestamp < ts \/ (last_timestamp = ts /\ Used < s)
    PROVE  IInv'
<1>1. SequenceSize \in Nat \ {0}
  BY IdAssumption
<1>2. Used \in 0..(SequenceSize - 1)
  BY <1>1 DEF IInv, TypeOK, Used
<1>3. Id(ts, s) \in Nat
  BY IdIsNat
<1>4. \A i \in DOMAIN issued : issued[i] < Id(ts, s)
  <2> SUFFICES ASSUME NEW i \in DOMAIN issued PROVE issued[i] < Id(ts, s)
    OBVIOUS
  <2>1. last_timestamp \in Nat /\ issued[i] <= Id(last_timestamp, Used)
    BY DEF IInv
  <2>2. Id(last_timestamp, Used) < Id(ts, s)
    BY <1>2, <2>1, IdOrder
  <2>3. Id(last_timestamp, Used) \in Nat
    BY <1>2, <2>1, IdIsNat
  <2>4. issued[i] \in Nat
    BY DEF IInv, TypeOK
  <2> QED
    BY <1>3, <2>1, <2>2, <2>3, <2>4
<1>5. /\ issued' \in Seq(Nat) /\ StrictlyIncreasing'
      /\ \A i \in DOMAIN issued' : issued'[i] <= Id(ts, s)
  BY <1>3, <1>4, AppendAbove DEF IInv, TypeOK, Return
<1>6. /\ pc' \in [Caller -> {"idle", "want", "spin"}]
      /\ \A d \in Caller : pc'[d] # "spin"
  BY DEF IInv, TypeOK, Return
<1>7. Used' = s
  BY <1>6 DEF Used, Spinning, Return
<1>8. TypeOK'
  BY <1>5, <1>6 DEF IInv, TypeOK, Return, bounds
<1>9. \A i \in DOMAIN issued' :
          last_timestamp' \in Nat /\ issued'[i] <= Id(last_timestamp', Used')
  BY <1>5, <1>7 DEF Return
<1> QED
  BY <1>5, <1>6, <1>8, <1>9 DEF IInv, Id

LEMMA InitInv == Init => IInv
BY IdAssumption DEF Init, IInv, TypeOK, StrictlyIncreasing

LEMMA NextInv == IInv /\ [Next]_vars => IInv'
<1> SUFFICES ASSUME IInv, [Next]_vars PROVE IInv'
  OBVIOUS
<1>1. SequenceSize \in Nat \ {0} /\ clock \in Nat
  BY IdAssumption DEF IInv, TypeOK
<1>2. ASSUME NEW c \in Caller, Call(c) \/ Throw(c) PROVE IInv'
  <2>1. /\ UNCHANGED <<clock, generator, issued, bounds>>
        /\ pc' \in [Caller -> {"idle", "want", "spin"}]
        /\ \A d \in Caller : pc'[d] = "spin" <=> pc[d] = "spin"
    BY <1>2 DEF Call, Throw, IInv, TypeOK
  <2>2. Used' = Used
    BY <2>1 DEF Used, Spinning, generator
  <2> QED
    BY <2>1, <2>2 DEF IInv, TypeOK, StrictlyIncreasing, generator, bounds, Id
<1>3. ASSUME NEW c \in Caller, SameMillis(c) PROVE IInv'
  <2> DEFINE next == (sequence + 1) % SequenceSize
  <2>1. /\ ~Spinning /\ last_timestamp = clock /\ clock \in Nat
        /\ sequence \in 0..(SequenceSize - 1)
    BY <1>3 DEF SameMillis, IInv, TypeOK
  <2>2. next = IF sequence + 1 = SequenceSize THEN 0 ELSE sequence + 1
    BY <1>1, <2>1
  <2>3. CASE next # 0
    <3>1. Return(c, clock, next) /\ UNCHANGED <<clock, earlier, bounds>>
      BY <1>3, <2>3 DEF SameMillis
    <3>2. next \in 0..(SequenceSize - 1) /\ Used < next
      BY <1>1, <2>1, <2>2, <2>3 DEF Used
    <3>3. \A d \in Caller : pc[d] # "spin"
      BY <2>1 DEF Spinning
    <3> HIDE DEF next
    <3> QED
      BY <2>1, <3>1, <3>2, <3>3, ReturnAbove
  <2>4. CASE next = 0
    <3>1. sequence = SequenceSize - 1
      BY <1>1, <2>1, <2>2, <2>4
    <3>2. /\ sequence' = 0 /\ pc' = [pc EXCEPT ![c] = "spin"]
          /\ UNCHANGED <<last_timestamp, issued, clock, bounds>>
      BY <1>3, <2>4 DEF SameMillis, bounds
    <3>3. pc \in [Caller -> {"idle", "want", "spin"}] /\ \A d \in Caller : pc[d] # "spin"
      BY <2>1 DEF Spinning, IInv, TypeOK
    <3>4. /\ pc' \in [Caller -> {"idle", "want", "spin"}]
          /\ \A d \in Caller : pc'[d] = "spin" <=> d = c
      BY <3>2, <3>3
    <3>5. Used = sequence /\ Used' = SequenceSize - 1
      BY <2>1, <3>4 DEF Used, Spinning
    <3>6. TypeOK'
      BY <1>1, <3>2, <3>4 DEF IInv, TypeOK, bounds
    <3>7. \A i \in DOMAIN issued' :
            last_timestamp' \in Nat /\ issued'[i] <= Id(last_timestamp', Used')
      BY <3>1, <3>2, <3>5 DEF IInv, Id
    <3> QED
      BY <2>1, <3>2, <3>4, <3>6, <3>7 DEF IInv, StrictlyIncreasing
  <2> QED
    BY <2>3, <2>4
<1>4. ASSUME NEW c \in Caller, NewMillis(c) PROVE IInv'
  <2>1. /\ Return(c, clock, 0) /\ UNCHANGED <<clock, earlier, bounds>>
        /\ clock > last_timestamp /\ \A d \in Caller : pc[d] # "spin"
    BY <1>4 DEF NewMillis, Spinning
  <2>2. 0 \in 0..(SequenceSize - 1)
    BY <1>1
  <2>3. last_timestamp \in Nat => last_timestamp < clock
    BY <1>1, <2>1
  <2> QED
    BY <1>1, <2>1, <2>2, <2>3, ReturnAbove
<1>5. ASSUME NEW c \in Caller, WaitNextMillis(c) PROVE IInv'
  <2>1. /\ Return(c, clock, sequence) /\ UNCHANGED <<clock, earlier, bounds>>
        /\ clock > last_timestamp /\ pc[c] = "spin"
    BY <1>5 DEF WaitNextMillis
  <2>2. sequence \in 0..(SequenceSize - 1) /\ \A d \in Caller \ {c} : pc[d] # "spin"
    BY <2>1 DEF IInv, TypeOK
  <2>3. last_timestamp \in Nat => last_timestamp < clock
    BY <1>1, <2>1
  <2> QED
    BY <1>1, <2>1, <2>2, <2>3, ReturnAbove
<1>6. CASE Tick \/ StepBack \/ UNCHANGED vars
  <2>1. /\ UNCHANGED <<generator, pc, issued>>
        /\ clock' \in Nat /\ stepsBack' \in Nat /\ restarts' \in Nat
    BY <1>1, <1>6 DEF Tick, StepBack, vars, bounds, IInv, TypeOK
  <2>2. Used' = Used
    BY <2>1 DEF Used, Spinning, generator
  <2> QED
    BY <2>1, <2>2 DEF IInv, TypeOK, StrictlyIncreasing, generator, Id
<1>7. CASE Restart
  <2>1. /\ issued' = <<>> /\ last_timestamp' = -1 /\ sequence' = 0
        /\ pc' = [c \in Caller |-> "idle"] /\ clock' \in Nat
        /\ stepsBack' \in Nat /\ restarts' \in Nat
    BY <1>1, <1>7 DEF Restart, IInv, TypeOK
  <2> QED
    BY <1>1, <2>1 DEF IInv, TypeOK, StrictlyIncreasing
<1> QED
  BY <1>2, <1>3, <1>4, <1>5, <1>6, <1>7 DEF Next, NextId

LEMMA Inductive == Spec => []IInv
  BY InitInv, NextInv, PTL DEF Spec

(* The generator's sequence number stays within its bits and ids are       *)
(* naturals, whatever the clock does.                                      *)
THEOREM GeneratorTyped == Spec => []TypeOK
<1>1. IInv => TypeOK
  BY DEF IInv
<1> QED
  BY Inductive, <1>1, PTL

(* The ids one process hands out are strictly increasing, whatever the     *)
(* clock does and whichever threads wait in waitNextMillis.                *)
THEOREM IdsIncrease == Spec => []StrictlyIncreasing
<1>1. IInv => StrictlyIncreasing
  BY DEF IInv
<1> QED
  BY Inductive, <1>1, PTL

-----------------------------------------------------------------------------
(* Restarts.  Without a step back the clock has passed all that was issued:*)
(* what earlier processes issued is below its current millisecond and below*)
(* what this process issues.                                               *)
Ahead ==
    /\ earlier \subseteq Nat
    /\ stepsBack = 0 =>
         /\ last_timestamp <= clock
         /\ \A e \in earlier : e < Id(clock, 0)
         /\ \A i \in DOMAIN issued :
              issued[i] < Id(clock + 1, 0) /\ \A e \in earlier : e < issued[i]

\* An id of the current millisecond is between the bounds of Ahead.
LEMMA IdOfMillis ==
    ASSUME NEW ts \in Nat, NEW s \in 0..(SequenceSize - 1)
    PROVE  /\ Id(ts, 0) \in Nat /\ Id(ts, s) \in Nat /\ Id(ts + 1, 0) \in Nat
           /\ Id(ts, 0) <= Id(ts, s) /\ Id(ts, s) < Id(ts + 1, 0)
<1>1. 0 \in 0..(SequenceSize - 1) /\ ts + 1 \in Nat /\ ts < ts + 1
  BY IdAssumption
<1>2. Id(ts, 0) \in Nat /\ Id(ts, s) \in Nat /\ Id(ts + 1, 0) \in Nat
  BY <1>1, IdIsNat
<1>3. Id(ts, s) < Id(ts + 1, 0)
  BY <1>1, IdOrder
<1>4. CASE s = 0
  BY <1>2, <1>3, <1>4
<1>5. CASE 0 < s
  <2>1. Id(ts, 0) < Id(ts, s)
    BY <1>1, <1>5, IdOrder
  <2> QED
    BY <1>2, <1>3, <2>1
<1> QED
  BY <1>4, <1>5

LEMMA AheadReturn ==
    ASSUME IInv, Ahead, NEW c \in Caller, NEW s \in 0..(SequenceSize - 1),
           Return(c, clock, s), UNCHANGED <<clock, earlier, bounds>>
    PROVE  Ahead'
<1> DEFINE id == Id(clock, s)
           n == Len(issued)
<1>1. clock \in Nat /\ issued \in Seq(Nat) /\ earlier \subseteq Nat
  BY DEF IInv, TypeOK, Ahead
<1>2. Id(clock, 0) \in Nat /\ id \in Nat /\ Id(clock, 0) <= id /\ id < Id(clock + 1, 0)
  BY <1>1, IdOfMillis
<1>3. /\ n \in Nat /\ DOMAIN issued = 1..n /\ DOMAIN issued' = 1..(n + 1)
      /\ \A i \in 1..n : issued'[i] = issued[i]
      /\ issued'[n + 1] = id
  BY <1>1, <1>2 DEF Return
<1>4. last_timestamp' = clock /\ clock' = clock /\ earlier' = earlier /\ stepsBack' = stepsBack
      /\ Id(clock, 0)' = Id(clock, 0) /\ Id(clock + 1, 0)' = Id(clock + 1, 0)
  BY DEF Return, bounds, Id
<1> HIDE DEF id, n
<1>5. ASSUME stepsBack = 0, NEW i \in DOMAIN issued'
      PROVE  issued'[i] < Id(clock + 1, 0) /\ \A e \in earlier : e < issued'[i]
  <2>1. CASE i \in 1..n
    BY <1>3, <1>5, <2>1 DEF Ahead
  <2>2. CASE i = n + 1
    BY <1>1, <1>2, <1>3, <1>5, <2>2 DEF Ahead
  <2> QED
    BY <1>3, <2>1, <2>2
<1> QED
  BY <1>1, <1>4, <1>5 DEF Ahead

LEMMA AheadNext == IInv /\ Ahead /\ [Next]_vars => Ahead'
<1> SUFFICES ASSUME IInv, Ahead, [Next]_vars PROVE Ahead'
  OBVIOUS
<1>1. /\ SequenceSize \in Nat \ {0} /\ clock \in Nat /\ stepsBack \in Nat
      /\ issued \in Seq(Nat) /\ last_timestamp \in Int /\ earlier \subseteq Nat
  BY IdAssumption DEF IInv, TypeOK, Ahead
<1>2. ASSUME NEW c \in Caller, NextId(c) PROVE Ahead'
  <2> DEFINE next == (sequence + 1) % SequenceSize
  <2>1. next \in 0..(SequenceSize - 1) /\ sequence \in 0..(SequenceSize - 1) /\ 0 \in 0..(SequenceSize - 1)
    BY <1>1 DEF IInv, TypeOK
  <2>2. CASE \E s \in 0..(SequenceSize - 1) : Return(c, clock, s) /\ UNCHANGED <<clock, earlier, bounds>>
    BY <2>2, AheadReturn
  <2>3. CASE UNCHANGED <<last_timestamp, issued, clock, earlier, bounds>>
    BY <2>3 DEF Ahead, bounds, Id
  <2> QED
    BY <1>2, <2>1, <2>2, <2>3 DEF NextId, Throw, SameMillis, NewMillis, WaitNextMillis, generator
<1>3. CASE Tick
  <2>1. clock' = clock + 1 /\ UNCHANGED <<last_timestamp, issued, earlier, stepsBack>>
    BY <1>3 DEF Tick, generator, bounds
  <2>2. /\ Id(clock, 0) \in Nat /\ Id(clock + 1, 0) \in Nat /\ Id(clock', 0) = Id(clock + 1, 0)
        /\ Id(clock, 0) < Id(clock + 1, 0) /\ Id(clock', 0) < Id(clock' + 1, 0)
        /\ Id(clock' + 1, 0) \in Nat
    <3>1. 0 \in 0..(SequenceSize - 1) /\ clock' \in Nat
      BY <1>1, <2>1
    <3> QED
      BY <1>1, <2>1, <3>1, IdOfMillis
  <2>3. Id(clock, 0)' = Id(clock', 0) /\ Id(clock + 1, 0)' = Id(clock' + 1, 0)
    BY DEF Id
  <2>4. \A i \in DOMAIN issued : issued[i] \in Nat
    BY <1>1
  <2> QED
    BY <1>1, <2>1, <2>2, <2>3, <2>4 DEF Ahead
<1>4. CASE Restart
  <2>1. /\ clock' = clock + 1 /\ issued' = <<>> /\ last_timestamp' = -1 /\ stepsBack' = stepsBack
        /\ earlier' = earlier \cup {issued[i] : i \in DOMAIN issued}
    BY <1>4 DEF Restart
  <2>2. /\ Id(clock, 0) \in Nat /\ Id(clock + 1, 0) \in Nat /\ Id(clock, 0) < Id(clock + 1, 0)
    <3>1. 0 \in 0..(SequenceSize - 1)
      BY <1>1
    <3> QED
      BY <1>1, <3>1, IdOfMillis
  <2>3. Id(clock, 0)' = Id(clock + 1, 0)
    BY <2>1 DEF Id
  <2>4. \A i \in DOMAIN issued : issued[i] \in Nat
    BY <1>1
  <2>5. DOMAIN issued' = {}
    BY <2>1
  <2>6. ASSUME stepsBack = 0, NEW e \in earlier' PROVE e < Id(clock + 1, 0)
    BY <1>1, <2>1, <2>2, <2>4, <2>6 DEF Ahead
  <2>7. earlier' \subseteq Nat
    BY <1>1, <2>1, <2>4
  <2>8. last_timestamp' <= clock'
    BY <1>1, <2>1
  <2> QED
    BY <2>1, <2>3, <2>5, <2>6, <2>7, <2>8 DEF Ahead
<1>5. CASE StepBack
  BY <1>1, <1>5 DEF StepBack, Ahead
<1>6. CASE UNCHANGED vars \/ \E c \in Caller : Call(c)
  <2>1. UNCHANGED <<clock, last_timestamp, issued, earlier, stepsBack>>
    BY <1>6 DEF Call, vars, generator, bounds
  <2> QED
    BY <2>1 DEF Ahead
<1> QED
  BY <1>2, <1>3, <1>4, <1>5, <1>6 DEF Next

(* While nobody steps the clock back no id is handed out twice, by one     *)
(* process or by two: what a restart forgets, the clock has left behind.   *)
THEOREM IdsUniqueUnlessSteppedBack == Spec => []UniqueUnlessSteppedBack
<1>1. Init => Ahead
  BY DEF Init, Ahead
<1>2. IInv /\ Ahead => UniqueUnlessSteppedBack
  <2> SUFFICES ASSUME IInv, Ahead, stepsBack = 0 PROVE UniqueAcrossRestarts
    BY DEF UniqueUnlessSteppedBack
  <2>1. \A i \in DOMAIN issued : i \in Int /\ issued[i] \in Nat
    BY DEF IInv, TypeOK
  <2>2. \A i \in DOMAIN issued : issued[i] \notin earlier
    BY <2>1 DEF Ahead
  <2>3. \A i, j \in DOMAIN issued : issued[i] = issued[j] => i = j
    BY <2>1 DEF IInv, StrictlyIncreasing
  <2> QED
    BY <2>2, <2>3 DEF UniqueAcrossRestarts
<1> QED
  BY Inductive, AheadNext, <1>1, <1>2, PTL DEF Spec
=============================================================================
