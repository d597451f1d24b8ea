------------------------ MODULE CircuitBreakerProofs ------------------------
(***************************************************************************)
(* For any thresholds, any timeout and any set of requests in flight, a    *)
(* closed breaker opens exactly when the failures in a row reach the       *)
(* threshold.                                                              *)
(***************************************************************************)
EXTENDS CircuitBreaker, TLAPS

IInv == TypeOK /\ FaultDetection

LEMMA UptoBound ==
    ASSUME NEW bound \in Nat, NEW n \in 0..bound
    PROVE  /\ Upto(n + 1, bound) \in 0..bound
           /\ n < bound => Upto(n + 1, bound) = n + 1
BY DEF Upto

\* A breaker state with each field in its range is a breaker state.
LEMMA Fields ==
    ASSUME NEW b \in BreakerState
    PROVE  /\ b.state \in States /\ b.failures \in 0..FailureThreshold
           /\ b.successes \in 0..SuccessThreshold /\ b.elapsed \in 0..RecoveryTimeout
BY DEF BreakerState

\* What resetToClosed leaves behind.
LEMMA ResetToClosedFacts ==
    ASSUME NEW b \in BreakerState
    PROVE  /\ ResetToClosed(b) \in BreakerState /\ ResetToClosed(b).state = "CLOSED"
           /\ ResetToClosed(b).failures = 0 /\ ResetToClosed(b).successes = 0
<1>1. 0 \in 0..FailureThreshold /\ 0 \in 0..SuccessThreshold /\ "CLOSED" \in States
  BY BreakerAssumption DEF States
<1> QED
  BY <1>1 DEF ResetToClosed, BreakerState

LEMMA InitInv == Init => IInv
BY BreakerAssumption DEF Init, IInv, TypeOK, FaultDetection, NewBreaker, BreakerState,
   States

LEMMA AllowInv == ASSUME IInv, NEW r \in Request, Allow(r) PROVE IInv'
BY BreakerAssumption DEF IInv, TypeOK, FaultDetection, Allow, Asked, Admits,
   BreakerState, States

LEMMA SuccessInv == ASSUME IInv, NEW r \in Request, RecordSuccess(r) PROVE IInv'
<1>1. /\ breaker' = Succeeded(breaker) /\ inFlight' \subseteq Request /\ streak' = 0
      /\ breaker \in BreakerState /\ FailureThreshold \in Nat \ {0}
  BY BreakerAssumption DEF IInv, TypeOK, RecordSuccess
<1>2. CASE breaker.state = "HALF_OPEN"
  <2> DEFINE c == [breaker EXCEPT !.successes = @ + 1]
  <2>1. /\ c \in BreakerState /\ c.state = "HALF_OPEN"
        /\ c.successes = breaker.successes + 1
    BY <1>2, BreakerAssumption DEF IInv, TypeOK, BreakerState
  <2>2. breaker' = IF c.successes >= SuccessThreshold THEN ResetToClosed(c) ELSE c
    BY <1>1, <1>2 DEF Succeeded
  <2>3. c.successes \in Nat /\ SuccessThreshold \in Nat
    BY <2>1, BreakerAssumption DEF BreakerState
  <2> HIDE DEF c
  <2> QED
    BY <1>1, <2>1, <2>2, <2>3, ResetToClosedFacts DEF IInv, TypeOK, FaultDetection
<1>3. CASE breaker.state = "CLOSED"
  <2>1. breaker' = [breaker EXCEPT !.failures = 0]
    BY <1>1, <1>3 DEF Succeeded
  <2>2. /\ breaker' \in BreakerState /\ breaker'.state = "CLOSED"
        /\ breaker'.failures = 0 /\ breaker'.successes = breaker.successes
    BY <1>1, <1>3, <2>1 DEF BreakerState
  <2> QED
    BY <1>1, <1>3, <2>2 DEF IInv, TypeOK, FaultDetection
<1>4. CASE breaker.state \notin {"HALF_OPEN", "CLOSED"}
  <2>1. breaker' = breaker
    BY <1>1, <1>4 DEF Succeeded
  <2> QED
    BY <1>1, <1>4, <2>1 DEF IInv, TypeOK, FaultDetection
<1> QED
  BY <1>2, <1>3, <1>4

LEMMA FailureInv == ASSUME IInv, NEW r \in Request, RecordFailure(r) PROVE IInv'
<1>1. /\ Upto(breaker.failures + 1, FailureThreshold) \in 0..FailureThreshold
      /\ Upto(streak + 1, FailureThreshold) \in 0..FailureThreshold
      /\ streak < FailureThreshold => Upto(streak + 1, FailureThreshold) = streak + 1
  BY BreakerAssumption, UptoBound, Fields DEF IInv, TypeOK
<1> DEFINE c == [breaker EXCEPT !.failures = Upto(@ + 1, FailureThreshold), !.elapsed = 0]
<1>2. /\ c \in BreakerState /\ c.state = breaker.state
      /\ c.successes = breaker.successes
      /\ c.failures = Upto(breaker.failures + 1, FailureThreshold)
  <2>1. 0 \in 0..RecoveryTimeout
    BY BreakerAssumption
  <2> QED
    BY <1>1, <2>1, Fields DEF IInv, TypeOK, BreakerState
<1>3. breaker' = IF \/ breaker.state = "HALF_OPEN"
                    \/ breaker.state = "CLOSED" /\ c.failures >= FailureThreshold
                 THEN TripOpen(c) ELSE c
  BY DEF RecordFailure, Failed
<1>4. /\ inFlight' \subseteq Request /\ streak' = Upto(streak + 1, FailureThreshold)
  BY DEF RecordFailure, IInv, TypeOK
<1> HIDE DEF c
<1>5. CASE \/ breaker.state = "HALF_OPEN"
           \/ breaker.state = "CLOSED" /\ c.failures >= FailureThreshold
  <2>1. breaker' = [c EXCEPT !.state = "OPEN", !.successes = 0]
    BY <1>3, <1>5 DEF TripOpen
  <2>2. breaker' \in BreakerState /\ breaker'.state = "OPEN" /\ breaker'.successes = 0
    <3>1. 0 \in 0..SuccessThreshold /\ "OPEN" \in States
      BY BreakerAssumption DEF States
    <3> QED
      BY <1>2, <2>1, <3>1 DEF BreakerState
  <2> QED
    BY <1>1, <1>4, <2>2 DEF IInv, TypeOK, FaultDetection
<1>6. CASE ~(\/ breaker.state = "HALF_OPEN"
             \/ breaker.state = "CLOSED" /\ c.failures >= FailureThreshold)
  <2>1. breaker' = c
    BY <1>3, <1>6
  <2>2. breaker.state = "CLOSED" => c.failures = streak' /\ streak' < FailureThreshold
    BY <1>1, <1>2, <1>4, <1>6, BreakerAssumption DEF IInv, TypeOK, FaultDetection
  <2> QED
    BY <1>1, <1>2, <1>4, <1>6, <2>1, <2>2 DEF IInv, TypeOK, FaultDetection
<1> QED
  BY <1>5, <1>6

LEMMA TickInv == ASSUME IInv, Tick PROVE IInv'
<1>1. Upto(breaker.elapsed + 1, RecoveryTimeout) \in 0..RecoveryTimeout
  BY BreakerAssumption, UptoBound, Fields DEF IInv, TypeOK
<1> QED
  BY <1>1 DEF IInv, TypeOK, FaultDetection, Tick, Later, BreakerState

LEMMA NextInv == IInv /\ [Next]_vars => IInv'
<1> SUFFICES ASSUME IInv, [Next]_vars PROVE IInv'
  OBVIOUS
<1>1. CASE Reset
  <2>1. FailureThreshold \in Nat \ {0}
    BY BreakerAssumption
  <2> QED
    BY <1>1, <2>1, ResetToClosedFacts DEF IInv, TypeOK, FaultDetection, Reset
<1>2. CASE UNCHANGED vars
  BY <1>2 DEF IInv, TypeOK, FaultDetection, vars
<1> QED
  BY <1>1, <1>2, AllowInv, SuccessInv, FailureInv, TickInv DEF Next

LEMMA Inductive == Spec => []IInv
  BY InitInv, NextInv, PTL DEF Spec

(* The counters of the breaker stay within their thresholds; successes are *)
(* counted in HALF_OPEN only, and there are always too few to close.       *)
THEOREM BreakerTyped == Spec => []TypeOK
<1>1. IInv => TypeOK
  BY DEF IInv
<1> QED
  BY Inductive, <1>1, PTL

(* A closed breaker has counted exactly the failures in a row, and fewer   *)
(* than the threshold, for every interleaving of admissions and results.   *)
THEOREM DetectsFaults == Spec => []FaultDetection
<1>1. IInv => FaultDetection
  BY DEF IInv
<1> QED
  BY Inductive, <1>1, PTL

(* The one step that opens a breaker is recordFailure; in CLOSED the row   *)
(* of failures it has counted is then as long as the threshold.            *)
THEOREM OpensWithCause == Spec => OpensOnlyWithCause
<1> DEFINE Caused ==
        breaker'.state = "OPEN" /\ breaker.state # "OPEN" =>
            /\ streak' > 0
            /\ breaker.state = "CLOSED" => streak' = FailureThreshold
<1>1. ASSUME IInv, Next PROVE Caused
  <2>1. CASE \E r \in Request : Allow(r)
    BY <1>1, <2>1 DEF Allow, Asked, IInv, TypeOK, BreakerState
  <2>2. CASE \E r \in Request : RecordSuccess(r)
    <3>1. breaker \in BreakerState /\ breaker' = Succeeded(breaker)
      BY <1>1, <2>2 DEF IInv, TypeOK, RecordSuccess
    <3> QED
      BY <3>1 DEF Succeeded, ResetToClosed, BreakerState
  <2>3. ASSUME NEW r \in Request, RecordFailure(r) PROVE Caused
    <3>1. breaker \in BreakerState /\ streak \in 0..FailureThreshold
      BY <1>1 DEF IInv, TypeOK
    <3>2. breaker' = Failed(breaker) /\ streak' = Upto(streak + 1, FailureThreshold)
      BY <2>3 DEF RecordFailure
    <3>3. streak' > 0
      BY <3>1, <3>2, BreakerAssumption DEF Upto
    <3>4. CASE breaker.state = "CLOSED"
      <4>1. breaker.failures = streak /\ streak < FailureThreshold
        BY <1>1, <3>4 DEF IInv, FaultDetection
      <4>2. CASE streak + 1 < FailureThreshold
        <5> DEFINE c == [breaker EXCEPT !.failures = Upto(@ + 1, FailureThreshold), !.elapsed = 0]
        <5>1. c.failures = streak + 1 /\ c.state = "CLOSED"
          BY <3>1, <3>4, <4>1, <4>2 DEF Upto, BreakerState
        <5>2. ~(c.failures >= FailureThreshold)
          BY <3>1, <4>2, <5>1, BreakerAssumption
        <5>3. breaker' = c
          BY <3>2, <3>4, <5>2 DEF Failed
        <5> QED
          BY <5>1, <5>3
      <4>3. CASE ~(streak + 1 < FailureThreshold)
        BY <3>1, <3>2, <3>3, <4>1, <4>3, BreakerAssumption DEF Upto
      <4> QED
        BY <4>2, <4>3
    <3> QED
      BY <3>3, <3>4
  <2>4. CASE Reset
    BY <2>4, <1>1 DEF Reset, ResetToClosed, IInv, TypeOK, BreakerState
  <2>5. CASE Tick
    BY <2>5, <1>1 DEF Tick, Later, IInv, TypeOK, BreakerState
  <2> QED
    BY <1>1, <2>1, <2>2, <2>3, <2>4, <2>5 DEF Next
<1>2. ASSUME UNCHANGED vars PROVE Caused
  BY <1>2 DEF vars
<1> QED
  BY Inductive, <1>1, <1>2, PTL DEF Spec, OpensOnlyWithCause
=============================================================================
