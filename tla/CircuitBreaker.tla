--------------------------- MODULE CircuitBreaker ---------------------------
(***************************************************************************)
(* One breaker under concurrent requests: each asks for admission, is      *)
(* executed elsewhere and reports its result later, in any order and       *)
(* possibly long after the breaker has changed its state.                  *)
(***************************************************************************)
EXTENDS Breaker

CONSTANT Request   \* requests that may be in flight at once

VARIABLES
    breaker,
    inFlight,   \* admitted requests whose result is not recorded yet
    streak      \* history: failures recorded in a row, up to the threshold

vars == <<breaker, inFlight, streak>>

Init ==
    /\ breaker = NewBreaker
    /\ inFlight = {}
    /\ streak = 0

Allow(r) ==
    /\ r \notin inFlight
    /\ breaker' = Asked(breaker)
    /\ inFlight' = IF Admits(breaker) THEN inFlight \cup {r} ELSE inFlight
    /\ UNCHANGED streak

RecordSuccess(r) ==
    /\ r \in inFlight
    /\ breaker' = Succeeded(breaker)
    /\ inFlight' = inFlight \ {r}
    /\ streak' = 0

RecordFailure(r) ==
    /\ r \in inFlight
    /\ breaker' = Failed(breaker)
    /\ inFlight' = inFlight \ {r}
    /\ streak' = Upto(streak + 1, FailureThreshold)

\* reset, called by an operator
Reset ==
    /\ breaker' = ResetToClosed(breaker)
    /\ streak' = 0
    /\ UNCHANGED inFlight

Tick ==
    /\ breaker' = Later(breaker)
    /\ UNCHANGED <<inFlight, streak>>

Next ==
    \/ \E r \in Request : Allow(r) \/ RecordSuccess(r) \/ RecordFailure(r)
    \/ Reset \/ Tick

Spec == Init /\ [][Next]_vars

\* Time passes, requests keep coming and an admitted one is reported.
FairSpec ==
    /\ Spec
    /\ WF_vars(Tick)
    /\ \A r \in Request : WF_vars(Allow(r)) /\ WF_vars(RecordSuccess(r) \/ RecordFailure(r))

-----------------------------------------------------------------------------
(* The record has the values it can have: the counters stop below their    *)
(* thresholds in the state in which they are counted.                      *)
TypeOK ==
    /\ breaker \in BreakerState
    /\ inFlight \subseteq Request
    /\ streak \in 0..FailureThreshold
    /\ breaker.state = "HALF_OPEN" => breaker.successes < SuccessThreshold
    /\ breaker.state # "HALF_OPEN" => breaker.successes = 0

(* A closed breaker has counted exactly the failures in a row, and fewer   *)
(* than the threshold, whatever late results of requests admitted before   *)
(* it opened, half-opened or closed are recorded: it opens no later than   *)
(* at the threshold.                                                       *)
FaultDetection ==
    breaker.state = "CLOSED" =>
        breaker.failures = streak /\ streak < FailureThreshold

(* Nor does a closed breaker open sooner: recordFailure leaves CLOSED only *)
(* with the failure that completes a row as long as the threshold, however *)
(* many failures of earlier rows, or of the time it was open, have been    *)
(* recorded.  A half-open breaker opens with its first failure.            *)
OpensOnlyWithCause ==
    [][breaker'.state = "OPEN" /\ breaker.state # "OPEN" =>
          /\ streak' > 0
          /\ breaker.state = "CLOSED" => streak' = FailureThreshold]_vars

(* An open breaker lets requests through again: the late failures that     *)
(* push last_failure_time_ forward run out, and refused requests do not.   *)
Recovers == (breaker.state = "OPEN") ~> (breaker.state # "OPEN")
=============================================================================
