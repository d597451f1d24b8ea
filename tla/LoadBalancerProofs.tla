------------------------- MODULE LoadBalancerProofs -------------------------
(***************************************************************************)
(* For every set of workers, every strategy and all thresholds: the        *)
(* balancer's records keep their types, a worker that keeps failing is     *)
(* offered no task, round robin is fair, every strategy finds one of the   *)
(* available workers, and all are available while no failure is reported.  *)
(***************************************************************************)
EXTENDS LoadBalancer, FiniteSetTheorems, TLAPS

(* What the breaker of a worker knows of n failures in a row, the last of  *)
(* them q ticks ago: a closed one has counted them all and fewer than its  *)
(* threshold, and one that probes has waited for its timeout.              *)
Streak(b, n, q) ==
    /\ n > 0 => b.elapsed = q
    /\ b.state = "CLOSED" => n <= b.failures /\ b.failures < FailureThreshold
    /\ b.state = "HALF_OPEN" => b.elapsed = RecoveryTimeout

Streaks ==
    \A w \in Worker : IF w \in DOMAIN nodes THEN Streak(nodes[w].breaker, bad[w], quiet[w])
                      ELSE bad[w] = 0

IInv == TypeOK /\ Streaks

(* The place of w among S, from 0.                                         *)
Rank(S, w) == Cardinality({v \in S : v < w})

(* k picks of this turn have gone round the circle of the n places of the  *)
(* roster and ended before the place next.                                 *)
Behind(place, next, k, n) ==
    \/ next - k <= place /\ place < next
    \/ next - k < 0 /\ place >= next - k + n

Turn ==
    roster # {} =>
        LET n == Cardinality(roster)
            next == rr % n
        IN  \E k \in 0..(n - 1) :
              \A w \in roster :
                 turns[w] = IF Behind(Rank(roster, w), next, k, n) THEN 1 ELSE 0

Others == \A w \in Worker \ roster : turns[w] = 0
RInv == Turn /\ Others

-----------------------------------------------------------------------------
(* What each call of a breaker does.                                       *)

LEMMA NewBreakerFacts ==
    /\ NewBreaker \in BreakerState
    /\ \A q : Streak(NewBreaker, 0, q)
BY BreakerAssumption DEF NewBreaker, BreakerState, States, Streak

LEMMA LaterFacts ==
    ASSUME NEW b \in BreakerState, NEW n \in Nat, NEW q \in 0..RecoveryTimeout, Streak(b, n, q)
    PROVE  /\ Later(b) \in BreakerState
           /\ Streak(Later(b), n, Upto(q + 1, RecoveryTimeout))
<1>1. Upto(b.elapsed + 1, RecoveryTimeout) \in 0..RecoveryTimeout
  BY BreakerAssumption DEF Upto, BreakerState
<1>2. b.elapsed = RecoveryTimeout => Upto(b.elapsed + 1, RecoveryTimeout) = RecoveryTimeout
  BY BreakerAssumption DEF Upto
<1>3. Later(b) = [b EXCEPT !.elapsed = Upto(b.elapsed + 1, RecoveryTimeout)]
  BY DEF Later
<1> QED
  BY <1>1, <1>2, <1>3 DEF BreakerState, Streak

LEMMA AskedFacts ==
    ASSUME NEW b \in BreakerState, NEW n \in Nat, NEW q, Streak(b, n, q)
    PROVE  Asked(b) \in BreakerState /\ Streak(Asked(b), n, q)
BY BreakerAssumption DEF Asked, Admits, BreakerState, States, Streak

LEMMA SucceededFacts ==
    ASSUME NEW b \in BreakerState, NEW n \in Nat, NEW q, Streak(b, n, q)
    PROVE  Succeeded(b) \in BreakerState /\ Streak(Succeeded(b), 0, q)
<1> USE BreakerAssumption
<1>1. CASE b.state = "HALF_OPEN"
  <2> DEFINE c == [b EXCEPT !.successes = @ + 1]
  <2>1. Succeeded(b) = IF c.successes >= SuccessThreshold THEN ResetToClosed(c) ELSE c
    BY <1>1 DEF Succeeded
  <2>2. c.successes = b.successes + 1 /\ b.successes \in 0..SuccessThreshold
    BY DEF BreakerState
  <2>3. CASE c.successes >= SuccessThreshold
    <3>1. ResetToClosed(c) = [b EXCEPT !.state = "CLOSED", !.failures = 0, !.successes = 0]
      BY DEF ResetToClosed, BreakerState
    <3> HIDE DEF c
    <3>2. 0 \in 0..FailureThreshold /\ 0 \in 0..SuccessThreshold /\ "CLOSED" \in States
      BY DEF States
    <3>3. ResetToClosed(c) \in BreakerState
      BY <3>1, <3>2 DEF BreakerState
    <3>4. ResetToClosed(c).state = "CLOSED" /\ ResetToClosed(c).failures = 0
      BY <3>1 DEF BreakerState
    <3> QED
      BY <2>1, <2>3, <3>3, <3>4 DEF Streak
  <2>4. CASE ~(c.successes >= SuccessThreshold)
    <3>1. b.successes + 1 \in 0..SuccessThreshold
      BY <2>2, <2>4
    <3> QED
      BY <1>1, <2>1, <2>4, <3>1 DEF BreakerState, Streak
  <2> QED
    BY <2>3, <2>4
<1>2. CASE b.state = "CLOSED"
  BY <1>2 DEF Succeeded, BreakerState, States, Streak
<1>3. CASE b.state \notin {"HALF_OPEN", "CLOSED"}
  BY <1>3 DEF Succeeded, Streak
<1> QED
  BY <1>1, <1>2, <1>3

LEMMA FailedFacts ==
    ASSUME NEW b \in BreakerState, NEW n \in 0..FailureThreshold, NEW q, Streak(b, n, q)
    PROVE  Failed(b) \in BreakerState /\ Streak(Failed(b), Upto(n + 1, FailureThreshold), 0)
<1> USE BreakerAssumption
<1> DEFINE f == Upto(b.failures + 1, FailureThreshold)
           c == [b EXCEPT !.failures = Upto(@ + 1, FailureThreshold), !.elapsed = 0]
<1>1. f \in 0..FailureThreshold
  BY DEF Upto, BreakerState
<1>2. b.state = "CLOSED" => Upto(n + 1, FailureThreshold) <= f
  BY DEF Upto, BreakerState, Streak
<1>3. c.failures = f /\ c.elapsed = 0 /\ c.state = b.state /\ c.successes = b.successes
  BY DEF BreakerState
<1>4. c \in BreakerState
  <2>1. c = [b EXCEPT !.failures = f, !.elapsed = 0]
    OBVIOUS
  <2>2. 0 \in 0..RecoveryTimeout
    OBVIOUS
  <2> HIDE DEF c, f
  <2> QED
    BY <1>1, <2>1, <2>2 DEF BreakerState
<1>5. Failed(b) = IF b.state = "HALF_OPEN" \/ (b.state = "CLOSED" /\ c.failures >= FailureThreshold)
                  THEN TripOpen(c) ELSE c
  BY DEF Failed
<1> HIDE DEF f, c
<1>6. CASE b.state = "HALF_OPEN" \/ (b.state = "CLOSED" /\ c.failures >= FailureThreshold)
  <2>1. Failed(b) = [c EXCEPT !.state = "OPEN", !.successes = 0]
    BY <1>5, <1>6 DEF TripOpen
  <2>2. 0 \in 0..SuccessThreshold /\ "OPEN" \in States
    BY DEF States
  <2>3. Failed(b) \in BreakerState
    BY <1>4, <2>1, <2>2 DEF BreakerState
  <2>4. Failed(b).state = "OPEN" /\ Failed(b).elapsed = 0
    BY <1>3, <1>4, <2>1 DEF BreakerState
  <2> QED
    BY <2>3, <2>4 DEF Streak
<1>7. CASE ~(b.state = "HALF_OPEN" \/ (b.state = "CLOSED" /\ c.failures >= FailureThreshold))
  <2>1. b.state = "CLOSED" => f < FailureThreshold
    BY <1>1, <1>3, <1>7
  <2> QED
    BY <1>2, <1>3, <1>4, <1>5, <1>7, <2>1 DEF Streak
<1> QED
  BY <1>6, <1>7

-----------------------------------------------------------------------------
(* The two parts of the invariant: the workers' records with the history   *)
(* of their failures, and the rest.                                        *)

Node == [status : {"active", "dead"}, load : 0..MaxLoad, age : 0..(DeadAfter + 1),
         breaker : BreakerState]

NodesOK ==
    /\ DOMAIN nodes \subseteq Worker /\ \A w \in DOMAIN nodes : nodes[w] \in Node
    /\ bad \in [Worker -> 0..FailureThreshold]
    /\ quiet \in [Worker -> 0..RecoveryTimeout]
    /\ Streaks

RestOK ==
    /\ strategy \in Strategies /\ rr \in 0..(IndexPeriod - 1)
    /\ registered \subseteq Worker
    /\ services \subseteq Worker /\ stale \subseteq Worker
    /\ mpc \in {"fetch", "update"}
    /\ roster \subseteq Worker /\ turns \in [Worker -> 0..2]

LEMMA Parts == IInv <=> NodesOK /\ RestOK
BY DEF IInv, TypeOK, NodesOK, RestOK, Node

LEMMA Constants == DeadAfter \in Nat /\ MaxLoad \in Nat /\ IndexPeriod \in Nat \ {0}
BY BalancerAssumption DEF BalancerAssumption

USE Constants

\* The constructor's record, and a record with one field replaced.
LEMMA NewNodeFacts == NewNode \in Node /\ NewNode.breaker = NewBreaker
<1>1. 0 \in 0..MaxLoad /\ 0 \in 0..(DeadAfter + 1)
  OBVIOUS
<1> QED
  BY <1>1, NewBreakerFacts DEF NewNode, Node

LEMMA NodeFacts ==
    ASSUME NEW n \in Node
    PROVE  /\ n.breaker \in BreakerState /\ n.age \in 0..(DeadAfter + 1)
           /\ \A b \in BreakerState : [n EXCEPT !.breaker = b] \in Node
           /\ \A b : [n EXCEPT !.breaker = b].breaker = b
           /\ \A a \in 0..(DeadAfter + 1) :
                 [n EXCEPT !.age = a] \in Node /\ [n EXCEPT !.age = a].breaker = n.breaker
           /\ \A l \in 0..MaxLoad :
                 [n EXCEPT !.load = l] \in Node /\ [n EXCEPT !.load = l].breaker = n.breaker
           /\ [n EXCEPT !.status = "dead"] \in Node
           /\ [n EXCEPT !.status = "dead"].breaker = n.breaker
BY DEF Node

\* What keeps the records in order: every worker that is known afterwards has
\* a record that agrees with its history.
Agrees(w) == nodes[w] \in Node /\ Streak(nodes[w].breaker, bad[w], quiet[w])

ByWorker ==
    /\ DOMAIN nodes \subseteq Worker
    /\ bad \in [Worker -> 0..FailureThreshold]
    /\ quiet \in [Worker -> 0..RecoveryTimeout]
    /\ \A w \in DOMAIN nodes : Agrees(w)
    /\ \A w \in Worker \ DOMAIN nodes : bad[w] = 0

LEMMA NodesByWorker == (NodesOK <=> ByWorker) /\ (NodesOK <=> ByWorker)'
<1>1. NodesOK <=> ByWorker
  BY DEF NodesOK, ByWorker, Streaks, Agrees
<1>2. (NodesOK <=> ByWorker)'
  BY DEF NodesOK, ByWorker, Streaks, Agrees
<1> QED
  BY <1>1, <1>2

LEMMA InitIInv == Init => IInv
<1> SUFFICES ASSUME Init PROVE IInv
  OBVIOUS
<1>1. PICK S \in SUBSET Worker : nodes = [w \in S |-> NewNode]
  BY DEF Init
<1>2. /\ bad = [w \in Worker |-> 0] /\ 0 \in 0..FailureThreshold
      /\ quiet = [w \in Worker |-> RecoveryTimeout] /\ RecoveryTimeout \in 0..RecoveryTimeout
  BY BreakerAssumption DEF Init
<1>3. \A w \in S : Agrees(w)
  BY <1>1, <1>2, NewNodeFacts, NewBreakerFacts DEF Agrees
<1>4. NodesOK
  BY <1>1, <1>2, <1>3, NodesByWorker DEF ByWorker
<1>5. RestOK
  BY <1>1 DEF Init, RestOK
<1> QED
  BY <1>4, <1>5, Parts

-----------------------------------------------------------------------------
\* A call that names one worker changes its record and its history only.
LEMMA OneWorker ==
    ASSUME IInv, NEW w \in DOMAIN nodes, NEW n, nodes' = [nodes EXCEPT ![w] = n],
           NEW f \in 0..FailureThreshold, bad' = [bad EXCEPT ![w] = f],
           NEW q \in 0..RecoveryTimeout, quiet' = [quiet EXCEPT ![w] = q],
           n \in Node, Streak(n.breaker, f, q)
    PROVE  NodesOK'
<1>1. /\ DOMAIN nodes \subseteq Worker /\ w \in Worker
      /\ bad \in [Worker -> 0..FailureThreshold] /\ quiet \in [Worker -> 0..RecoveryTimeout]
      /\ \A v \in DOMAIN nodes : Agrees(v)
      /\ \A v \in Worker \ DOMAIN nodes : bad[v] = 0
  BY Parts, NodesByWorker DEF ByWorker
<1>2. DOMAIN nodes' = DOMAIN nodes
  OBVIOUS
<1>3. ASSUME NEW v \in DOMAIN nodes' PROVE Agrees(v)'
  <2>1. CASE v = w
    BY <1>1, <2>1 DEF Agrees
  <2>2. CASE v # w
    BY <1>1, <1>2, <2>2 DEF Agrees
  <2> QED
    BY <2>1, <2>2
<1>4. /\ bad' \in [Worker -> 0..FailureThreshold] /\ quiet' \in [Worker -> 0..RecoveryTimeout]
      /\ \A v \in Worker \ DOMAIN nodes' : bad'[v] = 0
  BY <1>1, <1>2
<1> QED
  BY <1>1, <1>2, <1>3, <1>4, NodesByWorker DEF ByWorker

\* The same for a call that leaves the history alone.
LEMMA OneRecord ==
    ASSUME IInv, NEW w \in DOMAIN nodes, NEW n, nodes' = [nodes EXCEPT ![w] = n],
           UNCHANGED <<bad, quiet>>, n \in Node, Streak(n.breaker, bad[w], quiet[w])
    PROVE  NodesOK'
<1>1. /\ DOMAIN nodes \subseteq Worker
      /\ bad \in [Worker -> 0..FailureThreshold] /\ quiet \in [Worker -> 0..RecoveryTimeout]
  BY Parts, NodesByWorker DEF ByWorker
<1>2. /\ bad' = [bad EXCEPT ![w] = bad[w]] /\ quiet' = [quiet EXCEPT ![w] = quiet[w]]
      /\ bad[w] \in 0..FailureThreshold /\ quiet[w] \in 0..RecoveryTimeout
  BY <1>1
<1> QED
  BY <1>2, OneWorker

\* What is known of a worker before such a call.
LEMMA Known ==
    ASSUME IInv, NEW w \in DOMAIN nodes
    PROVE  /\ w \in Worker /\ nodes[w] \in Node /\ nodes[w].breaker \in BreakerState
           /\ bad[w] \in 0..FailureThreshold /\ bad[w] \in Nat /\ quiet[w] \in 0..RecoveryTimeout
           /\ Streak(nodes[w].breaker, bad[w], quiet[w])
<1>1. /\ DOMAIN nodes \subseteq Worker /\ Agrees(w)
      /\ bad \in [Worker -> 0..FailureThreshold] /\ quiet \in [Worker -> 0..RecoveryTimeout]
  BY Parts, NodesByWorker DEF ByWorker
<1>2. nodes[w] \in Node /\ nodes[w].breaker \in BreakerState
  BY <1>1, NodeFacts DEF Agrees
<1>3. /\ w \in Worker /\ bad[w] \in 0..FailureThreshold /\ bad[w] \in Nat
      /\ quiet[w] \in 0..RecoveryTimeout
  <2>1. w \in Worker
    BY <1>1
  <2> QED
    BY <1>1, <2>1, BreakerAssumption
<1>4. Streak(nodes[w].breaker, bad[w], quiet[w])
  BY <1>1 DEF Agrees
<1> QED
  BY <1>2, <1>3, <1>4

\* selectWorker asks the breakers of all active workers.
LEMMA ConsultedKeepsNodes ==
    ASSUME IInv, nodes' = Consulted, UNCHANGED <<bad, quiet>> PROVE NodesOK'
<1>1. ASSUME NEW w \in DOMAIN nodes' PROVE Agrees(w)'
  <2>1. w \in DOMAIN nodes
    BY DEF Consulted
  <2>2. Asked(nodes[w].breaker) \in BreakerState
        /\ Streak(Asked(nodes[w].breaker), bad[w], quiet[w])
    BY <2>1, Known, AskedFacts
  <2>3. nodes'[w] = nodes[w] \/ nodes'[w] = [nodes[w] EXCEPT !.breaker = Asked(nodes[w].breaker)]
    BY <2>1 DEF Consulted
  <2>4. nodes'[w] \in Node /\ Streak(nodes'[w].breaker, bad[w], quiet[w])
    <3>1. CASE nodes'[w] = nodes[w]
      BY <2>1, <3>1, Known
    <3>2. CASE nodes'[w] = [nodes[w] EXCEPT !.breaker = Asked(nodes[w].breaker)]
      <4>1. nodes'[w] \in Node /\ nodes'[w].breaker = Asked(nodes[w].breaker)
        <5>1. nodes[w] \in Node
          BY <2>1, Known
        <5> QED
          BY <2>2, <3>2, <5>1 DEF Node
      <4> QED
        BY <2>2, <4>1
    <3> QED
      BY <2>3, <3>1, <3>2
  <2> QED
    BY <2>4 DEF Agrees
<1>2. DOMAIN nodes' = DOMAIN nodes
  BY DEF Consulted
<1> QED
  BY <1>1, <1>2, Parts, NodesByWorker DEF ByWorker

LEMMA TickKeepsNodes == ASSUME IInv, Tick PROVE NodesOK'
<1>1. ASSUME NEW w \in DOMAIN nodes' PROVE Agrees(w)'
  <2>1. w \in DOMAIN nodes
    BY DEF Tick
  <2> DEFINE n == nodes[w]
             a == Upto(n.age + 1, DeadAfter + 1)
  <2>2. Later(n.breaker) \in BreakerState /\ Streak(Later(n.breaker), bad'[w], quiet'[w])
    <3>1. bad'[w] = bad[w] /\ quiet'[w] = Upto(quiet[w] + 1, RecoveryTimeout)
      BY <2>1, Known DEF Tick
    <3> QED
      BY <2>1, <3>1, Known, LaterFacts
  <2>3. a \in 0..(DeadAfter + 1)
    <3>1. n.age \in 0..(DeadAfter + 1)
      BY <2>1, Known, NodeFacts
    <3> QED
      BY <3>1 DEF Upto
  <2>4. nodes'[w] = [[n EXCEPT !.age = a] EXCEPT !.breaker = Later(n.breaker)]
    BY <2>1, Known DEF Tick, Node
  <2>5. [n EXCEPT !.age = a] \in Node
    BY <2>1, <2>3, Known, NodeFacts
  <2> HIDE DEF n, a
  <2> QED
    BY <2>2, <2>4, <2>5, NodeFacts DEF Agrees
<1>2. DOMAIN nodes' = DOMAIN nodes /\ bad' = bad
  BY DEF Tick
<1>3. quiet' \in [Worker -> 0..RecoveryTimeout]
  <2>1. ASSUME NEW w \in Worker PROVE Upto(quiet[w] + 1, RecoveryTimeout) \in 0..RecoveryTimeout
    BY Parts, BreakerAssumption DEF NodesOK, Upto
  <2> QED
    BY <2>1 DEF Tick
<1> QED
  BY <1>1, <1>2, <1>3, Parts, NodesByWorker DEF ByWorker

LEMMA UpdateWorkersKeepsNodes == ASSUME IInv, UpdateWorkers PROVE NodesOK'
<1>1. /\ nodes' = [w \in services |->
                     IF w \in DOMAIN nodes THEN [nodes[w] EXCEPT !.age = 0] ELSE NewNode]
      /\ bad' = [w \in Worker |-> IF w \in services THEN bad[w] ELSE 0]
      /\ quiet' = quiet /\ services \subseteq Worker
  BY Parts DEF UpdateWorkers, RestOK
<1>2. ByWorker
  BY Parts, NodesByWorker
<1>3. ASSUME NEW w \in services PROVE Agrees(w)'
  <2>1. /\ nodes'[w] = IF w \in DOMAIN nodes THEN [nodes[w] EXCEPT !.age = 0] ELSE NewNode
        /\ bad'[w] = bad[w] /\ quiet'[w] = quiet[w]
    BY <1>1, <1>3
  <2>2. CASE w \in DOMAIN nodes
    <3>1. nodes[w] \in Node /\ Streak(nodes[w].breaker, bad[w], quiet[w]) /\ 0 \in 0..(DeadAfter + 1)
      BY <2>2, Known
    <3>2. nodes'[w] \in Node /\ nodes'[w].breaker = nodes[w].breaker
      BY <2>1, <2>2, <3>1 DEF Node
    <3> QED
      BY <2>1, <3>1, <3>2 DEF Agrees
  <2>3. CASE w \notin DOMAIN nodes
    <3>1. bad[w] = 0
      BY <1>1, <1>2, <1>3, <2>3 DEF ByWorker
    <3> QED
      BY <2>1, <2>3, <3>1, NewNodeFacts, NewBreakerFacts DEF Agrees
  <2> QED
    BY <2>2, <2>3
<1>4. bad' \in [Worker -> 0..FailureThreshold]
  BY <1>1, <1>2, BreakerAssumption DEF ByWorker
<1>5. DOMAIN nodes' = services /\ \A w \in Worker \ services : bad'[w] = 0
  BY <1>1
<1>6. ByWorker'
  BY <1>1, <1>2, <1>3, <1>4, <1>5 DEF ByWorker
<1> QED
  BY <1>6, NodesByWorker

LEMMA RemoveKeepsNodes == ASSUME IInv, NEW w \in Worker, RemoveWorker(w) PROVE NodesOK'
<1>1. /\ nodes' = [v \in DOMAIN nodes \ {w} |-> nodes[v]]
      /\ bad' = [bad EXCEPT ![w] = 0] /\ quiet' = quiet
  BY DEF RemoveWorker
<1>2. ByWorker
  BY Parts, NodesByWorker
<1>3. ASSUME NEW v \in DOMAIN nodes' PROVE Agrees(v)'
  <2>1. v \in DOMAIN nodes \ {w} /\ v \in Worker
    BY <1>1, <1>2 DEF ByWorker
  <2>2. nodes'[v] = nodes[v] /\ bad'[v] = bad[v] /\ quiet'[v] = quiet[v]
    BY <1>1, <1>2, <2>1 DEF ByWorker
  <2> QED
    BY <1>2, <2>1, <2>2 DEF ByWorker, Agrees
<1>4. bad' \in [Worker -> 0..FailureThreshold]
  BY <1>1, <1>2, BreakerAssumption DEF ByWorker
<1>5. DOMAIN nodes' = DOMAIN nodes \ {w} /\ \A v \in Worker \ DOMAIN nodes' : bad'[v] = 0
  BY <1>1, <1>2 DEF ByWorker
<1>6. ByWorker'
  BY <1>1, <1>2, <1>3, <1>4, <1>5 DEF ByWorker
<1> QED
  BY <1>6, NodesByWorker

LEMMA NodesNext == ASSUME IInv, [Next]_vars PROVE NodesOK'
<1>1. ASSUME UNCHANGED <<nodes, bad, quiet>> PROVE NodesOK'
  BY <1>1, Parts DEF NodesOK, Streaks
<1>2. CASE Fetch \/ FetchFails \/ Check \/ UNCHANGED vars
  BY <1>2, <1>1 DEF Fetch, FetchFails, Check, resultVars, vars
<1>3. CASE UpdateWorkers
  BY <1>3, UpdateWorkersKeepsNodes
<1>4. CASE Tick
  BY <1>4, TickKeepsNodes
<1>5. ASSUME NEW t \in Task, NEW w \in Worker \cup {None}, SelectWorker(t, w) PROVE NodesOK'
  BY <1>5, ConsultedKeepsNodes DEF SelectWorker, resultVars
<1>6. ASSUME NEW w \in Worker, MarkWorkerDead(w) PROVE NodesOK'
  <2>1. CASE w \notin DOMAIN nodes
    BY <1>6, <2>1, <1>1 DEF MarkWorkerDead, resultVars
  <2>2. CASE w \in DOMAIN nodes
    <3>1. nodes' = [nodes EXCEPT ![w] = [nodes[w] EXCEPT !.status = "dead"]]
          /\ UNCHANGED <<bad, quiet>>
      BY <1>6, <2>2 DEF MarkWorkerDead, resultVars
    <3> DEFINE n == [nodes[w] EXCEPT !.status = "dead"]
    <3>2. n \in Node /\ n.breaker = nodes[w].breaker
      BY <2>2, Known DEF Node
    <3>3. Streak(n.breaker, bad[w], quiet[w])
      BY <2>2, <3>2, Known
    <3> HIDE DEF n
    <3> QED
      BY <2>2, <3>1, <3>2, <3>3, OneRecord DEF n
  <2> QED
    BY <2>1, <2>2
<1>7. ASSUME NEW w \in Worker, IsWorkerAvailable(w) PROVE NodesOK'
  <2> DEFINE n == [nodes[w] EXCEPT !.breaker = Asked(nodes[w].breaker)]
  <2>1. w \in DOMAIN nodes /\ nodes' = [nodes EXCEPT ![w] = n] /\ UNCHANGED <<bad, quiet>>
    BY <1>7 DEF IsWorkerAvailable, Active, resultVars
  <2>2. Asked(nodes[w].breaker) \in BreakerState
        /\ Streak(Asked(nodes[w].breaker), bad[w], quiet[w])
    BY <2>1, Known, AskedFacts
  <2>3. n \in Node /\ n.breaker = Asked(nodes[w].breaker)
    BY <2>1, <2>2, Known DEF Node
  <2> HIDE DEF n
  <2> QED
    BY <2>1, <2>2, <2>3, OneRecord
<1>8. ASSUME NEW w \in Worker, NEW l \in 0..MaxLoad, UpdateWorkerLoad(w, l) PROVE NodesOK'
  <2> DEFINE n == [nodes[w] EXCEPT !.load = l]
  <2>1. w \in DOMAIN nodes /\ nodes' = [nodes EXCEPT ![w] = n] /\ UNCHANGED <<bad, quiet>>
    BY <1>8 DEF UpdateWorkerLoad, resultVars
  <2>2. n \in Node /\ n.breaker = nodes[w].breaker
    BY <2>1, Known DEF Node
  <2>3. Streak(n.breaker, bad[w], quiet[w])
    BY <2>1, <2>2, Known
  <2> HIDE DEF n
  <2> QED
    BY <2>1, <2>2, <2>3, OneRecord
<1>9. ASSUME NEW w \in Worker, RecordSuccess(w) PROVE NodesOK'
  <2> DEFINE n == [nodes[w] EXCEPT !.breaker = Succeeded(nodes[w].breaker)]
  <2>1. /\ w \in DOMAIN nodes /\ nodes' = [nodes EXCEPT ![w] = n]
        /\ bad' = [bad EXCEPT ![w] = 0] /\ UNCHANGED quiet
    BY <1>9 DEF RecordSuccess
  <2>2. Succeeded(nodes[w].breaker) \in BreakerState
        /\ Streak(Succeeded(nodes[w].breaker), 0, quiet[w])
    BY <2>1, Known, SucceededFacts
  <2>3. n \in Node /\ n.breaker = Succeeded(nodes[w].breaker)
    BY <2>1, <2>2, Known DEF Node
  <2>4. /\ 0 \in 0..FailureThreshold /\ quiet[w] \in 0..RecoveryTimeout
        /\ quiet' = [quiet EXCEPT ![w] = quiet[w]]
    BY <2>1, Known, BreakerAssumption, Parts DEF NodesOK
  <2>5. Streak(n.breaker, 0, quiet[w])
    BY <2>2, <2>3
  <2> HIDE DEF n
  <2> QED
    BY <2>1, <2>3, <2>4, <2>5, OneWorker
<1>10. ASSUME NEW w \in Worker, RecordFailure(w) PROVE NodesOK'
  <2> DEFINE n == [nodes[w] EXCEPT !.breaker = Failed(nodes[w].breaker)]
             f == Upto(bad[w] + 1, FailureThreshold)
  <2>1. /\ w \in DOMAIN nodes /\ nodes' = [nodes EXCEPT ![w] = n]
        /\ bad' = [bad EXCEPT ![w] = f] /\ quiet' = [quiet EXCEPT ![w] = 0]
    BY <1>10 DEF RecordFailure
  <2>2. Failed(nodes[w].breaker) \in BreakerState /\ Streak(Failed(nodes[w].breaker), f, 0)
    BY <2>1, Known, FailedFacts
  <2>3. n \in Node /\ n.breaker = Failed(nodes[w].breaker)
    BY <2>1, <2>2, Known DEF Node
  <2>4. f \in 0..FailureThreshold /\ 0 \in 0..RecoveryTimeout
    BY <2>1, Known, BreakerAssumption DEF Upto
  <2> HIDE DEF n, f
  <2> QED
    BY <2>1, <2>2, <2>3, <2>4, OneWorker
<1>11. ASSUME NEW w \in Worker, RemoveWorker(w) PROVE NodesOK'
  BY <1>11, RemoveKeepsNodes
<1>12. ASSUME NEW w \in Worker, Register(w) \/ Leave(w) PROVE NodesOK'
  BY <1>12, <1>1 DEF Register, Leave, resultVars
<1>13. CASE Main \/ Checker
  BY <1>13, <1>2, <1>3, <1>6 DEF Main, Checker
<1>14. CASE Next
  BY <1>14, <1>13, <1>4, <1>5, <1>7, <1>8, <1>9, <1>10, <1>11, <1>12 DEF Next
<1> QED
  BY <1>2, <1>14

\* The turn is counted with at most two picks of a worker.
LEMMA CountTurnTyped ==
    ASSUME IInv, NEW w \in Worker, CountTurn(w)
    PROVE  roster' \subseteq Worker /\ turns' \in [Worker -> 0..2]
<1> DEFINE before == IF Eligible = roster THEN turns ELSE [v \in Worker |-> 0]
           after == [before EXCEPT ![w] = Upto(@ + 1, 2)]
<1>1. before \in [Worker -> 0..2]
  BY Parts DEF RestOK
<1>2. Upto(before[w] + 1, 2) \in 0..2
  BY <1>1 DEF Upto
<1>3. after \in [Worker -> 0..2]
  BY <1>1, <1>2
<1>4. /\ roster' = Eligible
      /\ turns' = IF \A v \in Eligible : after[v] > 0
                  THEN [v \in Worker |-> IF v \in Eligible THEN after[v] - 1 ELSE 0]
                  ELSE after
  BY DEF CountTurn
<1>5. Eligible \subseteq Worker
  BY Parts DEF NodesOK, Eligible, Active
<1> HIDE DEF after
<1>6. turns' \in [Worker -> 0..2]
  <2>1. CASE \A v \in Eligible : after[v] > 0
    <3>1. \A v \in Worker : (IF v \in Eligible THEN after[v] - 1 ELSE 0) \in 0..2
      BY <1>3, <2>1
    <3> QED
      BY <1>4, <2>1, <3>1
  <2>2. CASE ~(\A v \in Eligible : after[v] > 0)
    BY <1>3, <1>4, <2>2
  <2> QED
    BY <2>1, <2>2
<1> QED
  BY <1>4, <1>5, <1>6

LEMMA RestNext == ASSUME IInv, [Next]_vars PROVE RestOK'
<1> USE DEF RestOK
<1>0. RestOK /\ DOMAIN nodes \subseteq Worker
  BY Parts DEF NodesOK
<1>1. CASE Main
  BY <1>0, <1>1 DEF Main, Fetch, FetchFails, UpdateWorkers, indexVars, pickVars
<1>2. CASE Checker
  BY <1>0, <1>2 DEF Checker, Check, MarkWorkerDead, indexVars, pickVars
<1>3. CASE Tick \/ UNCHANGED vars
  BY <1>0, <1>3 DEF Tick, vars, indexVars, threadVars, pickVars
<1>4. ASSUME NEW t \in Task, NEW w \in Worker \cup {None}, SelectWorker(t, w) PROVE RestOK'
  <2>1. UNCHANGED <<strategy, registered, threadVars>>
    BY <1>4 DEF SelectWorker
  <2>2. CASE strategy = "round_robin" /\ w # None
    <3>1. rr' = (rr + 1) % IndexPeriod /\ CountTurn(w)
      BY <1>4, <2>2 DEF SelectWorker
    <3>2. rr' \in 0..(IndexPeriod - 1)
      BY <1>0, <3>1
    <3>3. roster' \subseteq Worker /\ turns' \in [Worker -> 0..2]
      BY <2>2, <3>1, CountTurnTyped
    <3> QED
      BY <1>0, <2>1, <3>2, <3>3 DEF threadVars
  <2>3. CASE ~(strategy = "round_robin" /\ w # None)
    BY <1>0, <1>4, <2>1, <2>3 DEF SelectWorker, threadVars, pickVars
  <2> QED
    BY <2>2, <2>3
<1>5. ASSUME NEW w \in Worker,
             \/ IsWorkerAvailable(w) \/ (\E l \in 0..MaxLoad : UpdateWorkerLoad(w, l))
             \/ RecordSuccess(w) \/ RecordFailure(w) \/ RemoveWorker(w)
      PROVE  RestOK'
  BY <1>0, <1>5 DEF IsWorkerAvailable, UpdateWorkerLoad, RecordSuccess, RecordFailure, RemoveWorker,
     indexVars, threadVars, pickVars
<1>6. ASSUME NEW w \in Worker, Register(w) \/ Leave(w) PROVE RestOK'
  BY <1>0, <1>6 DEF Register, Leave, indexVars, threadVars, pickVars
<1> QED
  BY <1>1, <1>2, <1>3, <1>4, <1>5, <1>6 DEF Next

LEMMA Inductive == Spec => []IInv
<1>1. IInv /\ [Next]_vars => IInv'
  <2> SUFFICES ASSUME IInv, [Next]_vars PROVE IInv'
    OBVIOUS
  <2>1. NodesOK' /\ RestOK'
    BY NodesNext, RestNext
  <2> QED
    BY <2>1 DEF IInv, TypeOK, NodesOK, RestOK, Node
<1> QED
  BY InitIInv, <1>1, PTL DEF Spec

-----------------------------------------------------------------------------
(* The records of the workers, the indices and the threads of the balancer.*)
THEOREM BalancerTyped == Spec => []TypeOK
<1>1. IInv => TypeOK
  BY DEF IInv
<1> QED
  BY Inductive, <1>1, PTL

(* selectWorker and isWorkerAvailable offer no task to a worker that keeps *)
(* failing: its breaker has counted what recordFailure was told, in        *)
(* whatever order results and selections came.                             *)
THEOREM ShedsTheFailing == Spec => []FailingWorkerIsShed
<1>1. IInv => FailingWorkerIsShed
  <2> SUFFICES ASSUME IInv, NEW w \in Eligible,
                      bad[w] >= FailureThreshold, quiet[w] < RecoveryTimeout
               PROVE  FALSE
    BY DEF FailingWorkerIsShed
  <2>1. w \in DOMAIN nodes /\ Admits(nodes[w].breaker)
    BY DEF Eligible, Active
  <2>2. /\ Streak(nodes[w].breaker, bad[w], quiet[w]) /\ nodes[w].breaker \in BreakerState
        /\ bad[w] \in 0..FailureThreshold /\ quiet[w] \in 0..RecoveryTimeout
    BY <2>1, Known
  <2> QED
    BY <2>1, <2>2, BreakerAssumption DEF Streak, Admits, BreakerState, States
<1> QED
  BY Inductive, <1>1, PTL

-----------------------------------------------------------------------------
(* Round robin. The places 0 .. n - 1 of a set are taken each by one of    *)
(* its elements, so that Nth is defined by its CHOOSE.                     *)

LEMMA RankFacts ==
    ASSUME NEW S \in SUBSET Nat, IsFiniteSet(S), NEW w \in S
    PROVE  /\ Rank(S, w) \in 0..(Cardinality(S) - 1)
           /\ \A v \in S : v < w => Rank(S, v) < Rank(S, w)
<1> DEFINE below(x) == {v \in S : v < x}
<1>1. \A x \in S : IsFiniteSet(below(x)) /\ Cardinality(below(x)) \in Nat
  <2> SUFFICES ASSUME NEW x \in S PROVE IsFiniteSet(below(x)) /\ Cardinality(below(x)) \in Nat
    OBVIOUS
  <2>1. below(x) \in SUBSET S
    OBVIOUS
  <2>2. IsFiniteSet(below(x))
    BY <2>1, FS_Subset
  <2> QED
    BY <2>2, FS_CardinalityType
<1>2. Cardinality(below(w)) <= Cardinality(S) - 1
  <2>1. IsFiniteSet(S \ {w}) /\ Cardinality(S \ {w}) = Cardinality(S) - 1
    BY FS_RemoveElement
  <2>2. below(w) \in SUBSET (S \ {w})
    OBVIOUS
  <2> QED
    BY <2>1, <2>2, FS_Subset
<1>3. ASSUME NEW v \in S, v < w PROVE Cardinality(below(v)) < Cardinality(below(w))
  <2>1. v \notin below(v)
    OBVIOUS
  <2>2. below(v) \cup {v} \in SUBSET below(w)
    <3>1. \A x \in S : x < v => x < w
      BY <1>3
    <3> QED
      BY <1>3, <3>1
  <2>3. Cardinality(below(v) \cup {v}) = Cardinality(below(v)) + 1
    BY <1>1, <2>1, FS_AddElement
  <2>4. Cardinality(below(v) \cup {v}) <= Cardinality(below(w))
    BY <1>1, <2>2, FS_Subset
  <2> QED
    BY <1>1, <2>3, <2>4
<1>4. Cardinality(S) \in Nat
  BY FS_CardinalityType
<1>5. \A x \in S : Rank(S, x) = Cardinality(below(x))
  BY DEF Rank
<1> HIDE DEF below
<1> QED
  BY <1>1, <1>2, <1>3, <1>4, <1>5

LEMMA NthFacts ==
    ASSUME NEW S \in SUBSET Nat, IsFiniteSet(S), NEW i \in 0..(Cardinality(S) - 1)
    PROVE  Nth(S, i) \in S /\ Rank(S, Nth(S, i)) = i
<1> DEFINE n == Cardinality(S)
           f == [w \in S |-> Rank(S, w)]
<1>1. n \in Nat
  BY FS_CardinalityType
<1>2. \A v, w \in S : f[v] = f[w] => v = w
  BY RankFacts
<1>3. f \in [S -> 0..(n - 1)]
  BY RankFacts
<1>4. f \in Injection(S, 0..(n - 1))
  BY <1>2, <1>3 DEF Injection, IsInjective
<1>5. IsFiniteSet(0..(n - 1)) /\ Cardinality(0..(n - 1)) = n
  BY <1>1, FS_Interval
<1>6. f \in Surjection(S, 0..(n - 1))
  BY <1>4, <1>5, FS_Injection
<1>7. \E w \in S : Rank(S, w) = i
  BY <1>6 DEF Surjection
<1> QED
  BY <1>7 DEF Nth, Rank

\* The index after the next pick, on the circle of n places.
LEMMA NextPlace ==
    ASSUME NEW n \in Nat \ {0}, NEW x \in Nat
    PROVE  /\ x % n \in 0..(n - 1)
           /\ (x + 1) % n = IF (x % n) + 1 = n THEN 0 ELSE (x % n) + 1
<1> DEFINE q == x \div n
           r == x % n
<1>1. q \in Nat /\ r \in 0..(n - 1) /\ x = n * q + r
  OBVIOUS
<1> HIDE DEF q, r
<1>2. CASE r + 1 = n
  <2>1. x + 1 = n * (q + 1) + 0
    BY <1>1, <1>2
  <2>2. (x + 1) % n = 0
    BY <1>1, <2>1
  <2> QED
    BY <1>1, <1>2, <2>2 DEF r
<1>3. CASE r + 1 # n
  <2>1. x + 1 = n * q + (r + 1) /\ r + 1 \in 0..(n - 1)
    BY <1>1, <1>3
  <2>2. (x + 1) % n = r + 1
    BY <1>1, <2>1
  <2> QED
    BY <1>1, <1>3, <2>2 DEF r
<1> QED
  BY <1>2, <1>3

LEMMA NextIndex ==
    ASSUME NEW x \in 0..(IndexPeriod - 1), NEW n \in Nat \ {0}, IndexPeriod % n = 0
    PROVE  /\ x % n \in 0..(n - 1)
           /\ ((x + 1) % IndexPeriod) % n = IF (x % n) + 1 = n THEN 0 ELSE (x % n) + 1
<1> DEFINE r == x % n
           y == (x + 1) % n
           z == (x + 1) % IndexPeriod
<1>0. r \in 0..(n - 1) /\ y = IF r + 1 = n THEN 0 ELSE r + 1
  <2>1. x \in Nat
    OBVIOUS
  <2> QED
    BY ONLY <2>1, n \in Nat \ {0}, NextPlace, Zenon
<1>1. CASE x + 1 < IndexPeriod
  <2>1. z = x + 1
    BY <1>1
  <2>2. z % n = y
    BY <2>1
  <2> HIDE DEF r, y, z
  <2> QED
    BY <1>0, <2>2 DEF r, z
<1>2. CASE x + 1 = IndexPeriod
  <2>1. z = 0 /\ y = 0
    BY <1>2
  <2>2. z % n = y
    BY <2>1
  <2> HIDE DEF r, y, z
  <2> QED
    BY <1>0, <2>2 DEF r, z
<1> QED
  BY <1>1, <1>2

\* One pick more has gone round the circle.
LEMMA OnePickMore ==
    ASSUME NEW n \in Nat \ {0}, NEW next \in 0..(n - 1), NEW k \in 0..(n - 1), k + 1 < n,
           NEW place \in 0..(n - 1)
    PROVE  Behind(place, IF next + 1 = n THEN 0 ELSE next + 1, k + 1, n)
               <=> place = next \/ Behind(place, next, k, n)
  BY DEF Behind

\* The place that comes next has not been served in this turn.
LEMMA NextIsFree ==
    ASSUME NEW n \in Nat \ {0}, NEW next \in 0..(n - 1), NEW k \in 0..(n - 1)
    PROVE  ~Behind(next, next, k, n)
  BY DEF Behind

\* After n picks everybody has been served.
LEMMA LastPick ==
    ASSUME NEW n \in Nat \ {0}, NEW next \in 0..(n - 1), NEW place \in 0..(n - 1)
    PROVE  place = next \/ Behind(place, next, n - 1, n)
  BY DEF Behind

LEMMA NobodyYet ==
    ASSUME NEW n \in Nat \ {0}, NEW next \in 0..(n - 1), NEW place \in 0..(n - 1)
    PROVE  ~Behind(place, next, 0, n)
  BY DEF Behind

LEMMA EligibleFacts ==
    ASSUME IInv, NEW w \in Eligible
    PROVE  /\ Eligible \in SUBSET Nat /\ IsFiniteSet(Eligible) /\ Eligible \subseteq Worker
           /\ Cardinality(Eligible) \in Nat \ {0} /\ IndexPeriod % Cardinality(Eligible) = 0
<1>1. Eligible \subseteq Worker
  BY Parts DEF NodesOK, Eligible, Active
<1>2. Worker \subseteq Nat /\ IsFiniteSet(Worker)
  BY BalancerAssumption DEF BalancerAssumption
<1>3. IsFiniteSet(Eligible) /\ Cardinality(Eligible) <= Cardinality(Worker)
  BY <1>1, <1>2, FS_Subset
<1>4. Cardinality(Eligible) \in Nat /\ Cardinality(Worker) \in Nat
  BY <1>2, <1>3, FS_CardinalityType
<1>5. Cardinality(Eligible) # 0
  BY <1>3, FS_EmptySet
<1>6. IndexPeriod % Cardinality(Eligible) = 0
  <2>1. Cardinality(Eligible) \in 1..Cardinality(Worker)
    BY <1>3, <1>4, <1>5
  <2> QED
    BY <2>1, BalancerAssumption DEF BalancerAssumption
<1> QED
  BY <1>1, <1>2, <1>3, <1>4, <1>5, <1>6

\* A pick of round robin: it is that of the next place.
LEMMA PickKeepsTurn ==
    ASSUME IInv, RInv, NEW w \in Worker, w \in Eligible, w \in RoundRobin(Eligible),
           rr' = (rr + 1) % IndexPeriod, CountTurn(w)
    PROVE  RInv'
<1> DEFINE S == Eligible
           n == Cardinality(S)
           c == rr % n
           d == IF c + 1 = n THEN 0 ELSE c + 1
           before == IF S = roster THEN turns ELSE [v \in Worker |-> 0]
           after == [before EXCEPT ![w] = Upto(@ + 1, 2)]
<1>1. /\ S \in SUBSET Nat /\ IsFiniteSet(S) /\ S \subseteq Worker
      /\ n \in Nat \ {0} /\ IndexPeriod % n = 0
  BY EligibleFacts
<1>2. rr \in 0..(IndexPeriod - 1) /\ turns \in [Worker -> 0..2]
  BY Parts DEF RestOK
<1>3. c \in 0..(n - 1) /\ rr' % n = d
  BY <1>1, <1>2, NextIndex
<1>4. Rank(S, w) = c
  <2>1. w = Nth(S, c)
    BY DEF RoundRobin
  <2> QED
    BY <1>1, <1>3, <2>1, NthFacts
<1>5. \A v \in S : Rank(S, v) \in 0..(n - 1) /\ (Rank(S, v) = c => v = w)
  <2>1. \A v \in S : Rank(S, v) \in 0..(n - 1)
    BY <1>1, RankFacts
  <2>2. \A v \in S : v < w => Rank(S, v) < Rank(S, w)
    BY <1>1, RankFacts
  <2>3. \A v \in S : w < v => Rank(S, w) < Rank(S, v)
    BY <1>1, RankFacts
  <2> HIDE DEF S, n, c
  <2> QED
    BY <1>1, <1>3, <1>4, <2>1, <2>2, <2>3
<1>6. /\ before \in [Worker -> 0..2] /\ \A v \in Worker \ S : before[v] = 0
      /\ \E k \in 0..(n - 1) :
            \A v \in S : before[v] = IF Behind(Rank(S, v), c, k, n) THEN 1 ELSE 0
  <2>1. CASE S = roster
    BY <1>2, <2>1 DEF RInv, Turn, Others
  <2>2. CASE S # roster
    <3>1. 0 \in 0..(n - 1) /\ \A v \in S : ~Behind(Rank(S, v), c, 0, n)
      BY <1>1, <1>3, <1>5, NobodyYet
    <3>2. \A v \in Worker : before[v] = 0
      BY <2>2
    <3> QED
      BY <1>1, <2>2, <3>1, <3>2
  <2> QED
    BY <2>1, <2>2
<1>7. PICK k \in 0..(n - 1) :
          \A v \in S : before[v] = IF Behind(Rank(S, v), c, k, n) THEN 1 ELSE 0
  BY <1>6
<1>8. before[w] = 0
  BY <1>1, <1>3, <1>4, <1>7, NextIsFree
<1>9. /\ roster' = S
      /\ turns' = IF \A v \in S : after[v] > 0
                  THEN [v \in Worker |-> IF v \in S THEN after[v] - 1 ELSE 0]
                  ELSE after
  BY DEF CountTurn
<1>10. after[w] = 1 /\ \A v \in Worker \ {w} : after[v] = before[v]
  BY <1>6, <1>8 DEF Upto
<1>11. \A v \in S : after[v] = IF v = w \/ Behind(Rank(S, v), c, k, n) THEN 1 ELSE 0
  BY <1>1, <1>7, <1>10
<1>12. \A v \in Worker \ S : after[v] = 0
  BY <1>6, <1>10
<1> HIDE DEF S, n, c, d, before, after
<1>13. CASE \A v \in S : after[v] > 0
  <2>1. \A v \in Worker : turns'[v] = 0
    <3>1. \A v \in S : after[v] = 1
      BY <1>11, <1>13
    <3> QED
      BY <1>9, <1>13, <3>1
  <2>2. \A v \in S : ~Behind(Rank(S, v), d, 0, n)
    <3>1. d \in 0..(n - 1)
      BY <1>1, <1>3 DEF d
    <3> QED
      BY <1>1, <1>5, <3>1, NobodyYet
  <2>3. 0 \in 0..(n - 1)
    BY <1>1
  <2> QED
    BY <1>1, <1>3, <1>9, <2>1, <2>2, <2>3 DEF RInv, Turn, Others, n
<1>14. CASE ~(\A v \in S : after[v] > 0)
  <2>1. k + 1 < n
    <3>1. ASSUME k + 1 = n PROVE FALSE
      <4>1. \A v \in S : v = w \/ Behind(Rank(S, v), c, n - 1, n)
        BY <1>1, <1>3, <1>5, LastPick
      <4>2. k = n - 1
        BY <1>1, <3>1
      <4> QED
        BY <1>11, <1>14, <4>1, <4>2
    <3> QED
      BY <1>1, <3>1
  <2>2. \A v \in S : Behind(Rank(S, v), d, k + 1, n) <=> v = w \/ Behind(Rank(S, v), c, k, n)
    BY <1>1, <1>3, <1>4, <1>5, <2>1, OnePickMore DEF d
  <2>3. \A v \in S : turns'[v] = IF Behind(Rank(S, v), d, k + 1, n) THEN 1 ELSE 0
    BY <1>9, <1>11, <1>14, <2>2
  <2>4. k + 1 \in 0..(n - 1)
    BY <1>1, <2>1
  <2>5. \A v \in Worker \ S : turns'[v] = 0
    BY <1>9, <1>12, <1>14
  <2> QED
    BY <1>3, <1>9, <2>3, <2>4, <2>5 DEF RInv, Turn, Others, n
<1> QED
  BY <1>13, <1>14

LEMMA TurnNext == ASSUME IInv, RInv, [Next]_vars PROVE RInv'
<1>1. ASSUME UNCHANGED <<rr, pickVars>> PROVE RInv'
  BY <1>1 DEF RInv, Turn, Others, pickVars
<1>2. CASE Main \/ Checker \/ Tick \/ UNCHANGED vars
  BY <1>2, <1>1 DEF Main, Fetch, FetchFails, UpdateWorkers, Checker, Check, MarkWorkerDead, Tick, vars,
     indexVars
<1>3. ASSUME NEW t \in Task, NEW w \in Worker \cup {None}, SelectWorker(t, w) PROVE RInv'
  <2>1. CASE strategy = "round_robin" /\ w # None
    <3>1. /\ w \in Worker /\ Eligible # {} /\ w \in RoundRobin(Eligible)
          /\ rr' = (rr + 1) % IndexPeriod /\ CountTurn(w)
      BY <1>3, <2>1 DEF SelectWorker, Choices
    <3>2. w \in Eligible
      <4>1. PICK v \in Eligible : TRUE
        BY <3>1
      <4>2. /\ Eligible \in SUBSET Nat /\ IsFiniteSet(Eligible)
            /\ Cardinality(Eligible) \in Nat \ {0} /\ IndexPeriod % Cardinality(Eligible) = 0
        BY <4>1, EligibleFacts
      <4>3. rr \in 0..(IndexPeriod - 1)
        BY Parts DEF RestOK
      <4>4. rr % Cardinality(Eligible) \in 0..(Cardinality(Eligible) - 1)
        BY <4>2, <4>3, NextIndex
      <4> QED
        BY <3>1, <4>2, <4>4, NthFacts DEF RoundRobin
    <3> QED
      BY <3>1, <3>2, PickKeepsTurn
  <2>2. CASE ~(strategy = "round_robin" /\ w # None)
    BY <1>3, <2>2, <1>1 DEF SelectWorker
  <2> QED
    BY <2>1, <2>2
<1>4. ASSUME NEW w \in Worker,
             \/ IsWorkerAvailable(w) \/ (\E l \in 0..MaxLoad : UpdateWorkerLoad(w, l))
             \/ RecordSuccess(w) \/ RecordFailure(w) \/ RemoveWorker(w)
             \/ Register(w) \/ Leave(w)
      PROVE  RInv'
  BY <1>4, <1>1 DEF IsWorkerAvailable, UpdateWorkerLoad, RecordSuccess, RecordFailure, RemoveWorker,
     Register, Leave, indexVars
<1> QED
  BY <1>2, <1>3, <1>4 DEF Next

(* Round robin serves every eligible worker once before it serves one      *)
(* again, while the eligible ones stay the same, wherever the index stood. *)
THEOREM ServesInTurn == Spec => []RoundRobinFair
<1>1. Init => RInv
  BY DEF Init, RInv, Turn, Others
<1>2. IInv /\ RInv => RoundRobinFair
  <2> SUFFICES ASSUME IInv, RInv, NEW w \in Worker PROVE turns[w] <= 1
    BY DEF RoundRobinFair
  <2>1. CASE w \in roster
    BY <2>1 DEF RInv, Turn
  <2>2. CASE w \notin roster
    BY <2>2 DEF RInv, Others
  <2> QED
    BY <2>1, <2>2
<1>3. IInv /\ RInv /\ [Next]_vars => RInv'
  BY TurnNext
<1> QED
  BY Inductive, <1>1, <1>2, <1>3, PTL DEF Spec

-----------------------------------------------------------------------------
(* The strategies.  Every one of them finds a worker among those that are  *)
(* eligible: a smallest load or hash value exists, and the first of the    *)
(* workers that have it.                                                   *)

LEMMA HasLeast ==
    ASSUME NEW S, IsFiniteSet(S), S # {}, NEW f, \A x \in S : f[x] \in Nat
    PROVE  \E w \in S : \A v \in S : f[w] <= f[v]
<1> DEFINE V == {f[x] : x \in S}
           g == [x \in S |-> f[x]]
<1>1. g \in Surjection(S, V)
  BY DEF Surjection
<1>2. V \in SUBSET Nat
  OBVIOUS
<1>3. IsFiniteSet(V)
  BY <1>1, FS_Surjection
<1>4. Cardinality(V) \in Nat /\ Cardinality(V) # 0
  <2>1. V # {}
    OBVIOUS
  <2> HIDE DEF V
  <2> QED
    BY <1>3, <2>1, FS_CardinalityType, FS_EmptySet
<1>5. PICK m \in V : Rank(V, m) = 0
  <2>1. 0 \in 0..(Cardinality(V) - 1)
    BY <1>4
  <2> HIDE DEF V
  <2> QED
    BY <1>2, <1>3, <2>1, NthFacts
<1>6. {v \in V : v < m} = {}
  <2>1. {v \in V : v < m} \in SUBSET V
    OBVIOUS
  <2>2. IsFiniteSet({v \in V : v < m})
    BY <1>3, <2>1, FS_Subset
  <2> QED
    BY <1>5, <2>2, FS_EmptySet DEF Rank
<1>7. \A v \in V : m <= v
  BY <1>2, <1>6
<1> QED
  BY <1>7

\* The first in map order of a set of workers that is not empty.
LEMMA FirstFacts ==
    ASSUME NEW S \in SUBSET Nat, IsFiniteSet(S), S # {}
    PROVE  Nth(S, 0) \in S
<1>1. Cardinality(S) \in Nat /\ Cardinality(S) # 0
  BY FS_CardinalityType, FS_EmptySet
<1> QED
  BY <1>1, NthFacts

\* What the strategies use of the eligible workers.
LEMMA ChoiceFacts ==
    ASSUME IInv, Eligible # {}
    PROVE  /\ Eligible \in SUBSET Nat /\ Eligible \subseteq Worker /\ IsFiniteSet(Eligible)
           /\ \A w \in Eligible : nodes[w].load \in Nat
<1>1. ASSUME NEW w \in Eligible PROVE nodes[w].load \in Nat
  <2>1. nodes[w] \in Node
    BY Known DEF Eligible, Active
  <2> QED
    BY <2>1 DEF Node
<1>2. PICK w \in Eligible : TRUE
  OBVIOUS
<1> QED
  BY <1>1, <1>2, EligibleFacts

(* All three strategies answer with an available worker whenever there is  *)
(* one: the index of round robin stays within the list, least connection   *)
(* finds a least load, and consistent hashing wraps around the circle when *)
(* no worker is ahead of the task.                                         *)
THEOREM EveryStrategyAnswers ==
    Spec => [](Eligible # {} =>
                  \A t \in Task : /\ Choices(Eligible, t) \subseteq Eligible
                                  /\ Choices(Eligible, t) # {})
<1> DEFINE S == Eligible
<1>1. ASSUME IInv, S # {} PROVE RoundRobin(S) \subseteq S
  <2>1. Cardinality(S) \in Nat \ {0}
    BY <1>1, ChoiceFacts, FS_CardinalityType, FS_EmptySet
  <2>2. rr % Cardinality(S) \in 0..(Cardinality(S) - 1)
    BY <1>1, <2>1, Parts DEF RestOK
  <2> QED
    BY <1>1, <2>2, ChoiceFacts, NthFacts DEF RoundRobin
<1>2. ASSUME IInv, S # {} PROVE LeastConnection(S) \subseteq S
  <2> DEFINE least == {w \in S : \A v \in S : nodes[w].load <= nodes[v].load}
             load == [w \in S |-> nodes[w].load]
  <2>1. \E w \in S : \A v \in S : load[w] <= load[v]
    <3>1. \A w \in S : load[w] \in Nat
      <4>1. \A w \in S : nodes[w].load \in Nat
        BY ChoiceFacts, <1>2, Zenon
      <4> HIDE DEF S
      <4> QED
        BY <4>1
    <3> HIDE DEF load
    <3> QED
      BY <1>2, <3>1, ChoiceFacts, HasLeast
  <2>2. least # {} /\ least \in SUBSET S /\ least \in SUBSET Nat
    BY <1>2, <2>1, ChoiceFacts
  <2>3. IsFiniteSet(least)
    BY <1>2, <2>2, ChoiceFacts, FS_Subset
  <2> QED
    BY <2>2, <2>3, FirstFacts DEF LeastConnection
<1>3. ASSUME IInv, S # {}, NEW t \in Task
      PROVE  ConsistentHash(S, t) \subseteq S /\ ConsistentHash(S, t) # {}
  <2> DEFINE ahead == {w \in S : HashOf[t] <= HashOf[w]}
             arc == IF ahead # {} THEN ahead ELSE S
  <2>1. arc # {} /\ arc \in SUBSET S
    BY <1>3
  <2>2. IsFiniteSet(arc) /\ \A w \in arc : HashOf[w] \in Nat
    BY <1>3, <2>1, ChoiceFacts, FS_Subset, BalancerAssumption DEF BalancerAssumption
  <2>3. \E w \in arc : \A v \in arc : HashOf[w] <= HashOf[v]
    <3> HIDE DEF arc
    <3> QED
      BY <1>3, <2>1, <2>2, HasLeast
  <2> QED
    BY <2>1, <2>3 DEF ConsistentHash
<1>4. RoundRobin(S) # {} /\ LeastConnection(S) # {}
  BY DEF RoundRobin, LeastConnection
<1>5. IInv => (Eligible # {} =>
                 \A t \in Task : /\ Choices(Eligible, t) \subseteq Eligible
                                 /\ Choices(Eligible, t) # {})
  BY <1>1, <1>2, <1>3, <1>4 DEF Choices
<1> QED
  BY Inductive, <1>5, PTL

-----------------------------------------------------------------------------
(* The breakers of a program in which nothing fails.                       *)
AllClosed == \A w \in DOMAIN nodes : nodes[w].breaker.state = "CLOSED"

LEMMA CalmFacts ==
    ASSUME NEW b \in BreakerState, b.state = "CLOSED"
    PROVE  /\ Later(b).state = "CLOSED" /\ Asked(b).state = "CLOSED"
           /\ Succeeded(b).state = "CLOSED"
BY DEF BreakerState, Later, Asked, Succeeded

LEMMA OneClosed ==
    ASSUME AllClosed, NEW w \in DOMAIN nodes, NEW n, nodes' = [nodes EXCEPT ![w] = n],
           n.breaker.state = "CLOSED"
    PROVE  AllClosed'
<1>1. ASSUME NEW v \in DOMAIN nodes' PROVE nodes'[v].breaker.state = "CLOSED"
  <2>1. v \in DOMAIN nodes
    OBVIOUS
  <2>2. nodes'[v] = n \/ nodes'[v] = nodes[v]
    BY <2>1
  <2> QED
    BY <2>1, <2>2 DEF AllClosed
<1> QED
  BY <1>1 DEF AllClosed

LEMMA ClosedNext ==
    ASSUME "failure" \notin Reports, IInv, AllClosed, [Next]_vars PROVE AllClosed'
<1>0. ASSUME NEW w \in DOMAIN nodes
      PROVE  /\ nodes[w] \in Node /\ nodes[w].breaker \in BreakerState
             /\ nodes[w].breaker.state = "CLOSED"
  BY Known DEF AllClosed
<1>1. ASSUME UNCHANGED nodes PROVE AllClosed'
  BY <1>1 DEF AllClosed
<1>2. CASE UpdateWorkers
  <2>1. ASSUME NEW w \in DOMAIN nodes' PROVE nodes'[w].breaker.state = "CLOSED"
    <3>1. /\ w \in DOMAIN nodes => nodes'[w] = [nodes[w] EXCEPT !.age = 0]
          /\ w \notin DOMAIN nodes => nodes'[w] = NewNode
      BY <1>2 DEF UpdateWorkers
    <3>2. CASE w \in DOMAIN nodes
      <4>1. nodes'[w].breaker = nodes[w].breaker
        BY <1>0, <3>1, <3>2 DEF Node
      <4> QED
        BY <1>0, <3>2, <4>1
    <3>3. CASE w \notin DOMAIN nodes
      BY <3>1, <3>3 DEF NewNode, NewBreaker
    <3> QED
      BY <3>2, <3>3
  <2> QED
    BY <2>1 DEF AllClosed
<1>3. ASSUME NEW w \in Worker, MarkWorkerDead(w) PROVE AllClosed'
  <2>1. CASE w \in DOMAIN nodes
    <3> DEFINE n == [nodes[w] EXCEPT !.status = "dead"]
    <3>1. nodes' = [nodes EXCEPT ![w] = n]
      BY <1>3, <2>1 DEF MarkWorkerDead
    <3>2. n.breaker = nodes[w].breaker
      BY <1>0, <2>1 DEF Node
    <3> HIDE DEF n
    <3> QED
      BY <1>0, <2>1, <3>1, <3>2, OneClosed
  <2> QED
    BY <1>1, <1>3, <2>1 DEF MarkWorkerDead
<1>4. CASE Tick
  <2>1. ASSUME NEW w \in DOMAIN nodes' PROVE nodes'[w].breaker.state = "CLOSED"
    <3>1. w \in DOMAIN nodes
      BY <1>4 DEF Tick
    <3>2. nodes'[w].breaker = Later(nodes[w].breaker)
      BY <1>0, <1>4, <3>1 DEF Tick, Node
    <3> QED
      BY <1>0, <3>1, <3>2, CalmFacts
  <2> QED
    BY <2>1 DEF AllClosed
<1>5. ASSUME NEW t \in Task, NEW w \in Worker \cup {None}, SelectWorker(t, w) PROVE AllClosed'
  <2>1. ASSUME NEW v \in DOMAIN nodes' PROVE nodes'[v].breaker.state = "CLOSED"
    <3>1. v \in DOMAIN nodes
      BY <1>5 DEF SelectWorker, Consulted
    <3>2. nodes'[v].breaker = Asked(nodes[v].breaker) \/ nodes'[v] = nodes[v]
      BY <1>0, <1>5, <3>1 DEF SelectWorker, Consulted, Node
    <3> QED
      BY <1>0, <3>1, <3>2, CalmFacts
  <2> QED
    BY <2>1 DEF AllClosed
<1>6. ASSUME NEW w \in Worker, IsWorkerAvailable(w) PROVE AllClosed'
  <2> DEFINE n == [nodes[w] EXCEPT !.breaker = Asked(nodes[w].breaker)]
  <2>1. w \in DOMAIN nodes /\ nodes' = [nodes EXCEPT ![w] = n]
    BY <1>6 DEF IsWorkerAvailable, Active
  <2>2. n.breaker = Asked(nodes[w].breaker)
    BY <1>0, <2>1 DEF Node
  <2> HIDE DEF n
  <2> QED
    BY <1>0, <2>1, <2>2, CalmFacts, OneClosed
<1>7. ASSUME NEW w \in Worker, NEW l \in 0..MaxLoad, UpdateWorkerLoad(w, l) PROVE AllClosed'
  <2> DEFINE n == [nodes[w] EXCEPT !.load = l]
  <2>1. w \in DOMAIN nodes /\ nodes' = [nodes EXCEPT ![w] = n]
    BY <1>7 DEF UpdateWorkerLoad
  <2>2. n.breaker = nodes[w].breaker
    BY <1>0, <2>1 DEF Node
  <2> HIDE DEF n
  <2> QED
    BY <1>0, <2>1, <2>2, OneClosed
<1>8. ASSUME NEW w \in Worker, RecordSuccess(w) PROVE AllClosed'
  <2> DEFINE n == [nodes[w] EXCEPT !.breaker = Succeeded(nodes[w].breaker)]
  <2>1. w \in DOMAIN nodes /\ nodes' = [nodes EXCEPT ![w] = n]
    BY <1>8 DEF RecordSuccess
  <2>2. n.breaker = Succeeded(nodes[w].breaker)
    BY <1>0, <2>1 DEF Node
  <2> HIDE DEF n
  <2> QED
    BY <1>0, <2>1, <2>2, CalmFacts, OneClosed
<1>9. ASSUME NEW w \in Worker, RemoveWorker(w) PROVE AllClosed'
  BY <1>9 DEF RemoveWorker, AllClosed
<1>10. ASSUME NEW w \in Worker PROVE ~RecordFailure(w)
  BY DEF RecordFailure
<1>11. ASSUME NEW w \in Worker, Register(w) \/ Leave(w) PROVE AllClosed'
  BY <1>1, <1>11 DEF Register, Leave
<1>12. CASE Fetch \/ FetchFails \/ Check \/ UNCHANGED vars
  BY <1>1, <1>12 DEF Fetch, FetchFails, Check, vars
<1> QED
  BY <1>2, <1>3, <1>4, <1>5, <1>6, <1>7, <1>8, <1>9, <1>10, <1>11, <1>12 DEF Next, Main, Checker

(* While no caller reports failures, as none does in the scheduler as it   *)
(* is, every breaker stays closed: a selection chooses among all workers   *)
(* that are known and not marked dead, which is how the dispatcher's       *)
(* module understands selectWorker.                                        *)
THEOREM OffersAllActive == ASSUME "failure" \notin Reports PROVE Spec => [](Eligible = Active)
<1>1. Init => AllClosed
  BY DEF Init, AllClosed, NewNode, NewBreaker
<1>2. IInv /\ AllClosed /\ [Next]_vars => AllClosed'
  BY ClosedNext
<1>3. AllClosed => Eligible = Active
  BY DEF AllClosed, Eligible, Active, Admits
<1> QED
  BY Inductive, <1>1, <1>2, <1>3, PTL DEF Spec
=============================================================================
