---------------------------- MODULE LoadBalancer ----------------------------
(***************************************************************************)
(* The scheduler's view of the workers (scheduler/load_balancer.cpp) and   *)
(* the threads that share it: main, which reads the service registry and   *)
(* calls updateWorkers; workerCheckLoop, which copies the workers and then *)
(* marks the stale ones dead; the dispatcher, which calls selectWorker;    *)
(* and whoever reports loads and results.  Every call holds the one mutex, *)
(* so it is one step; between two calls anything may happen.               *)
(***************************************************************************)
EXTENDS Breaker, FiniteSets

CONSTANTS
    Worker,       \* worker ids, numbers in the order of the std::map
    Task,         \* task ids, as selectWorker sees them
    None,
    Strategies,   \* strategies that are configured: "round_robin",
                  \* "least_connection", "consistent_hash"
    HashOf,       \* hash() of worker and task ids
    DeadAfter,    \* the 15000 ms of workerCheckLoop, in ticks
    Reports,      \* results that are reported, a subset of {"success", "failure"}
    MaxLoad,      \* bound: loads that are reported
    IndexPeriod,  \* bound: round_robin_index_ is kept modulo a common multiple
                  \* of all numbers of workers
    MaxOutages,   \* bound: reads of the registry that fail
    MaxLeaves,    \* bound: workers that leave the registry
    MaxRemovals   \* bound: calls of removeWorker

ASSUME BalancerAssumption ==
    /\ Worker \subseteq Nat /\ IsFiniteSet(Worker) /\ None \notin Worker
    /\ DeadAfter \in Nat /\ MaxLoad \in Nat
    /\ IndexPeriod \in Nat \ {0}
    /\ \A n \in 1..Cardinality(Worker) : IndexPeriod % n = 0
    /\ \A x \in Worker \cup Task : HashOf[x] \in Nat

VARIABLES
    nodes,        \* known worker -> its WorkerNode and its circuit breaker
    strategy,     \* strategy_, which only the constructor sets
    rr,           \* round_robin_index_
    registered,   \* the workers in the registry
    mpc, services,   \* main: "fetch" or "update", and what it fetched
    stale,        \* workerCheckLoop: ids it still has to mark dead
    \* history, read by no action
    turns, roster,   \* picks per worker in this turn, up to 2
    bad, quiet,   \* per worker: failures in a row since it was added, and
                  \* the time since the last one
    outages, leaves, removals

threadVars == <<mpc, services, stale>>
indexVars == <<strategy, rr>>
pickVars == <<turns, roster>>
resultVars == <<bad, quiet>>
boundVars == <<outages, leaves, removals>>
vars == <<nodes, indexVars, registered, threadVars, pickVars, resultVars, boundVars>>

NewNode == [status |-> "active", load |-> 0, age |-> 0, breaker |-> NewBreaker]

Active == {w \in DOMAIN nodes : nodes[w].status = "active"}
Eligible == {w \in Active : Admits(nodes[w].breaker)}

\* allowRequest is called for every active worker, chosen or not.
Consulted == [w \in DOMAIN nodes |->
                 IF w \in Active THEN [nodes[w] EXCEPT !.breaker = Asked(@)]
                 ELSE nodes[w]]

-----------------------------------------------------------------------------
(* The strategies: the workers each may pick from the eligible ones.       *)

\* The k-th smallest, from 0: available_workers is filled in map order.
Nth(S, k) == CHOOSE w \in S : Cardinality({v \in S : v < w}) = k

\* Wrong variant: looks the index up among all workers, then skips ahead.
RoundRobinSkips(S) ==
    LET start == Nth(DOMAIN nodes, rr % Cardinality(DOMAIN nodes))
        ahead == {w \in S : w >= start}
    IN  {Nth(IF ahead # {} THEN ahead ELSE S, 0)}

RoundRobin(S) == {Nth(S, rr % Cardinality(S))}

\* The first one in map order with the smallest cached load.
LeastConnection(S) ==
    LET least == {w \in S : \A v \in S : nodes[w].load <= nodes[v].load}
    IN  {Nth(least, 0)}

\* The next worker on the circle; std::sort leaves equal hashes in any order.
ConsistentHash(S, t) ==
    LET ahead == {w \in S : HashOf[t] <= HashOf[w]}
        arc == IF ahead # {} THEN ahead ELSE S
    IN  {w \in arc : \A v \in arc : HashOf[w] <= HashOf[v]}

Choices(S, t) ==
    CASE strategy = "round_robin" -> RoundRobin(S)
      [] strategy = "consistent_hash" -> ConsistentHash(S, t)
      [] OTHER -> LeastConnection(S)

-----------------------------------------------------------------------------
Init ==
    /\ \E S \in SUBSET Worker :
         registered = S /\ nodes = [w \in S |-> NewNode]
    /\ strategy \in Strategies /\ rr = 0
    /\ mpc = "fetch" /\ services = {} /\ stale = {}
    /\ turns = [w \in Worker |-> 0] /\ roster = {}
    /\ bad = [w \in Worker |-> 0] /\ quiet = [w \in Worker |-> RecoveryTimeout]
    /\ outages = 0 /\ leaves = 0 /\ removals = 0

(* main: getServices, then updateWorkers.                                  *)

Fetch ==
    /\ mpc = "fetch"
    /\ services' = registered
    /\ mpc' = "update"
    /\ UNCHANGED <<nodes, indexVars, registered, stale, pickVars, resultVars,
                   boundVars>>

\* etcd does not answer, the range request or the get of some keys: getServices
\* returns what it has, the empty list if need be, and reports no error.
FetchFails ==
    /\ mpc = "fetch" /\ outages < MaxOutages
    /\ outages' = outages + 1
    /\ services' \in SUBSET registered
    /\ mpc' = "update"
    /\ UNCHANGED <<nodes, indexVars, registered, stale, pickVars, resultVars, leaves,
                   removals>>

\* Wrong variant: keeps the workers that are no longer listed.
UpdateWorkersAddsOnly ==
    /\ mpc = "update"
    /\ nodes' = [w \in services \cup DOMAIN nodes |->
                    IF w \notin DOMAIN nodes THEN NewNode
                    ELSE IF w \in services THEN [nodes[w] EXCEPT !.age = 0]
                    ELSE nodes[w]]
    /\ mpc' = "fetch" /\ services' = {}
    /\ UNCHANGED <<indexVars, registered, stale, pickVars, resultVars, boundVars>>

UpdateWorkers ==
    /\ mpc = "update"
    /\ nodes' = [w \in services |->
                    IF w \in DOMAIN nodes THEN [nodes[w] EXCEPT !.age = 0] ELSE NewNode]
    /\ bad' = [w \in Worker |-> IF w \in services THEN bad[w] ELSE 0]
    /\ mpc' = "fetch" /\ services' = {}
    /\ UNCHANGED <<indexVars, registered, stale, pickVars, quiet, boundVars>>

Main == Fetch \/ FetchFails \/ UpdateWorkers

(* workerCheckLoop: a copy of the workers, then one call per stale worker. *)

Check ==
    /\ stale = {}
    /\ stale' = {w \in DOMAIN nodes : nodes[w].age > DeadAfter}
    /\ UNCHANGED <<nodes, indexVars, registered, mpc, services, pickVars, resultVars,
                   boundVars>>

\* Wrong variant: forgets the rest of the copy after the first worker.
MarkWorkerDeadOnce(w) ==
    /\ w \in stale /\ \A v \in stale : w <= v
    /\ nodes' = IF w \in DOMAIN nodes
                THEN [nodes EXCEPT ![w].status = "dead"] ELSE nodes
    /\ stale' = {}
    /\ UNCHANGED <<indexVars, registered, mpc, services, pickVars, resultVars,
                   boundVars>>

MarkWorkerDead(w) ==
    /\ w \in stale /\ \A v \in stale : w <= v
    /\ nodes' = IF w \in DOMAIN nodes
                THEN [nodes EXCEPT ![w].status = "dead"] ELSE nodes
    /\ stale' = stale \ {w}
    /\ UNCHANGED <<indexVars, registered, mpc, services, pickVars, resultVars,
                   boundVars>>

Checker == Check \/ \E w \in Worker : MarkWorkerDead(w)

-----------------------------------------------------------------------------
(* selectWorker, called by the dispatcher thread.                          *)

\* A turn of round robin ends when every eligible worker was picked in it.
CountTurn(w) ==
    LET before == IF Eligible = roster THEN turns ELSE [v \in Worker |-> 0]
        after == [before EXCEPT ![w] = Upto(@ + 1, 2)]
    IN  /\ roster' = Eligible
        /\ turns' = IF \A v \in Eligible : after[v] > 0
                    THEN [v \in Worker |-> IF v \in Eligible THEN after[v] - 1 ELSE 0]
                    ELSE after

\* It answers w, or None.
SelectWorker(t, w) ==
    /\ nodes' = Consulted
    /\ IF Eligible = {} THEN w = None ELSE w \in Choices(Eligible, t)
    /\ IF strategy = "round_robin" /\ w # None
       THEN rr' = (rr + 1) % IndexPeriod /\ CountTurn(w)
       ELSE UNCHANGED <<rr, pickVars>>
    /\ UNCHANGED <<strategy, registered, threadVars, resultVars, boundVars>>

(* The other callers.  A call that names a worker the balancer does not    *)
(* know changes nothing.                                                   *)

\* isWorkerAvailable: it, too, calls allowRequest.
IsWorkerAvailable(w) ==
    /\ w \in Active
    /\ nodes' = [nodes EXCEPT ![w].breaker = Asked(@)]
    /\ UNCHANGED <<indexVars, registered, threadVars, pickVars, resultVars, boundVars>>

\* Wrong variant: workers_[worker_id] adds a node nobody has filled in.
UpdateWorkerLoadAdds(w, load) ==
    /\ nodes' = [v \in DOMAIN nodes \cup {w} |->
                    IF v \notin DOMAIN nodes
                    THEN [NewNode EXCEPT !.status = "", !.load = load]
                    ELSE IF v = w THEN [nodes[v] EXCEPT !.load = load] ELSE nodes[v]]
    /\ UNCHANGED <<indexVars, registered, threadVars, pickVars, resultVars, boundVars>>

\* Heartbeat and assignTaskToWorker; neither touches last_heartbeat.
UpdateWorkerLoad(w, load) ==
    /\ w \in DOMAIN nodes
    /\ nodes' = [nodes EXCEPT ![w].load = load]
    /\ UNCHANGED <<indexVars, registered, threadVars, pickVars, resultVars, boundVars>>

RecordSuccess(w) ==
    /\ "success" \in Reports /\ w \in DOMAIN nodes
    /\ bad' = [bad EXCEPT ![w] = 0]
    /\ nodes' = [nodes EXCEPT ![w].breaker = Succeeded(@)]
    /\ UNCHANGED <<indexVars, registered, threadVars, pickVars, quiet, boundVars>>

\* Wrong variant: reports of workers that are not active are dropped.
RecordFailureOfActive(w) ==
    /\ "failure" \in Reports /\ w \in DOMAIN nodes
    /\ bad' = [bad EXCEPT ![w] = Upto(@ + 1, FailureThreshold)]
    /\ quiet' = [quiet EXCEPT ![w] = 0]
    /\ nodes' = IF w \in Eligible
                THEN [nodes EXCEPT ![w].breaker = Failed(@)] ELSE nodes
    /\ UNCHANGED <<indexVars, registered, threadVars, pickVars, boundVars>>

RecordFailure(w) ==
    /\ "failure" \in Reports /\ w \in DOMAIN nodes
    /\ bad' = [bad EXCEPT ![w] = Upto(@ + 1, FailureThreshold)]
    /\ quiet' = [quiet EXCEPT ![w] = 0]
    /\ nodes' = [nodes EXCEPT ![w].breaker = Failed(@)]
    /\ UNCHANGED <<indexVars, registered, threadVars, pickVars, boundVars>>

RemoveWorker(w) ==
    /\ w \in DOMAIN nodes /\ removals < MaxRemovals
    /\ removals' = removals + 1
    /\ nodes' = [v \in DOMAIN nodes \ {w} |-> nodes[v]]
    /\ bad' = [bad EXCEPT ![w] = 0]
    /\ UNCHANGED <<indexVars, registered, threadVars, pickVars, quiet, outages,
                   leaves>>

-----------------------------------------------------------------------------
(* The registry and the clocks.                                            *)

Register(w) ==
    /\ registered' = registered \cup {w}
    /\ UNCHANGED <<nodes, indexVars, threadVars, pickVars, resultVars, boundVars>>

Leave(w) ==
    /\ w \in registered /\ leaves < MaxLeaves
    /\ leaves' = leaves + 1
    /\ registered' = registered \ {w}
    /\ UNCHANGED <<nodes, indexVars, threadVars, pickVars, resultVars, outages, removals>>

Tick ==
    /\ nodes' = [w \in DOMAIN nodes |->
                    [nodes[w] EXCEPT !.age = Upto(@ + 1, DeadAfter + 1),
                                     !.breaker = Later(@)]]
    /\ quiet' = [w \in Worker |-> Upto(quiet[w] + 1, RecoveryTimeout)]
    /\ UNCHANGED <<indexVars, registered, threadVars, pickVars, bad, boundVars>>

Next ==
    \/ Main \/ Checker \/ Tick
    \/ \E t \in Task : (\E w \in Worker \cup {None} : SelectWorker(t, w))
    \/ \E w \in Worker :
         \/ IsWorkerAvailable(w) \/ (\E l \in 0..MaxLoad : UpdateWorkerLoad(w, l))
         \/ RecordSuccess(w) \/ RecordFailure(w) \/ RemoveWorker(w)
         \/ Register(w) \/ Leave(w)

Spec == Init /\ [][Next]_vars

\* The checker thread runs and time passes; main may hang in a registry call.
FairSpec == Spec /\ WF_vars(Checker) /\ WF_vars(Tick)

-----------------------------------------------------------------------------
TypeOK ==
    /\ DOMAIN nodes \subseteq Worker
    /\ \A w \in DOMAIN nodes :
         nodes[w] \in [status : {"active", "dead"}, load : 0..MaxLoad,
                       age : 0..(DeadAfter + 1), breaker : BreakerState]
    /\ strategy \in Strategies /\ rr \in 0..(IndexPeriod - 1)
    /\ registered \subseteq Worker
    /\ services \subseteq Worker /\ stale \subseteq Worker
    /\ mpc \in {"fetch", "update"}
    /\ roster \subseteq Worker /\ turns \in [Worker -> 0..2]
    /\ bad \in [Worker -> 0..FailureThreshold]
    /\ quiet \in [Worker -> 0..RecoveryTimeout]

(* While the eligible workers stay the same, round robin serves all of     *)
(* them before it serves one again, from whatever index the sets before    *)
(* have left behind.                                                       *)
RoundRobinFair == \A w \in Worker : turns[w] <= 1

(* A worker that has failed FailureThreshold times in a row since it was   *)
(* added, the last time less than the recovery timeout ago, is not offered *)
(* any task, although every selection asks the breakers of all workers and *)
(* results are reported in any state.                                      *)
FailingWorkerIsShed ==
    \A w \in Eligible : ~(bad[w] >= FailureThreshold /\ quiet[w] < RecoveryTimeout)

(* A worker that has left the registry for good is forgotten for good,     *)
(* provided main goes on refreshing, even from a list fetched before.      *)
LeaversAreForgotten ==
    \A w \in Worker :
        ([]<><<UpdateWorkers>>_vars /\ <>[](w \notin registered))
            => <>[](w \notin DOMAIN nodes)

(* When main hangs and refreshes no more, dispatching stops: every worker  *)
(* it still knows is marked dead, for nobody vouches for them any longer.  *)
StalledRefreshStopsDispatch ==
    <>[][~UpdateWorkers]_vars => <>[](Eligible = {})

(* scheduler.cpp:183 says of the worker it marks dead that it has missed   *)
(* its heartbeat: its own last_heartbeat, at that moment, is too old.      *)
MarkedOnlyIfStale ==
    [][\A w \in DOMAIN nodes \cap DOMAIN nodes' :
          nodes[w].status = "active" /\ nodes'[w].status = "dead"
              => nodes[w].age > DeadAfter]_vars
=============================================================================
