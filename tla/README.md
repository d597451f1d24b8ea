# TaskFlow in TLA+

TLA+ modules, TLC instances and TLAPS proofs about TaskFlow, a task scheduling
system in C++ (gRPC, Redis, etcd).  Paths below are relative to the root of the
repository; `PROJECT.json` names, for every definition, the lines it stands for.

## 1. Inventory

| Component | State | Operations | Properties that make it correct |
|---|---|---|---|
| Scheduler process, `src/scheduler.cpp` | `g_running`, three threads of its own plus the gRPC threads | SubmitTask, GetTaskStatus, GetWorkers, RegisterWorker, Heartbeat; `taskDispatchLoop`, `workerCheckLoop`, refresh of the workers each second, shutdown | an accepted task is dispatched, once; faults lose a bounded number of tasks; only stale workers are marked dead |
| TaskDispatcher, `src/scheduler/task_dispatcher.cpp` | none; everything is in Redis: hash `task:<id>`, lists `queue:high/medium/low`, counters `worker:load:<id>` | submitTask, popNextTask, assignTaskToWorker, completeTask, failTask, retryTask | record, list and counter agree, although each call is several Redis commands |
| LoadBalancer, `src/scheduler/load_balancer.cpp` | workers, breakers, round robin index, one mutex | updateWorkers, updateWorkerLoad, removeWorker, markWorkerDead, selectWorker, isWorkerAvailable, recordSuccess, recordFailure | fairness of round robin, failing workers shed, leavers forgotten |
| CircuitBreaker, `src/common/circuit_breaker.cpp` | state, two counters, time of the last failure | allowRequest, recordSuccess, recordFailure, reset | opens at the threshold, recovers |
| Snowflake, `src/common/snowflake.cpp` | last timestamp, sequence, mutex | init, nextId | ids are unique and increase |
| RedisClient, RedisPool, `src/common/redis_client.cpp` | hiredis context, `connected_`; places of the pool | one method per command; getConnection, returnConnection | a connection has one user, a reply reaches its asker, the pool does not grow without need |
| EtcdClient, ServiceRegistry, `src/common/etcd_client.cpp` | lease, refresh thread, mutex | registerService, refreshService, getServices, deregisterService, shutdown | a live service stays listed, a dead one disappears |
| Worker, `src/worker.cpp` | `g_running`, `current_load_`, server and heartbeat thread | registration, ExecuteTask, Heartbeat, heartbeatLoop, shutdown | listed while it serves, stops when told |
| Tracker, Stats, `src/tracker.cpp`, `src/stats.cpp` | one Redis connection each, shared by all threads | QueryTask, GetStats | an answer belongs to its question |
| Gateway, `src/gateway.cpp`, `src/gateway/http_handler.cpp` | an acceptor and a detached thread per connection | submit, status, workers, health | one order, one task, up to faults; true answers; every call ends |
| CircuitBreakerManager; config_loader, logger; proto | - | - | not used; text input and output; generated |

How they interact.  The gateway calls SubmitTask of the scheduler, which takes
an id from Snowflake, saves the record and pushes the id to the list of its
priority.  The dispatcher thread pops from the three lists, asks the load
balancer for a worker, and writes status and worker to the record and the
worker's counter; without a worker it pushes the task back to the tail.  Main
reads the registered workers from etcd each second and gives the list to the
load balancer; `workerCheckLoop` marks those dead that main has not seen for 15
seconds.  Workers and the scheduler register with a lease and refresh it.
Threads share the load balancer (one mutex), Snowflake (one mutex), the pool
(one mutex) and Redis (each has a connection of its own).

What is hard: every operation on Redis is a sequence of commands that other
threads, crashes and failed connections interleave; decisions are taken on
copies (`workerCheckLoop`, main); results reach breakers late; the clock may be
set back; nothing is recovered at start.  `PROJECT.json` lists the hazards with
their lines and the properties that would catch them.

Some things stand out and shape the models:

* `completeTask`, `failTask`, `retryTask` and the workers' `ExecuteTask` are
  never called.  A task that has been handed over stays running
  (`TaskDispatcher_finished`).  So the breakers of the load balancer receive no
  results in the program as it stands; `LoadBalancer`, `TaskResults` and
  `Worker` model these calls as any caller may make them.
* `src/scheduler.cpp:262` parses the whole of `redis_addr` as a port, which
  throws for the configured `localhost:6379`.  The models start after that line.
* `EtcdClient::getPrefix` sends the prefix as its own range end.  etcd is not
  part of the repository; the models take from it what the callers expect: the
  requests put, read and delete a key, a lease that runs out takes its key with
  it, and a list holds the registered services, completely or in part when
  requests fail.
* `connected_` is set by `connect` and never reset, so that a connection that
  has failed stays in the pool, is handed out again and does nothing: after a
  restart of Redis the old places of the pool stay useless.

## 2. Modules

| Module | What it is |
|---|---|
| `TaskLifecycle` | abstract: a record is created once, starts once, is given to one worker once |
| `TaskDispatcher` | submission, dispatching, refresh, shutdown, crash, restart, failed connections; implements `TaskLifecycle` |
| `TaskDispatcherProofs` | its inductive invariants, safety and refinement |
| `Gateway`, `GatewayProofs` | the gateway and clients that insist, in front of `TaskDispatcher`, which it extends |
| `LoadBalancer`, `LoadBalancerProofs` | the load balancer and the threads that share it, with a `Breaker` per worker |
| `TaskResults`, `TaskResultsProofs` | completion, failure and retry of tasks that were handed over, concurrently |
| `ServiceRegistry` | one service id in etcd and the processes that register under it: leases, refresh thread, shutdown |
| `Worker`, `WorkerProofs` | the life of a worker process, around `ServiceRegistry`, which it extends; the proofs about both |
| `RedisPool`, `RedisPoolProofs` | the pool of the scheduler and the one connection of tracker and stats: commands and replies |
| `Breaker` | the calls of one circuit breaker, operators on a record |
| `CircuitBreaker`, `CircuitBreakerProofs` | one breaker under concurrent requests |
| `Snowflake`, `SnowflakeProofs` | the id generator, clock and restarts |
| `MC...` | sets and symmetries of the instances TLC checks |

### TaskDispatcher

One action is one Redis command, or one locked call of the load balancer.

| Action | Code |
|---|---|
| `SubmitSave`, `SubmitPush`, `SubmitRefused` | HMSET and RPUSH of `submitTask`; a dead connection |
| `LoopTop` | the test of `g_running` and `popNextTask` taking a connection |
| `Lpop(c)` | one of the three LPOPs of `popFromPriorityQueue` |
| `Select` | `selectWorker`; any worker that is known and not dead |
| `Requeue` | `getTask` and RPUSH when there is no worker |
| `AssignStatus`, `AssignWorker`, `IncrLoad`, `ReadLoad`, `CacheLoad` | `assignTaskToWorker` |
| `UpdateWorkers`, `MarkWorkerDead` | the other threads of the scheduler |
| `Signal`, `Shutdown`, `Start` | SIGTERM, the joins in `main`, a new process |
| `Crash` | the process dies; Redis keeps what it has |
| `BreakSave`, `BreakPush`, `BreakLpop`, `BreakLoop` | a connection fails, before or after the command was executed |

A connection that has failed stays in the pool, because `connected_` is not
reset: `pool` becomes `{"live", "dead"}` and later users may get either.  On a
dead connection commands do nothing and, on the dispatch path, nobody looks.
The breakers are left to `LoadBalancer`: as no result is recorded, they are
closed and every active worker is selectable.  Fields of the record that decide
nothing (`type`, `data`, times) are left out; a task's id is the task.

### Gateway

`net[k]` is a connection: its request, where its thread is (`pc`), and the
response.  A place in `net` is used again when the connection is closed.

| Action | Code |
|---|---|
| `Insist`, `Visit`, `HangUp` | clients: an order that is posted until it is answered 200 and then asked for; any other request; the peer goes away |
| `Read` | `handleConnection` up to the route; an exception closes the connection without a response |
| `Submitting`, `SubmitReplies` | SubmitTask of the scheduler begins with the steps `SubmitSave`, `BreakSave` or `SubmitRefused` of `TaskDispatcher`, ends in 200 or 500 |
| `StatusReplies`, `WorkersReplies` | GetTaskStatus, GetWorkers; `getTask` finds every id |
| `NoNextId` | `nextId` throws because the clock is behind its last id: the call ends with an error, 503 |
| `CallFails`, `ChannelBreaks` | the scheduler is away or died during the call, or the channel to it broke with both up: 503, no retry |
| `Write` | the response reaches the client, who learns an id or a status from it |
| `GatewayExit`, `GatewayStart` | the detached threads die with the process; a call the scheduler has begun is completed there |
| `SchedulerStep`, `SchedulerCrash` | the other steps of `TaskDispatcher` |

`cut` are the calls that were open when the scheduler died, or whose channel
broke: they fail, also if it is up again before the gateway notices.  A call that was not yet begun when
it stops in order is answered by the next process or fails.  `Open` takes the
next free connection, for they are alike, and a client makes one request at a
time; a connection whose client has gone may still hold a call.

### TaskResults

A thread that reports, or the dispatcher thread, is in one call at a time;
`call[th]` is the function, `pc[th]` its next Redis command, and `task`,
`worker`, `seen` and `retry` are its local variables.

| Action | Code |
|---|---|
| `Pop`, `SetRunning`, `SetOwner`, `IncrementLoad` | the dispatcher: the pop and `assignTaskToWorker` |
| `ReportOnce`, `ReportAgain` | a call of `completeTask`, `failTask` or `retryTask` begins, with its first command (`Enter`): HGET of the worker, or the test of the retry limit |
| `FindOwner`, `Finish` | HGET of the worker; `updateTaskStatus`, whatever the status is |
| `ReadLoad`, `Decrement` | the GET and the INCRBY of `decrementWorkerLoad`; without the key, `stoll` throws and the call is over |
| `ReadCount`, `WriteCount`, `PushAgain` | the HGET and the HSET of `incrementTaskRetry`; the push |

The three functions look neither at the status of the task nor at who else is
at work on it, and the program has no caller that would.  So any thread may call
any of them at any time, for a task that is queued, being handed over, running
or ended, several for one task at once: failing and then retrying one, two
retries of one hand-over, a completion of what was never assigned.  Only the
number of such reports is bounded.  `out` counts the hand-overs that nobody has
reported yet, `extra` the reports that are not the first for a hand-over; both
are kept for the properties, as are `runs` and `hosts`, the workers a task was
assigned to.  Who is told by `retryTask` that the limit is reached goes on to
fail the task.  With repeated reports the model has what the code does then: a
counter below zero, a missing key, a lost count, a final status turned back to
running.  The properties say what is left: `LoadExact` and `AttemptsBounded` for
workers and tasks that are not concerned, `EveryTaskEnds` for all.
`updateWorkerLoad`, `recordSuccess` and `recordFailure`, which the calls make at
the end, are operations of `LoadBalancer`, where they come at any time.

### ServiceRegistry

`m[p]` is where the main thread of a process is (register, run, list, stop,
delete), `r[p]` where its refresh thread is; `running_`, the mutex and the stored
name are functions of the two.  Each request to etcd is an action with an answer:
executed and answered, executed without an answer, or not executed; a put may
also be given up by its process and be executed later (`late`, `PutLate`), after
the delete as well.  A delete or a revoke executed late is taken as not
executed: it was not confirmed either way.  A tick is
the refresh interval of 5 seconds, so that a sleep spans exactly one tick and a
lease of 10 seconds ends after two, at any moment before the third (`Expire`).
Requests may last any number of ticks, which includes those that curl ends after
5 seconds.  A process is started once; a restart is another process with the
same id.  `scripts/start_all.sh` starts the workers with ids 1, 2 and 3, but
`src/worker.cpp:210` replaces the id by the configured one, so that several
processes with one id at a time are the normal case.

### Worker

Registration is that of `ServiceRegistry`; `Worker` adds the signal
(`g_running`), the heartbeat thread `hb`, the server and the calls in progress.
`StartHeartbeat` starts the thread, `BuildAndStart` the server, which may come
to nothing (`"null"`: `worker.cpp:255` returns no server if the port cannot be
had, nobody looks, and the worker stays registered). `Leave` is the end of the
loop of `main` with the call of shutdown, `CloseServer` and `Exit` what follows
the join of the heartbeat thread: `server->Shutdown()` waits for the calls in
progress, and without a server the process ends there. A signal may come at any
time, also while the worker registers. Other processes with the same id, which
`ServiceRegistry` models, come and go at the same time. What `ExecuteTask`
returns, and the heartbeat key that nobody reads, are left out.

### RedisPool

`pool[i]` is a place: `used` is `in_use_`, `err` the error of the hiredis
context, `replies` the replies on their way, named by the thread that asked.
`Send` and `Receive` are the halves of `redisCommand`, so that a connection can
fail in the middle of a call, and a thread that shares a connection can read the
reply to the question of another.  `Throw` is `stoll` of an empty reply in
`decrementWorkerLoad`, which leaves the function without `returnConnection`; the
reply is empty on a failed connection, and on a live one if the key is missing.
The `Direct` threads are those of the tracker or of stats, which use one
connection without a lock; when two use it at once its stream may be spoilt
(`Garble`).  An `Outage` of Redis is a failure of every connection.

### LoadBalancer

`nodes` holds status, cached load, the age of `last_heartbeat` and the breaker
of each known worker.  `Consulted` is what a selection leaves behind: all three
strategies call `allowRequest` for every active worker, so all open breakers
whose timeout has passed become half-open, whichever worker is chosen.  `Fetch`
and `UpdateWorkers` are main, `Check` and `MarkWorkerDead` are the copy and the
calls of `workerCheckLoop`.  Ages and timeouts are counted up to the bound that
the code compares them with.  `turns`, `roster`, `bad` and `quiet` are history.
The answer of `selectWorker` is a parameter of its action.
Results are counted only for workers the load balancer knows, for it ignores
the others.

### Breaker and CircuitBreaker

`elapsed` is the time since the last failure, up to the timeout; `failures` is
counted up to the threshold.  `CircuitBreaker` adds the requests in flight:
each was admitted once and reports once, at any later time.

### Snowflake

Reading the clock and computing the id are one step under the mutex; waiting
for the next millisecond is a state (`"spin"`) in which nobody else gets in.
`StepBack` sets the clock back, `Restart` forgets the generator's memory.

## 3. Runs

| Run | Shows |
|---|---|
| `TaskDispatcher_safety` | `TypeOK`; `LoadAccounting`: counters follow the records up to one per fault; `ImplementsLifecycle`; `AtOnePlace`: no task in two places; `BoundedLoss`: a crash loses one accepted task at most, shutdown and re-queueing none; `PopsHighestFirst` |
| `Gateway_requests` | `GTypeOK`; `OneTaskPerOrder`: a client that posts again has no more tasks than one and one per fault, orderly restarts and refused ids add none; `ToldTheTruth`; `EveryOrderRuns`, from the client to the worker and back; `CallsEnd`; `EventuallyDispatched` of the scheduler, with tasks of high and of medium priority |
| `TaskResults_reports` | `TypeOK`; `LoadExact`: no decrement is lost between GET and INCRBY, and what is reported twice disturbs only the workers it concerns; `AttemptsBounded`; `EveryTaskEnds`, whatever is reported twice |
| `Worker_life` | `WTypeOK`; `DeadIsDelisted`: within one lease; `NothingLeftBehind` after an orderly end; `HealthyIsListed` while requests are answered in time; `ListedServes`, from the start of the server to the delete; `WorkerStops` |
| `RedisPool_users` | `TypeOK`; `OneUser` with the places that are lost; `OwnReply`; `PoolBounded` |
| `LoadBalancer_workers` | `RoundRobinFair`, with an index left behind by other sets of workers; `LeaversAreForgotten`; `StalledRefreshStopsDispatch` |
| `LoadBalancer_results` | `TypeOK`; `FailingWorkerIsShed`, for both other strategies |
| `CircuitBreaker_results` | `TypeOK`; `FaultDetection`: a closed breaker has counted the failures in a row, fewer than the threshold; `OpensOnlyWithCause`: it does not open sooner; `Recovers` |
| `Snowflake_ids` | `TypeOK`, `StrictlyIncreasing`, `UniqueUnlessSteppedBack`, `EveryCallReturns`, with clock steps and a restart |

Runs that end in a counterexample:

| Run | What happens |
|---|---|
| `TaskDispatcher_finished` | a dispatched task is running for ever |
| `Gateway_notfound` | `GET /task/<id>` of an id nobody was given is answered 200: `getTask` sets the id of the record it does not find |
| `LoadBalancer_marking` | copy, refresh, mark: a worker with a fresh heartbeat becomes dead, and stays so while it is listed |

`HealthyIsListed` is as much as the code promises a living service.  After an
outage longer than the lease `refreshService` finds no entry and puts none, and a
second process with the same id deletes the entry of the first when it stops:
the property supposes that requests are answered within their tick and that
processes with one id follow each other.

`EventuallyDispatched` is no promise against more urgent tasks.  A pop asks the
high list first, each time (`redis_client.cpp:431-439`), nothing raises the
priority of a task that waits, and a steady stream of urgent tasks starves the
others.  The property speaks of a task before which, from some time on, nothing
more urgent is queued: then re-queueing to the tail, tasks of equal or lower
priority and workers that come and go do not keep it from a worker.

`OneTaskPerOrder` says what repeated submissions cost.  A lost reply of RPUSH is
reported as a failure although the task is in its list, a crash, an exit of the
gateway, orderly or not, or a broken channel loses the answer of an executed
submission: after each, the client posts again.  `UniqueUnlessSteppedBack` excludes the case in which the clock is
set back across a restart; ids can then repeat, and the code does not say
otherwise.  `OwnReply` claims nothing for a shared connection after two calls
have overlapped.

`FailingWorkerIsShed` counts the failures since the worker was last added.  A
failed read of etcd is a shorter list for `updateWorkers`, which erases the
missing workers with their breakers, and the next refresh adds them with new
ones: what a worker failed before such a read is forgotten, by the code and by
the property.

### Bounds

* Tasks and workers: two tasks and two workers, so that two tasks can meet on
  one worker or on two, and one is held while another is queued with a higher,
  a lower or the same priority.
* `Priorities` is `{0, 1, 2}`; the code sends every other number to `queue:low`.
* `MaxCrashes` 2 and `MaxBreaks` 1: a second crash can hit what a first one,
  or a dead connection, has left behind.  `BoundedLoss` compares with the number
  of crashes, so that one crash alone would not show a loss of two.
* `Gateway`: one client, two connections, so that a client who has hung up has a
  call open while its next request runs; three tasks and one of a crash,
  a failed connection, an exit of the gateway, a client that hangs up, a broken
  channel and a refused id (`MaxFaults`), so that more than the two tasks one
  fault explains could be made.  One worker, and the priorities high and medium,
  so that a task waits behind a more urgent one, or is overtaken by it.
* `TaskResults`: two threads that report, two tasks and two workers, so that the
  reports of one task, or of two on one worker, meet; the limit is one retry
  instead of the three of the code, which makes each of its tests and counts
  happen and keeps the instance small (the theorems are about every limit); one
  report too many for one task and none for the other (`MaxExtra`), so that the
  properties about what is reported once are not vacuous.  A counter below zero,
  a missing key and two retries of one task at once are all reached.
* `Worker`: a worker with all its threads, and another process with the same id
  that also lists services; a lease of two ticks as in the code (10 and 5
  seconds), one call of `ExecuteTask` in progress: a count is either zero or
  not.  The worker's puts may be executed late, one at a time (`Tardy`); those of
  the other process are not.  Nothing else is bounded.
* `RedisPool`: three users of a pool that opens up to two connections, so that it
  has to grow; two threads on a shared connection; two failures, of connections
  or of Redis, so that a connection fails, is handed on and another fails; one missing key on a
  live connection (`MaxMissing`).
  Connections are opened without a bound: `PoolBounded` says that the instance
  is finite.
* `LoadBalancer`: three workers for round robin, `IndexPeriod` 6, a common
  multiple of 1, 2 and 3, so that the index modulo any number of workers is
  that of the code; two workers and `IndexPeriod` 2 elsewhere.  Thresholds of 2 failures and timeouts of 1
  or 2 ticks distinguish "less than", "equal" and "more".  One failing read,
  one leave and one `removeWorker`: each can fall between any two other steps.
* `CircuitBreaker`: thresholds 3 and 2 (successes), four requests, so that one
  more result is outstanding than the threshold needs.
* `Snowflake`: two sequence numbers per millisecond instead of 4096, so that
  they run out; four ids, two steps back, one restart.

The configurations of `Snowflake` set `CHECK_DEADLOCK FALSE` because the
instance stops when its ids are used up, that of `TaskResults` because it stops
when every task has ended.  The other runs check for deadlock.

### Fairness

* `Gateway` and the `TaskDispatcher` in it: weak fairness of the dispatcher's steps (its thread is
  scheduled, every Redis call returns) and of `SubmitPush` (a handler that has
  saved a record goes on), and of the thread of each connection, which can go on
  unless it waits for its call, and the call ends.  A client that insists makes
  its next request in spite of other connections (strong fairness).  None for
  signals, faults, restarts or the other threads.  `EventuallyDispatched` and
  `EveryOrderRuns` suppose in their own formulas that the processes stay up and
  that some worker is selectable from some time on.
* `TaskResults`: the dispatcher thread and the calls go on, and every hand-over
  is reported, by any of the calls.  None for repeated reports.
* `Worker`: time passes, requests end (curl has a timeout), the threads of the
  registry, the heartbeat thread and `main` run, and a call of `ExecuteTask`
  ends (the simulation sleeps for a bounded time).  None for starts, signals and
  the listing, which may keep the mutex busy.
* `LoadBalancer`: weak fairness of the checker, a loop that sleeps and works,
  and of time.  None for main, which may hang in a request; the properties say
  what they need of it.
* `CircuitBreaker`: time passes, requests are made again and an admitted one is
  reported.  An operator's `reset` is not fair.
* `Snowflake`: time passes, and a thread that can go on does.

## 4. Proofs

`tlapm` checks each theorem for all values of the constants that satisfy the
named assumptions of the modules (`NamesAssumption`, `FaultsAssumption`,
`BreakerAssumption`, `BalancerAssumption`, `IdAssumption`, `RegistryAssumption`,
`WorkerAssumption`, `ResultsAssumption`, `PoolAssumption`, `ClientsAssumption`,
`AltogetherAssumption`).  They give constants their types and keep names apart;
those that say more are

* `BalancerAssumption`: there are finitely many workers (`workers_` is a map);
  hash values are numbers; and `IndexPeriod`, modulo which the index of round
  robin is kept, is a common multiple of all numbers of workers, so that it can
  stand for the unbounded index of the code;
* `StaysListed` supposes a lease of more than one tick: the 10 seconds of the
  code against its interval of 5.  With one tick, an entry may run out before
  the refresh;
* `OffersAllActive` supposes that nobody reports failures, as is the case.

| Theorem | Statement |
|---|---|
| `TaskDispatcherProofs!TypeCorrect` | `Spec => []TypeOK` |
| `TaskDispatcherProofs!OnePlace` | `Spec => []AtOnePlace` |
| `TaskDispatcherProofs!RefinesLifecycle` | `Spec => ImplementsLifecycle` |
| `TaskDispatcherProofs!TakesMostUrgent` | `Spec => []PopsHighestFirst` |
| `TaskDispatcherProofs!LosesAtMostOnePerCrash` | `Spec => []BoundedLoss` |
| `TaskDispatcherProofs!CountsHandedOver` | `Spec => []LoadAccounting` |
| `GatewayProofs!GatewayUsesScheduler` | `GSpec => Spec` |
| `GatewayProofs!SafetyBehindGateway` | the four safety properties above, of `GSpec` |
| `GatewayProofs!GatewayTyped` | `GSpec => []GTypeOK` |
| `GatewayProofs!AnswersAreTrue` | `GSpec => []ToldTheTruth` |
| `GatewayProofs!OneTaskUnlessFaults` | `GSpec => []OneTaskPerOrder` |
| `TaskResultsProofs!ReportsTyped` | `Spec => []TypeOK` |
| `TaskResultsProofs!CountsLoadsExactly` | `Spec => []LoadExact` |
| `TaskResultsProofs!LimitsAttempts` | `Spec => []AttemptsBounded` |
| `LoadBalancerProofs!BalancerTyped` | `Spec => []TypeOK` |
| `LoadBalancerProofs!ServesInTurn` | `Spec => []RoundRobinFair` |
| `LoadBalancerProofs!ShedsTheFailing` | `Spec => []FailingWorkerIsShed` |
| `LoadBalancerProofs!EveryStrategyAnswers` | the choices of each strategy are eligible workers, and there is one if there is an eligible worker |
| `LoadBalancerProofs!OffersAllActive` | without reported failures `Spec => [](Eligible = Active)` |
| `WorkerProofs!RegistryTyped` | `Spec => []TypeOK` |
| `WorkerProofs!DelistsTheDead` | `Spec => []DeadIsDelisted` |
| `WorkerProofs!CleansUp` | `Spec => []NothingLeftBehind` |
| `WorkerProofs!StaysListed` | `Spec => []HealthyIsListed` |
| `WorkerProofs!WorkerUsesRegistry` | `WSpec => Spec` |
| `WorkerProofs!WorkersStayListed` | `WSpec => []HealthyIsListed` |
| `WorkerProofs!WorkerTyped` | `WSpec => []WTypeOK` |
| `WorkerProofs!ListedWorkersServe` | `WSpec => []ListedServes` |
| `RedisPoolProofs!PoolTyped` | `Spec => []TypeOK` |
| `RedisPoolProofs!ConnectionHasOneUser` | `Spec => []OneUser` |
| `RedisPoolProofs!RepliesReachTheirCaller` | `Spec => []OwnReply` |
| `RedisPoolProofs!PoolStaysSmall` | `Spec => []PoolBounded` |
| `CircuitBreakerProofs!BreakerTyped` | `Spec => []TypeOK` |
| `CircuitBreakerProofs!DetectsFaults` | `Spec => []FaultDetection` |
| `CircuitBreakerProofs!OpensWithCause` | `Spec => OpensOnlyWithCause` |
| `SnowflakeProofs!GeneratorTyped` | `Spec => []TypeOK` |
| `SnowflakeProofs!IdsIncrease` | `Spec => []StrictlyIncreasing` |
| `SnowflakeProofs!IdsUniqueUnlessSteppedBack` | `Spec => []UniqueUnlessSteppedBack` |

### TaskDispatcher

The argument for `OnePlace`.  `AtOnePlace` is not inductive by itself: that a
submission pushes a task which is in no list, and that a task is marked running
before it is given a worker, depends on where its submission and the dispatcher
are.  `Places` adds these facts, `IInv` is the typing with `Places`.  Lemmas
say what appending to one list and taking the head of one do to the absence of
duplicates; the crash and reply-lost actions are cases of their own.
`RefinesLifecycle` then needs `IInv` at the two steps that change a record:
`AssignStatus` starts a pending task, `AssignWorker` gives a running task
without owner its worker, and `SubmitSave` creates one that is absent.

`TakesMostUrgent`: the property speaks of the moment a task is held, the danger
is in the three LPOPs before it.  `Ordered` carries that a list holds only tasks
whose record has its priority, and that, while the lists are asked, the tasks
that were queued at the start are still queued and none of them is in a list
that was found empty: others may be pushed behind the pop's back, but the
dispatcher is the only one that pops.

`LosesAtMostOnePerCrash`: `BoundedLoss` counts lost tasks, and a crash adds one
only because the dispatcher holds one at most and `OnePlace` keeps that one out
of the lists.  `LossBounded` adds that the set of lost tasks is finite (the set
of tasks is not assumed to be), that without a failed connection every
connection is live, and that a stopped process holds nothing.
`CountsHandedOver` is the like for the counters: `LoadBounded` says that the
tasks naming a worker are finitely many, and counts the one the dispatcher has
named but not yet counted.

### Gateway

Every step is a step of the scheduler or leaves its variables alone: the
theorems above hold behind the gateway (`SafetyBehindGateway`,
`LifecycleBehindGateway`).  `AnswersAreTrue` needs what the text on its way rests
on.  `Recorded` says that an accepted task has a record
and that the pool has no dead connection before one has failed; `Sound` and
`Honest` say that a response and an order speak of tasks with records, and call
running only what runs, which a later step does not undo.  `OneRequest` says that
a client has one request it has not left, and asks for a task only while it has
no id: a second id would otherwise inherit the status of the first.

`OneTaskUnlessFaults` is an account.  For each client, the tasks that were made
for it and its submissions that may still make one (`Made`, `Pending`) are no
more than the faults so far, and one (`Charge`) if the client has its
confirmation or is on the way to it (`Within`).  A client that has to post again
is not charged, so that it has room for one task more: either its submission
ended without a task, or a fault that is counted has lost the answer.
`LeftAndCut` says that only submissions without an id are left behind by their
client, and that only open calls are cut by a crash of the scheduler.  Each
action does one of four things to the account, and there is a lemma for each
(`WithinStays`, `WithinSpends`, `WithinMoves`, `WithinOpens`).
`NextConn` answers `None` when no place is free, so that
`ClientsAssumption` keeps it out of the connections.

### TaskResults

Of a task that has been reported more than once for a hand-over next to nothing
is known, so the invariant `Orderly` asks little of it (`Recorded`: its worker is
one it was assigned to) and the rest only of the others.  `Single` says that such
a task is in one place, in the lists, handed over or with one thread; `Attempts`
that its hand-overs are its retries plus the current run, and that a retry is
under way only if one was left; `Owner` that who reports it works on the worker
that has it.  An action changes the fields of one task and the local variables
of one thread (`Frame`); `OtherTasks` and `OtherThreads` deal with all the others
once and for all, and each action has a lemma for its own (`Step`).

For `CountsLoadsExactly`, `Counted` says that the counter of a worker is the
cardinality of the set of tasks that load it, and that this set is finite.  The
set gains or loses one element exactly where INCRBY runs.  `decrementWorkerLoad`
runs it only if it has read a positive counter before; it has (`Positive`), for
the task itself is counted and nobody else takes it off.  Reports of a task that
was never assigned to the worker do not reach its counter, because the thread's
worker is among the task's `hosts`.

### LoadBalancer

For `ShedsTheFailing`, `Streaks` connects each breaker with the history: a closed
one has counted the failures in a row, fewer than its threshold, and one that
probes has waited for its timeout since the last.  Lemmas say for each call of
`Breaker` that it keeps this, whoever makes it in whatever state.

For `ServesInTurn`, that everybody has been picked once or not at all is not
inductive: it matters who.  `Turn` says that the picks of a turn are the last `k`
places before the index on the circle of eligible workers (`Behind`), so that the
next pick falls on one who was not picked, or completes the turn.  `NthFacts`
shows that `Nth` picks the worker at its place: the ranks in a finite set of
numbers are a bijection with `0 .. n - 1`.  Only `BalancerAssumption` makes the
index modulo `IndexPeriod` that of the code.

`EveryStrategyAnswers` shows that no strategy comes back empty-handed from a
list that is not empty, and `OffersAllActive` that without reported failures the
list is all of the active workers.  This is how `TaskDispatcher` models
`selectWorker`, which it does not compose with `LoadBalancer`.

### ServiceRegistry and Worker

For the registry, `Late` says that a put is late only after a request without an
answer, and whose it is; `Threads` that a refresh thread is at work only while
main runs, lists or waits for it, `Owner` that the owner of an entry is still
going to delete it unless it crashed or its delete or revoke was not confirmed,
and `Ageing` that the rest of the entry's lease, or of a late put's, and the time without processes
add up to no more than one lease.  Both properties are weaker than these: that
an entry is not too old says nothing of the next put, which `Threads` excludes
when nobody is up.  `StaysListed` needs `HInv`: `EndsAfterStop` says
that the refresh thread does not end before main is told to stop, `Alone` that
one process is up at a time, and `Fresh` that the entry is one tick old at most,
and not even that while the refresh thread sleeps.

For the worker, every step is a step of the registry or leaves its variables
alone, so that the theorems about the registry carry over.  `Closing` adds that
a server closes only in a process whose `main` has returned from shutdown; with
`CleansUp`, an entry that is left is not its own.

### RedisPool, CircuitBreaker, Snowflake

For the pool, `Replies` says that a connection in use holds the reply its user
waits for or none, and a free one none, and `Alone` the same of the shared
connection while no calls have overlapped.  `Count` carries that the holders are
finitely many, without which cardinalities mean nothing: the set of threads is
not assumed finite.  When every place is in use, `Count` gives as many holders
and lost places as connections, so that opening one more raises the peak.

`DetectsFaults` carries the typing and that a closed breaker counts as the
history does; `OpensWithCause` follows from it step by step: the count that trips
a closed breaker is that of the failures in a row.  `IdsIncrease` carries that the last id issued is the id of the
generator's last timestamp with a sequence number not above its own, unless a
thread waits for the next millisecond, in which case the next id has a later
timestamp.  `IdsUniqueUnlessSteppedBack` needs more than an order of the ids of
one process: `Ahead` says that, while the clock was not set back, what earlier
processes issued is below all that the clock's millisecond can give and below
what this process has issued, which is itself not ahead of the clock.

### What stays with TLC

Every invariant of the runs is a theorem, and so are the action property
`OpensOnlyWithCause` and the refinement of `TaskLifecycle`.  Only
model-checked are the liveness properties `EventuallyDispatched`, `EveryOrderRuns`,
`CallsEnd`, `EveryTaskEnds`, `WorkerStops`, `LeaversAreForgotten`,
`StalledRefreshStopsDispatch`, `Recovers` and `EveryCallReturns`: liveness under
fairness and ENABLED are out of the prover's reach.  Induction over data and
RECURSIVE operators are out of reach too; the modules use neither (that a finite
set of loads or hash values has a least element, `HasLeast`, comes from the
ranks).

## 5. Not modelled

* Configuration: `getPath` (`include/common/config_loader.h:37`) walks down by
  `node = node[part]`, which in yaml-cpp redirects the node that shares its
  content with `config_`.  The first key read from a file is found, later reads
  start from where that one ended and get their defaults.  It is one thread's
  sequence of reads at the start; the constants of the models stand for whatever
  values result.  `worker.cpp:210` replaces the `--id` of the command line by the
  configured one, so that the workers of `scripts/start_all.sh` share an id.
* The texts of requests: HTTP and JSON parsing and the keys of etcd.  The
  conversions of `etcd_client.cpp` (`encodeValue` writes two hexadecimal digits
  after `\u`, `decodeValue` reads four) and the range of `getPrefix` are named
  as a hazard; the models take the registry as a set that reads return.
* The gateway's exit drops the requests in flight, which `GatewayExit` counts as
  a fault, although README.md:25 speaks of an orderly end.
* A host of the scheduler that hangs without closing the channel: the call has no
  deadline, and nothing in the code would end it.  `CallsEnd` is about a scheduler
  that dies, stops, is away or whose channel breaks.
* Requests to etcd that are executed after their process has given them up, but
  for puts.
* Stats: `getServices` from gRPC threads while the registry is shut down, and the
  numbers `GetStats` adds up, in which a failed LLEN counts as an empty list.
* Commands and calls without a caller: `lpush`, `rpop`, `lrange`, `hdel`,
  `hexists`, `expire`, `ttl`, `set`, `del`, `exists`, `keepAlive`, `getService`,
  `CircuitBreakerManager`, `attemptReset`, and `getWorker`, which returns a
  pointer into the map after releasing the lock.
* Logging and generated code.

## 6. Plan

1. `encodeValue` and `decodeValue` as operators on sequences, and the range that
   `getPrefix` asks for.
2. `TaskResults` with calls that a crash cuts off, and how far a counter can be
   off for each repeated report.
3. `Selection`: the loops of the three strategies as functions, compared with
   the set definitions `LoadBalancer` uses; consistent hashing moves only the
   tasks of a worker that leaves.
4. `TaskDispatcher` and `LoadBalancer` composed, the selection with breakers in
   place of "some active worker".
5. Proofs: the steps of `LoadBalancer`, seen through cached loads and dead
   workers, as steps of the balancer in `TaskDispatcher`; one breaker of
   `LoadBalancer` as an implementation of `CircuitBreaker`; consistent hashing
   keeps the choice for a task when another worker leaves.
