------------------------------- MODULE Worker -------------------------------
(***************************************************************************)
(* The life of a worker process (worker.cpp) around its registration: main *)
(* registers it, starts the heartbeat thread and then the gRPC server, if  *)
(* it can; on a signal it deregisters, joins the heartbeat thread and shuts*)
(* the server down.  Registration and the registry's own thread are those  *)
(* of module ServiceRegistry.  Other processes may use the id of the worker*)
(* at the same time; of them only the registration is modelled.            *)
(***************************************************************************)
EXTENDS ServiceRegistry

CONSTANTS
    Worker,     \* the processes that are looked at as workers
    MaxExec     \* bound: calls of ExecuteTask in progress at a worker

\* Workers register and do not list.
ASSUME WorkerAssumption == Worker \subseteq Process \ Lister /\ MaxExec \in Nat

VARIABLES
    g_running,  \* workers that have not received a signal
    hb,         \* where the heartbeat thread of each worker is
    server,     \* its gRPC server: "none", "up", "closing", "closed", or "null"
                \* when it could not be started
    exec        \* its calls of ExecuteTask in progress: current_load_

workerVars == <<g_running, hb, server, exec>>
wvars == <<vars, workerVars>>

WInit ==
    /\ Init
    /\ g_running = Worker
    /\ hb = [p \in Worker |-> "none"]
    /\ server = [p \in Worker |-> "none"]
    /\ exec = [p \in Worker |-> 0]

-----------------------------------------------------------------------------
(* main.                                                                   *)

Signal(p) ==
    /\ p \in Alive \cap g_running
    /\ g_running' = g_running \ {p}
    /\ UNCHANGED <<vars, hb, server, exec>>

\* registerWithScheduler has returned, with or without success: the heartbeat
\* thread, which begins with a sleep.
StartHeartbeat(p) ==
    /\ m[p] = "run" /\ hb[p] = "none"
    /\ hb' = [hb EXCEPT ![p] = "sleep"]
    /\ UNCHANGED <<vars, g_running, server, exec>>

\* Wrong variant: builds the server before it starts the thread.
BuildAndStartFirst(p) ==
    /\ m[p] = "run" /\ server[p] = "none"
    /\ \E built \in {"up", "null"} : server' = [server EXCEPT ![p] = built]
    /\ UNCHANGED <<vars, g_running, hb, exec>>

\* BuildAndStart returns nullptr when the port cannot be had; nobody looks.
BuildAndStart(p) ==
    /\ m[p] = "run" /\ hb[p] # "none" /\ server[p] = "none"
    /\ \E built \in {"up", "null"} : server' = [server EXCEPT ![p] = built]
    /\ UNCHANGED <<vars, g_running, hb, exec>>

\* The loop of main sees the signal; a worker gets to it with a server or null.
Leave(p) ==
    /\ p \in Worker => p \notin g_running /\ server[p] \in {"up", "null"}
    /\ Stop(p)
    /\ UNCHANGED workerVars

\* Wrong variant: closes the server as soon as it is told to stop.
CloseServerFirst(p) ==
    /\ p \notin g_running
    /\ server[p] = "up"
    /\ server' = [server EXCEPT ![p] = "closing"]
    /\ UNCHANGED <<vars, g_running, hb, exec>>

\* shutdown of the registry has returned and the heartbeat thread is joined;
\* server->Shutdown() of no server is the end of the process as well.
CloseServer(p) ==
    /\ m[p] = "down" /\ p \notin crashed
    /\ hb[p] = "ended"
    /\ \/ server[p] = "up" /\ server' = [server EXCEPT ![p] = "closing"]
       \/ server[p] = "null" /\ server' = [server EXCEPT ![p] = "closed"]
    /\ UNCHANGED <<vars, g_running, hb, exec>>

\* server->Shutdown() returns when no call is left.
Exit(p) ==
    /\ server[p] = "closing" /\ exec[p] = 0
    /\ server' = [server EXCEPT ![p] = "closed"]
    /\ UNCHANGED <<vars, g_running, hb, exec>>

-----------------------------------------------------------------------------
(* The other threads.                                                      *)

\* heartbeatLoop after its sleep; the key it writes is read by nobody.
Beat(p) ==
    /\ hb[p] = "awake"
    /\ hb' = [hb EXCEPT ![p] = IF p \in g_running THEN "sleep" ELSE "ended"]
    /\ UNCHANGED <<vars, g_running, server, exec>>

ExecuteTask(p) ==
    /\ server[p] = "up" /\ exec[p] < MaxExec
    /\ exec' = [exec EXCEPT ![p] = @ + 1]
    /\ UNCHANGED <<vars, g_running, hb, server>>

\* The simulation sleeps for ten seconds at most; an exception is an answer too.
TaskExecuted(p) ==
    /\ exec[p] > 0
    /\ exec' = [exec EXCEPT ![p] = @ - 1]
    /\ UNCHANGED <<vars, g_running, hb, server>>

\* Of both the calls and the threads nothing is left.
Die(p) ==
    /\ Crash(p)
    /\ hb' = [q \in Worker |-> IF q = p THEN "ended" ELSE hb[q]]
    /\ server' = [q \in Worker |-> IF q = p THEN "closed" ELSE server[q]]
    /\ exec' = [q \in Worker |-> IF q = p THEN 0 ELSE exec[q]]
    /\ UNCHANGED g_running

\* The heartbeat sleeps for an interval, as the refresh thread does.
Pass ==
    /\ Tick
    /\ hb' = [p \in Worker |-> IF hb[p] = "sleep" THEN "awake" ELSE hb[p]]
    /\ UNCHANGED <<g_running, server, exec>>

\* The registry's steps of a process that is not at the end of main's loop.
Registry(p) == Start(p) \/ Main(p) \/ ListBegin(p) \/ Refresh(p)

MainGoesOn(p) == StartHeartbeat(p) \/ BuildAndStart(p) \/ CloseServer(p) \/ Exit(p)

Work(p) == MainGoesOn(p) \/ Beat(p) \/ TaskExecuted(p)

WNext ==
    \/ \E p \in Process : Signal(p) \/ Leave(p) \/ Die(p) \/ (Registry(p) /\ UNCHANGED workerVars)
    \/ \E p \in Worker : Work(p) \/ ExecuteTask(p)
    \/ Pass
    \/ (Expire \/ \E p \in Process : PutLate(p)) /\ UNCHANGED workerVars

WSpec == WInit /\ [][WNext]_wvars

\* As in ServiceRegistry; the other threads run too, and main leaves its loop.
WFairness ==
    /\ WF_wvars(Pass)
    /\ \A p \in Process : /\ WF_wvars(Main(p) /\ UNCHANGED workerVars)
                          /\ WF_wvars(Refresh(p) /\ UNCHANGED workerVars)
    /\ \A p \in Worker : /\ WF_wvars(Leave(p))
                         /\ WF_wvars(MainGoesOn(p))
                         /\ WF_wvars(Beat(p)) /\ WF_wvars(TaskExecuted(p))

WFairSpec == WSpec /\ WFairness
-----------------------------------------------------------------------------
(* The registry and the threads of a worker are where their code can be;   *)
(* the heartbeat thread is there before the server is built, and no call   *)
(* is in progress where there never was a server.                          *)
WTypeOK ==
    /\ TypeOK
    /\ g_running \subseteq Worker
    /\ hb \in [Worker -> {"none", "sleep", "awake", "ended"}]
    /\ server \in [Worker -> {"none", "null", "up", "closing", "closed"}]
    /\ exec \in [Worker -> 0..MaxExec]
    /\ \A p \in Worker : /\ server[p] # "none" => hb[p] # "none"
                         /\ server[p] \in {"none", "null"} => exec[p] = 0

(* Once its server has started and until it has deregistered, whoever reads*)
(* a worker's entry finds it serving: worker.cpp:265 calls shutdown of the *)
(* registry before that of the server.  (It registers before it serves,    *)
(* stays registered when its server could not be started, and an entry     *)
(* whose delete etcd did not confirm outlives the server.)                 *)
ListedServes ==
    \A p \in Worker \ (crashed \cup uncleaned) :
        by = p /\ server[p] \notin {"none", "null"} => server[p] = "up"

(* Main waits for the refresh thread, for the mutex, for the heartbeat     *)
(* thread and for the calls in progress, and a worker that receives a      *)
(* signal at any time, also while it registers, or that has no server to   *)
(* shut down, ends all the same.                                           *)
WorkerStops == \A p \in Worker : (p \in Alive \ g_running) ~> (server[p] = "closed")
=============================================================================
