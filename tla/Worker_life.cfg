SPECIFICATION WFairSpec
CONSTANTS
    p1 = p1
    p2 = p2
    NoOne = NoOne
    Process <- TwoProcesses
    Lister <- OneLister
    Worker <- OneWorker
    Tardy <- OneWorker
    Ttl = 2
    MaxExec = 1
INVARIANTS
    WTypeOK
    ListedServes
    DeadIsDelisted
    NothingLeftBehind
    HealthyIsListed
PROPERTIES
    WorkerStops
