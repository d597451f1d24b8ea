SPECIFICATION Spec
CONSTANTS
    Worker <- TwoWorkers
    Task <- OneTask
    None = None
    Strategies <- ByLoadOrHash
    HashOf <- Circle
    DeadAfter = 0
    Reports <- BothResults
    MaxLoad = 1
    IndexPeriod = 2
    MaxOutages = 1
    MaxLeaves = 0
    MaxRemovals = 1
    FailureThreshold = 2
    RecoveryTimeout = 2
    SuccessThreshold = 1
INVARIANTS
    TypeOK
    FailingWorkerIsShed
