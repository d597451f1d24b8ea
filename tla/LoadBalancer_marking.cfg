SPECIFICATION FairSpec
CONSTANTS
    Worker <- TwoWorkers
    Task <- OneTask
    None = None
    Strategies <- ByLoad
    HashOf <- Circle
    DeadAfter = 1
    Reports <- Nothing
    MaxLoad = 0
    IndexPeriod = 2
    MaxOutages = 0
    MaxLeaves = 0
    MaxRemovals = 0
    FailureThreshold = 1
    RecoveryTimeout = 1
    SuccessThreshold = 1
PROPERTIES
    MarkedOnlyIfStale
