SPECIFICATION FairSpec
CONSTANTS
    Worker <- ThreeWorkers
    Task <- OneTask
    None = None
    Strategies <- Turns
    HashOf <- Circle
    DeadAfter = 0
    Reports <- Nothing
    MaxLoad = 0
    IndexPeriod = 6
    MaxOutages = 1
    MaxLeaves = 1
    MaxRemovals = 0
    FailureThreshold = 1
    RecoveryTimeout = 1
    SuccessThreshold = 1
INVARIANTS
    RoundRobinFair
PROPERTIES
    LeaversAreForgotten
    StalledRefreshStopsDispatch
