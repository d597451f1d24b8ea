SPECIFICATION GFairSpec
CONSTANTS
    t1 = t1
    t2 = t2
    t3 = t3
    w1 = w1
    c1 = c1
    k1 = k1
    k2 = k2
    None = None
    NoKey = NoKey
    NoSuch = NoSuch
    Task <- ThreeTasks
    Worker <- OneWorker
    Client <- OneClient
    Conn <- TwoConns
    Priorities <- HighAndMedium
    MaxCrashes = 1
    MaxBreaks = 1
    MaxFaults = 1
INVARIANTS
    GTypeOK
    OneTaskPerOrder
    ToldTheTruth
PROPERTIES
    EveryOrderRuns
    CallsEnd
    EventuallyDispatched
