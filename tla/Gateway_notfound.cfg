SPECIFICATION GSpec
CONSTANTS
    t1 = t1
    t2 = t2
    t3 = t3
    w1 = w1
    c1 = c1
    k1 = k1
    k2 = k2
    None = None
    NoKey = NoKey
    NoSuch = NoSuch
    Task <- TwoTasks
    Worker <- OneWorker
    Client <- OneClient
    Conn <- OneConn
    Priorities <- OnePriority
    MaxCrashes = 0
    MaxBreaks = 0
    MaxFaults = 0
INVARIANTS
    UnknownIsNotFound
