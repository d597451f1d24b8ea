SPECIFICATION FairSpec
CONSTANTS
    t1 = t1
    t2 = t2
    w1 = w1
    w2 = w2
    c1 = c1
    c2 = c2
    Dispatcher = Dispatcher
    None = None
    Task <- TwoTasks
    Worker <- TwoWorkers
    Caller <- TwoCallers
    RetryLimit = 1
    MaxExtra <- OneTwice
INVARIANTS
    TypeOK
    LoadExact
    AttemptsBounded
PROPERTIES
    EveryTaskEnds
CHECK_DEADLOCK FALSE
