SPECIFICATION FairSpec
CONSTANTS
    t1 = t1
    t2 = t2
    w1 = w1
    w2 = w2
    Task <- TwoTasks
    Worker <- OneWorker
    None = None
    NoKey = NoKey
    Priorities <- TwoPriorities
    MaxCrashes = 0
    MaxBreaks = 0
PROPERTIES
    EventuallyFinished
