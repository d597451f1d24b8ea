SPECIFICATION Spec
CONSTANTS
    t1 = t1
    t2 = t2
    w1 = w1
    w2 = w2
    None = None
    NoKey = NoKey
    Task <- TwoTasks
    Worker <- TwoWorkers
    Priorities <- AllPriorities
    MaxCrashes = 2
    MaxBreaks = 1
SYMMETRY Symmetry
INVARIANTS
    TypeOK
    LoadAccounting
    AtOnePlace
    BoundedLoss
    PopsHighestFirst
PROPERTIES
    ImplementsLifecycle
