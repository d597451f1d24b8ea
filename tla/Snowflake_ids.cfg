SPECIFICATION FairSpec
CONSTANTS
    c1 = c1
    c2 = c2
    Caller <- TwoCallers
    None = None
    SequenceSize = 2
    WorkerId = 1
    MaxClock = 4
    MaxIds = 4
    MaxStepsBack = 2
    MaxRestarts = 1
INVARIANTS
    TypeOK
    StrictlyIncreasing
    UniqueUnlessSteppedBack
PROPERTIES
    EveryCallReturns
\* The instance stops when MaxIds ids are out and the clock is at its bound.
CHECK_DEADLOCK FALSE
