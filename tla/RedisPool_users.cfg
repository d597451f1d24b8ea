SPECIFICATION Spec
CONSTANTS
    u1 = u1
    u2 = u2
    u3 = u3
    d1 = d1
    d2 = d2
    User <- Users
    Reporter <- OneReporter
    Direct <- TrackerThreads
    PoolSize = 2
    MaxBreaks = 2
    MaxMissing = 1
SYMMETRY Symmetry
INVARIANTS
    TypeOK
    OneUser
    OwnReply
    PoolBounded
