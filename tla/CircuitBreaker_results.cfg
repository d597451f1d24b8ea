SPECIFICATION FairSpec
CONSTANTS
    r1 = r1
    r2 = r2
    r3 = r3
    r4 = r4
    Request <- FourRequests
    FailureThreshold = 3
    RecoveryTimeout = 3
    SuccessThreshold = 2
INVARIANTS
    TypeOK
    FaultDetection
PROPERTIES
    OpensOnlyWithCause
    Recovers
