SPECIFICATION FairSpec
CONSTANTS
    k1 = k1
    k2 = k2
    v1 = v1
    v2 = v2
    None = None
    Keys <- MCKeys
    Values <- MCValues
    Batches <- MCBatches
    MaxBlock = 2
    Capacity = 2
    MaxRequests = 3
    MaxFailures = 1
    MaxRestarts = 1
    StopAllowed = TRUE
INVARIANTS
    ReadsSeeOwnWrites
    NeverRefused
PROPERTIES
    ImplementsWriteBehind
    PushReturns
CHECK_DEADLOCK FALSE
