SPECIFICATION FairSpec
CONSTANTS
    Workers = {u, v}
    Nobody = Nobody
    Batches = 2
    MaxAttempts = 2
    MaxRequests = 2
    MaxFaults = 1
INVARIANTS
    TypeOK
    ContinuationIsDurable
PROPERTIES
    LateWorkersAreRefused
    JobsFinish
CHECK_DEADLOCK FALSE
