SPECIFICATION Spec
CONSTANTS
    Workers = {u, v}
    Nobody = Nobody
    Batches = 1
    MaxAttempts = 1
    MaxRequests = 1
    MaxFaults = 1
INVARIANT AttemptsAreBounded
CHECK_DEADLOCK FALSE
