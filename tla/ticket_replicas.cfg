SPECIFICATION Spec
CONSTANTS
    a = a
    b = b
    c = c
    left = left
    right = right
    Replicas = {left, right}
    Workers = {a, b, c}
    ReplicaOf <- ThreeThreads
    Sqls = {s1, s2}
    SqlOf <- DriftingSql
    Values = {v1}
    NoValues = NoValues
    Parameterized = FALSE
    Estimates = {1, 2}
    NoEstimate = NoEstimate
    NoPlan = NoPlan
    NoApproval = NoApproval
    NoWorker = NoWorker
    NoRow = NoRow
    MaxExplains = 1
    MaxPolicies = 1
    MaxCatalogs = 1
    MaxFaults = 1
INVARIANTS
    TypeOK
    StartedAtMostOnce
    RunsWhatWasApproved
    ApprovalBindsExplain
PROPERTIES
    ImplementsTicket
    CommitsWhatWasChecked
CHECK_DEADLOCK FALSE
