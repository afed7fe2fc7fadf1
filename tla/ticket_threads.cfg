SPECIFICATION FairSpec
CONSTANTS
    a = a
    b = b
    c = c
    left = left
    right = right
    Replicas = {left}
    Workers = {a, b}
    ReplicaOf <- OneReplica
    Sqls = {s1}
    SqlOf <- OneSql
    Values = {v1, v2}
    NoValues = NoValues
    Parameterized = TRUE
    Estimates = {1, 2}
    NoEstimate = NoEstimate
    NoPlan = NoPlan
    NoApproval = NoApproval
    NoWorker = NoWorker
    NoRow = NoRow
    MaxExplains = 1
    MaxPolicies = 2
    MaxCatalogs = 2
    MaxFaults = 0
PROPERTIES
    OnlyStaleApprovalReopened
    AdmittedSettles
CHECK_DEADLOCK FALSE
