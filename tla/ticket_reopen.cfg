SPECIFICATION Spec
CONSTANTS
    a = a
    b = b
    c = c
    left = left
    right = right
    Replicas = {left, right}
    Workers = {a, b}
    ReplicaOf <- TwoReplicas
    Sqls = {s1}
    SqlOf <- OneSql
    Values = {v1}
    NoValues = NoValues
    Parameterized = TRUE
    Estimates = {1, 2}
    NoEstimate = NoEstimate
    NoPlan = NoPlan
    NoApproval = NoApproval
    NoWorker = NoWorker
    NoRow = NoRow
    MaxExplains = 1
    MaxPolicies = 2
    MaxCatalogs = 1
    MaxFaults = 0
PROPERTIES
    OnlyStaleApprovalReopened
CHECK_DEADLOCK FALSE
