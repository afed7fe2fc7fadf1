-------------------------- MODULE MCQueryExecution --------------------------
\* Small deployments of QueryExecution for TLC.
EXTENDS QueryExecution, TLC

CONSTANTS a, b, c, left, right

\* Two API replicas, the left one with two request threads.
ThreeThreads == a :> left @@ b :> right @@ c :> left

\* Two API replicas with a request thread each.
TwoReplicas == a :> left @@ b :> right

\* One process with two request threads.
OneReplica == a :> left @@ b :> left

\* Every replica prepares the same SQL.
OneSql == [r \in Replicas |-> CHOOSE s \in Sqls : TRUE]

\* During a rolling change of the row limit or the validator, they do not.
DriftingSql == CHOOSE f \in [Replicas -> Sqls] : \A r, q \in Replicas : r # q => f[r] # f[q]

=============================================================================
