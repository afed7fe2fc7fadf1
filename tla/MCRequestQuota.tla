--------------------------- MODULE MCRequestQuota ---------------------------
\* Two clients of one user in one tenant: the user scope is short of slots, the
\* tenant scope of requests per window.
EXTENDS RequestQuota

CONSTANTS user, tenant

UserThenTenant == [r \in Requests |-> <<user, tenant>>]
OneSlotForTheUser == user :> 1 @@ tenant :> 2
OneRequestForTheTenant == user :> 2 @@ tenant :> 1

=============================================================================
