SPECIFICATION FairSpec
CONSTANTS
    user = user
    tenant = tenant
    Requests = {p, q}
    Scopes = {user, tenant}
    ScopesOf <- UserThenTenant
    MaxConcurrent <- OneSlotForTheUser
    MaxRequests <- OneRequestForTheTenant
    Window = 2
    TTL = 2
    Lag = 1
    NoRow = NoRow
    Nobody = Nobody
    MaxTime = 3
    MaxSent = 3
    MaxFaults = 1
INVARIANTS
    TypeOK
    QuotasHold
    LeasesFollowRequests
PROPERTIES
    OnlyOwnerFreesLiveLease
    LostWorkStops
CHECK_DEADLOCK FALSE
