SPECIFICATION Spec
CONSTANTS
    Preflights = {p, q}
    Requests = {r, s}
    NoToken = NoToken
    Replicas = {a, b}
    Asks <- MCFallbackAsks
    Items <- MCItems
    Required = {"question"}
    Rank <- MCRank
    Catalogs = 2
    Ceilings = {0, 1, 2}
    InitialCeiling = 1
    MaxEvents = 2
INVARIANTS
    SentAsDisclosed
CHECK_DEADLOCK FALSE
