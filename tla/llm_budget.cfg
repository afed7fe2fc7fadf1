SPECIFICATION FairSpec
CONSTANTS
    Calls = {p, q}
    Estimates = {2}
    NoPrice = NoPrice
    Charges = {0, 1, 3}
    Limits = {3}
    NoBudget = NoBudget
    NoUsage = NoUsage
    Nobody = Nobody
    MaxMonth = 2
    MaxFaults = 1
INVARIANTS
    CountedOnce
    DispatchedMoneyIsKept
    ResultsAreAccounted
PROPERTIES
    AdmissionFits
    HoldsLeaveFlight
CHECK_DEADLOCK FALSE
