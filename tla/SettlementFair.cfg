SPECIFICATION SettlementFairSpec
CONSTANTS
    NumRequests = 1
    NumKeys = 0
    o1 = o1
    o2 = o2
    w1 = w1
    w2 = w2
    l1 = l1
    l2 = l2
    Owners <- MCOwners
    Amounts <- MCAmounts
    MinAvailable = 1
    MaxCredit = 1
    None = None
    RequestOf <- MCRequestOf
    Path <- MCPath
    Workers <- MCTwoWorkers
    Leases <- MCTwoLeases
    MaxFaults = 1
CONSTRAINTS MCUsageCosts MCFewActors
INVARIANT SettlementInvariant
PROPERTIES
    NewerSettlementKept
    SettlementsComplete
    ReservationsEnd
CHECK_DEADLOCK FALSE
