SPECIFICATION PaymentsFairSpec
CONSTANTS
    k1 = k1
    k2 = k2
    k3 = k3
    p1 = p1
    p2 = p2
    Orders <- MCOrders
    Redirect <- MCRedirect
    Wechat <- MCWechat
    Handlers <- MCHandlers
    MaxConfigs = 1
    MaxFaults = 2
    None = None
CONSTRAINTS MCOneOrder MCChangeOrFaults
INVARIANT PaymentsInvariant
PROPERTIES UnavailableStays PaidGetsCredited
CHECK_DEADLOCK FALSE
