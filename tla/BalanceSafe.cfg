SPECIFICATION BalanceSpec
CONSTANTS
    NumRequests = 2
    NumKeys = 1
    o1 = o1
    o2 = o2
    o3 = o3
    Owners <- MCOwners
    Amounts <- MCAmounts
    MinAvailable = 1
    MaxCredit = 3
    None = None
SYMMETRY MCSymmetry
INVARIANT WalletInvariant
PROPERTIES
    EndedForGood
    WalletHonoursContract
CHECK_DEADLOCK FALSE
