SPECIFICATION WalletsFairSpec
CONSTANTS
    NumRequests = 1
    NumKeys = 0
    Owners = {o1}
    Amounts = {0, 1}
    MinAvailable = 1
    MaxCredit = 1
    None = None
PROPERTY OrphansReclaimed
CHECK_DEADLOCK FALSE
