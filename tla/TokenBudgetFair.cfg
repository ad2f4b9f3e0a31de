SPECIFICATION TokenFairSpec
CONSTANTS
    a = a
    b = b
    t = t
    Attempts = {a, b}
    Terminal <- MCRetried
    Predicted <- MCPredicted
    Usages = {2}
    None = None
    Limit = 2
    Window = 2
    MaxFaults = 2
CONSTRAINT MCSecondAfterFirst
INVARIANT TokenInvariant
PROPERTIES
    BackendsAgree
    OrphansExpire
    LostIsRestored
CHECK_DEADLOCK FALSE
