SPECIFICATION HealthSpec
CONSTANTS
    Replicas = {a}
    None = None
    QuarantineAfter = 2
    MaxPending = 3
    Tick = 4
    MaxTime = 8
    MaxResults = 2
    MaxProbes = 1
    MaxResets = 0
    MaxConfigs = 0
    MaxFaults = 0
    Deletable = FALSE
INVARIANTS QuarantineHolds
CHECK_DEADLOCK FALSE
