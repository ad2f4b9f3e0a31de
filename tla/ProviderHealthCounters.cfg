SPECIFICATION HealthSpec
CONSTANTS
    Replicas = {a, b}
    None = None
    QuarantineAfter = 2
    MaxPending = 2
    Tick = 4
    MaxTime = 4
    MaxResults = 2
    MaxProbes = 1
    MaxResets = 0
    MaxConfigs = 0
    MaxFaults = 0
    Deletable = FALSE
PROPERTIES CountersKept
CHECK_DEADLOCK FALSE
