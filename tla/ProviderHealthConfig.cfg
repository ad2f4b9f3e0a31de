SPECIFICATION HealthSpec
CONSTANTS
    Replicas = {a}
    None = None
    QuarantineAfter = 2
    MaxPending = 2
    Tick = 4
    MaxTime = 0
    MaxResults = 1
    MaxProbes = 0
    MaxResets = 0
    MaxConfigs = 1
    MaxFaults = 0
    Deletable = FALSE
PROPERTIES OldConfigNotCounted
CHECK_DEADLOCK FALSE
