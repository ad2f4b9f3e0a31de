SPECIFICATION HealthFairSpec
CONSTANTS
    Replicas = {a, b}
    None = None
    QuarantineAfter = 2
    MaxPending = 1
    Tick = 4
    MaxTime = 4
    MaxResults = 2
    MaxProbes = 2
    MaxResets = 1
    MaxConfigs = 1
    MaxFaults = 1
    Deletable = TRUE
CONSTRAINT MCFewEvents
INVARIANT HealthInvariant
PROPERTIES
    ProbeCountsOnce
    QueueDrains
CHECK_DEADLOCK FALSE
