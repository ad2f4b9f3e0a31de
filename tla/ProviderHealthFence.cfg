SPECIFICATION HealthSpec
CONSTANTS
    Replicas = {a, b}
    None = None
    QuarantineAfter = 2
    MaxPending = 2
    Tick = 4
    MaxTime = 4
    MaxResults = 1
    MaxProbes = 1
    MaxResets = 1
    MaxConfigs = 0
    MaxFaults = 0
    Deletable = FALSE
SYMMETRY MCReplicas
INVARIANTS ResetIsFinal
CHECK_DEADLOCK FALSE
