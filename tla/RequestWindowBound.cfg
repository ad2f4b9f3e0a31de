SPECIFICATION RequestSpec
CONSTANTS
    t1 = t1
    t2 = t2
    t3 = t3
    Threads = {t1, t2, t3}
    RpmLimit = 2
    Width = 8
    MaxWindows = 2
SYMMETRY MCThreads
INVARIANT WindowInvariant
CHECK_DEADLOCK FALSE
