SPECIFICATION StreamFairSpec
CONSTANTS
    MaxSeq = 5
    MaxUnread = 2
    ReadLimit = 2
    MaxFaults = 2
INVARIANT StreamInvariant
PROPERTIES
    TerminalNotCancelled
    EndedStaysSilent
    TerminalCompletes
    OwnerEnds
CHECK_DEADLOCK FALSE
