SPECIFICATION FairSpec
CONSTANTS
    SocketSets <- MCSocketSets
    MaxAttempts = 2
    Timeout = 6
    WaitLimit = 2
    ClockMod = 9
CHECK_DEADLOCK FALSE
INVARIANT VerdictIsSound
INVARIANT VerdictIsComplete
PROPERTY VerdictStands
PROPERTY ClientEnds
