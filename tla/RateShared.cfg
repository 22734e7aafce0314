SPECIFICATION HSpec
CONSTANTS
    Threads = {t1, t2}
    Addrs = {a1, a2}
    None = None
    Capacity = 1
    MinCount = 3
    MaxRate = 4
    Hour = 4
    ResetInterval = 3
    PenaltyTime = 5
    ClockMayStepBack = TRUE
    MaxTime = 7
    MaxCount = 4
    Gap = 2
    KeepLog = FALSE
SYMMETRY ThreadAddrSymmetry
CHECK_DEADLOCK FALSE
INVARIANT PointerIsCurrent
PROPERTY PoliteIsNeverRefused
PROPERTY PenaltyIsServed
