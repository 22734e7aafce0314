SPECIFICATION HSpec
CONSTANTS
    Threads = {t1}
    Addrs = {a1}
    None = None
    Capacity = 1
    MinCount = 3
    MaxRate = 4
    Hour = 4
    ResetInterval = 6
    PenaltyTime = 8
    ClockMayStepBack = FALSE
    MaxTime = 14
    MaxCount = 8
    Gap = 2
    KeepLog = TRUE
CHECK_DEADLOCK FALSE
INVARIANT LessThanTwiceTheRate
