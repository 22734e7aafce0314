SPECIFICATION Spec
CONSTANTS
    Listeners = {0}
    Fds = {f1}
    Conns = {c1}
    None = None
    Pipe = Pipe
    MaxConnections = 1
    GrowRate = 1
    SweepTimeout = 1
    HeaderSize = 2
    MsgLengths = {0, 1}
    RespSize = 2
    PollFaults = TRUE
    MaxBacklog = 1
    MaxIn = 2
    MaxRoom = 2
INVARIANT TypeOK
INVARIANT NoLeak
INVARIANT InterestMatchesState
INVARIANT ProgressFitsState
