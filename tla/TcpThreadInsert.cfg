SPECIFICATION Spec
CONSTANTS
    Listeners = {0, 1}
    Fds = {f1, f2}
    Conns = {c1, c2}
    None = None
    Pipe = Pipe
    MaxConnections = 1
    GrowRate = 1
    SweepTimeout = 1
    HeaderSize = 1
    MsgLengths = {0}
    RespSize = 1
    PollFaults = FALSE
    MaxBacklog = 1
    MaxIn = 1
    MaxRoom = 1
SYMMETRY FdSymmetry
INVARIANT InsertFindsRoom
