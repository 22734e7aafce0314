SPECIFICATION FairSpec
CONSTANTS
    Listeners = {0}
    Fds = {f1}
    Conns = {c1}
    None = None
    Pipe = Pipe
    MaxConnections = 1
    GrowRate = 1
    SweepTimeout = 1
    HeaderSize = 1
    MsgLengths = {0, 1}
    RespSize = 2
    PollFaults = FALSE
    MaxBacklog = 1
    MaxIn = 1
    MaxRoom = 1
PROPERTY ConnectionsEnd
PROPERTY StopCompletes
PROPERTY BacklogServed
