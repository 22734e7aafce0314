SPECIFICATION FairSpec
CONSTANTS
    Host <- TwoAdapters
    NumericIPs <- NumericAddresses
    ArgLists <- MCArgLists
    OwnConfigs <- MCOwnConfigs
    Clients = {a1}
    Kinds = {"request", "empty", "bad"}
    Self = Self
    NoAddress = NoAddress
    QueueLimit = 2
    MaxInFlight = 2
CHECK_DEADLOCK FALSE
INVARIANT SocketsOutliveThreads
INVARIANT WaitingMeansServing
INVARIANT AnswerIsPaid
PROPERTY StopCompletes
PROPERTY RotationServesAll
