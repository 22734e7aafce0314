SPECIFICATION FairSpec
CONSTANTS
    Fds = {f1, f2, f3}
    Flags = {"Read"}
    Interests <- MCInterests
    AlwaysReported = {}
    MaxSockets = 3
    NotWatched = NotWatched
    NoFd = NoFd
INVARIANT SlotsIndexed
INVARIANT UnreadCounted
PROPERTY ImplementsContract
PROPERTY ReadyIsReported
