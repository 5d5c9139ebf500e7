CONSTANTS
    Fd = {f1, f2}
    Workers = {w1, w2}
    QueueSize = 1
    Full = 2
    MayClose = TRUE
    MaxChunks = 2
    MaxClients = 3
    NoFd = NoFd
SPECIFICATION FairSpec
INVARIANT OneOwner
INVARIANT NothingStale
INVARIANT ForgottenForAReason
PROPERTY ResponseIsSent
PROPERTY DataIsRead
CHECK_DEADLOCK FALSE
