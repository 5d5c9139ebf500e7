CONSTANTS
    Workers = {w1, w2, w3}
    Producers = {p1, p2}
    Owner = owner
    None = none
    QueueSize = 2
    MaxPush = 3
SPECIFICATION FairSpec
INVARIANT RingCoherent
INVARIANT TaskInOnePlace
INVARIANT NoLostWakeup
PROPERTY AcceptedTaskRuns
PROPERTY DestructorReturns
PROPERTY ImplementsTaskPool
CHECK_DEADLOCK FALSE
