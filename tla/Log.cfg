CONSTANTS
    Writers = {w1, w2}
    MaxQueueSize = 2
    SplitLines = 2
    MaxDay = 1
    MaxLines = 4
SPECIFICATION FairSpec
INVARIANT QueuedInOrder
INVARIANT LostOnlyToARival
INVARIANT CallersLineOnDisk
PROPERTY AcceptedIsWritten
CHECK_DEADLOCK FALSE
