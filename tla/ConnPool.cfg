CONSTANTS
    Users = {u1, u2, u3, u4}
    Timed = {u1}
    Managed = {u3, u4}
    Conn = {c1, c2, c3, c4}
    Null = Null
    MinConns = 1
    MaxConns = 2
    InitCalls = 2
    OneSection = FALSE
SPECIFICATION FairSpec
INVARIANT Exclusive
INVARIANT WithinMax
INVARIANT NoLostWakeup
INVARIANT NobodySleepsThroughAbort
PROPERTY FreeConnTaken
CHECK_DEADLOCK FALSE
