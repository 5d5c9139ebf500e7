CONSTANTS
    User = {u1, u2, u3}
    File = {f}
    Shared = Shared
    None = None
    MaxRequests = 6
    MaxAtOnce = 3
    MaxFailures = 1
SYMMETRY UserSymmetry
SPECIFICATION Spec
INVARIANT NotLost
INVARIANT SharesAgree
INVARIANT UserCountExact
CHECK_DEADLOCK FALSE
