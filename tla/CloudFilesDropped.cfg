CONSTANTS
    User = {u1, u2}
    File = {f}
    Shared = Shared
    None = None
    MaxRequests = 6
    MaxAtOnce = 2
    MaxFailures = 1
SYMMETRY UserSymmetry
SPECIFICATION Spec
INVARIANT DroppedUnowned
CHECK_DEADLOCK FALSE
