CONSTANTS
    Worker = {w1, w2}
    Name = {n1, n2}
    Nick = {k1, k2}
    Pwd = {p1, p2}
    Conn = {c1, c2}
    None = None
    MaxRequests = 5
    MaxLogins = 2
    MaxTime = 1
    MaxFailures = 1
SYMMETRY Symmetric
SPECIFICATION Spec
INVARIANT RegisteredCanLogIn
PROPERTY TokenHonoured
CHECK_DEADLOCK FALSE
