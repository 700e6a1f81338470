CONSTANTS
    c1 = c1
    c2 = c2
    s1 = s1
    NoClient = NoClient
    Clients = {c1, c2}
    Streams = {s1}
    StreamOf <- OneName
    Sweeps = {w1}
    MaxRecorders = 2
    PageSize = 2
    MaxRestarts = 0
SPECIFICATION Spec
CHECK_DEADLOCK FALSE
INVARIANTS ArchivedIsCompliant
