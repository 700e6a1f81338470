CONSTANTS
    None = None
    Wrong = Wrong
    e1 = e1
    e2 = e2
    e3 = e3
    e4 = e4
    p1 = p1
    p2 = p2
    Emails = {e1, e2, e3, e4}
    Allowed = {e1, e2}
    Blocked = {e4}
    Pages = {p1, p2}
    Owner <- EachTheirOwn
    MaxAttempts = 2
    MaxCodes = 2
    MaxKeys = 1
SPECIFICATION Spec
INVARIANTS OneBootstrap OwnMailbox GuessesBounded 
SYMMETRY Symmetry
CHECK_DEADLOCK FALSE
