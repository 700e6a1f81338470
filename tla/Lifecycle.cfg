CONSTANTS
    c1 = c1
    c2 = c2
    s1 = s1
    NoClient = NoClient
    Clients = {c1, c2}
    Streams = {s1}
    StreamOf <- OneName
    Sweeps = {w1}
    MaxRecorders = 2
    PageSize = 1
    MaxRestarts = 1
SPECIFICATION Spec
CHECK_DEADLOCK FALSE
SYMMETRY SameName
INVARIANTS OneOpenRow ActiveIsCurrent RecordersTracked RecordingHasSession
PROPERTIES ImplementsRegistry StoppedOnce SilentAfterUnpublish 
