CONSTANTS
    t1 = t1
    t2 = t2
    t3 = t3
    n1 = n1
    n2 = n2
    v1 = v1
    e1 = e1
    e2 = e2
    None = None
    Takes = {t1, t2, t3}
    NameOf <- Names3
    SafeOf <- Verbatim
    FpsOf <- Fps3
    Legacy = {t1}
    Events = {e1}
    Viewers = {v1}
    Retentions = {0, 1}
    LegacySize = 1
    MaxTime = 3
    MaxRestarts = 1
SPECIFICATION Spec
CHECK_DEADLOCK FALSE
INVARIANTS  Catalogued AvgInRange
 
