CONSTANTS
    Callers = {c1, c2, c3, c4}
    InitialMax = 2
    Requested = {0, 1, 3}
SPECIFICATION FairSpec
INVARIANTS PermitsCounted NoIdleSlot
PROPERTIES NoOvertaking ImplementsPool EveryCallerRuns
