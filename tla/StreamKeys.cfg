CONSTANTS
    None = None
    Shared = Shared
    s1 = s1
    s2 = s2
    a = a
    Events = {e1}
    Students = {s1, s2}
    Bases = {a}
    BaseOf <- SameBase
    Calls = {c1, c2}
    Hooks = {h1}
    MaxTerms = 2
    MaxSuffix = 2
SPECIFICATION Spec
INVARIANTS SeatedKeys OwnToken
PROPERTIES DeadStaysDead
SYMMETRY Symmetry
CHECK_DEADLOCK FALSE
