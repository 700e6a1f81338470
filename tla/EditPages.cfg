\* Two visits, two valid values and an invalid one.
CONSTANTS
    Pages = {p1, p2}
    Values = {a, b}
    Bad = Bad
    Default = a
    None = None
SPECIFICATION PagesSpec
SYMMETRY Alike
INVARIANTS
    InForceIsStored
PROPERTIES
    UnsentIsKept
    
CHECK_DEADLOCK FALSE
