CONSTANTS
    a = a
    b = b
    Sessions = {1, 2}
    Names = {a, b}
    PageSize = 1
    MaxWire = 1
    MaxStarts = 2
SPECIFICATION Spec
CHECK_DEADLOCK FALSE
SYMMETRY AnyName
INVARIANTS PanelTrue PlayingIsPlayed TornDown
