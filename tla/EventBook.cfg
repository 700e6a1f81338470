\* Two events, two groups and three keys: a rename, a creation on the key it
\* gave up, and a key that is free.
CONSTANTS
    Events = {e1, e2}
    Keys = {k1, k2, k3}
    Groups = {g1, g2}
    None = None
SPECIFICATION BookSpec
SYMMETRY Alike
INVARIANTS
    SeenAsAsked
    OwnKeyLeadsHome
CHECK_DEADLOCK FALSE
