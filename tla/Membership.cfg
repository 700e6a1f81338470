CONSTANTS
    None = None
    Users = {u1, u2}
    Edited = {u1}
    Groups = {g1, g2}
    Invites = {i1}
    MaxUses = 1
    MaxPatches = 1
SPECIFICATION Spec
INVARIANTS InviteBudget FailureGrantsNothing
SYMMETRY Symmetry
CHECK_DEADLOCK FALSE
