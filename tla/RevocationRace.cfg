\* A replay races the refresh of the family's live token: no fault is needed.
CONSTANTS
    Users = {u1}
    Families = {f1}
    Jtis = {j1, j2, j3}
    Requests = {r1, r2}
    Switched = {}
    Faults = FALSE
    Nil = Nil
SPECIFICATION RevocationSpec
SYMMETRY Symmetry
INVARIANT RevokedFamilyIsDead
CHECK_DEADLOCK FALSE
