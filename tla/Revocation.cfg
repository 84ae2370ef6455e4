\* One session family, three generations of tokens, two requests at a time.
CONSTANTS
    Users = {u1}
    Families = {f1}
    Jtis = {j1, j2, j3}
    Requests = {r1, r2}
    Switched = {u1}
    Faults = TRUE
    Nil = Nil
SPECIFICATION RevocationSpec
SYMMETRY Symmetry
INVARIANTS
    TypeOK
    OneLiveTokenPerFamily
    OneSuccessorPerToken
    ReplayIsDetectable
    SpentStaysSpent
    LiveTokensAreFindable
    RevocationSparesNoOther
PROPERTY DeadStaysDead
CHECK_DEADLOCK FALSE
