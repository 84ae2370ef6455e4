\* Two accounts, two requests at a time, two attempts each, everything may fail.
CONSTANTS
    Users = {u1, u2}
    SuperAdmin = SuperAdmin
    Editor = Editor
    Roles = {SuperAdmin, Editor}
    Changes <- MCChanges
    Requests = {r1, r2}
    RetryLimit = 2
    Faults = TRUE
    Nil = Nil
SPECIFICATION Spec
INVARIANTS
    TypeOK
    SuperAdminRemains
PROPERTIES
    OperationsAreAtomic
    RequestsEnd
