\* One of two accounts is changed while it makes two calls.
CONSTANTS
    Users = {u1, u2}
    SuperAdmin = SuperAdmin
    Editor = Editor
    Roles = {SuperAdmin, Editor}
    Changes <- MCChanges
    Requests = {r1}
    RetryLimit = 1
    Calls = {v1, v2}
    Bearers = {u1}
    SessionTTL = 2
    Faults = TRUE
    Nil = Nil
SPECIFICATION JudgementsSpec
INVARIANTS
    TypeOK
    OutdatedSessionHasACause
    JudgedAsItStands
PROPERTY
    LockoutTakesHold
