\* One of two accounts is changed while it calls.
CONSTANTS
    Users = {u1, u2}
    SuperAdmin = SuperAdmin
    Editor = Editor
    Roles = {SuperAdmin, Editor}
    Changes <- MCChanges
    Requests = {r1}
    RetryLimit = 1
    Calls = {v1}
    Bearers = {u1}
    SessionTTL = 1
    Faults = FALSE
    Nil = Nil
SPECIFICATION JudgementsSafeSpec
INVARIANT
    ChangesTakeEffect
