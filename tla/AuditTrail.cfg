\* An operation that is logged by a job, a change of a role, two workers.
CONSTANTS
    Events = {e1, e2}
    Security = {e2}
    Workers = {w1, w2}
    Attempts = 3
    Delay = 1
    MaxStalled = 1
    Faults = TRUE
    Nil = Nil
SPECIFICATION Spec
INVARIANTS
    TypeOK
    CompletedIsEntered
    FailsOnlyAfterPatience
PROPERTIES
    EnteredOnce
    EveryCommitIsEntered
CHECK_DEADLOCK FALSE
