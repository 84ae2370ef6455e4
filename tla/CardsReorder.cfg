\* One request at a time and no failures: two cards change places.
CONSTANTS
    Ids = {c1, c2}
    Texts = {x}
    Operations <- MCReorders
    Requests = {r1}
    RetryLimit = 1
    Faults = FALSE
    Nil = Nil
SPECIFICATION Spec
INVARIANT ReorderCanBePersisted
