\* Two requests edit and publish an article of up to three cards.
CONSTANTS
    Ids = {c1, c2, c3}
    Texts = {x, y}
    Operations <- MCOperations
    Requests = {r1, r2}
    RetryLimit = 2
    Faults = TRUE
    Nil = Nil
SPECIFICATION Spec
SYMMETRY Symmetry
INVARIANTS
    TypeOK
    PositionsAreContiguous
    PublishedBodyHasACause
PROPERTY EditsAreAtomic
