\* Two editors and a reader, two names, two lists of sections.
CONSTANTS
    Names = {n1, n2}
    Sections = {NoSections, s1}
    NoSections = NoSections
    Requests = {r1, r2}
    Readers = {v1}
    RetryLimit = 2
    Faults = TRUE
    Missing = Missing
    Nil = Nil
SPECIFICATION Spec
INVARIANTS
    TypeOK
    OutdatedContentHasACause
PROPERTIES
    PublishedAtIsKept
    PortalCatchesUp
