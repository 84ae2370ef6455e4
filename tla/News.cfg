\* Two editors of two articles that compete for two slugs, one of which is asked for; one
\* article is edited after its creation.
CONSTANTS
    Articles = {a1, a2}
    Edited = {a1}
    s1 = s1
    s2 = s2
    Slugs = {s1, s2}
    Dates = {d1}
    Creations <- MCCreations
    Updates <- MCUpdates
    Requests = {r1, r2}
    Readers = {v1}
    Asked = {s1}
    List = List
    Faults = TRUE
    Missing = Missing
    Broken = Broken
    Same = Same
    Nil = Nil
SPECIFICATION Spec
SYMMETRY Symmetry
INVARIANTS
    TypeOK
    OutdatedArticleHasACause
    OutdatedListHasACause
