\* One editor, one article, no failure.
CONSTANTS
    Articles = {a1}
    Edited = {a1}
    s1 = s1
    s2 = s2
    Slugs = {s1, s2}
    Dates = {d1}
    Creations <- MCCreations
    Updates <- MCUpdates
    Requests = {r1}
    Readers = {v1}
    Asked = {s1}
    List = List
    Faults = FALSE
    Missing = Missing
    Broken = Broken
    Same = Same
    Nil = Nil
SPECIFICATION Spec
INVARIANT
    PublishedHasADate
