\* All routes, one request of one client at a time; limits of 3, 2 and 2 (search), windows of
\* 2 ticks (global) and 3 (login).
CONSTANTS
    SuperAdmin = SuperAdmin
    ContentManager = ContentManager
    SalesManager = SalesManager
    Requests = {r1}
    Limit <- MCLimit
    StrictLimit = 2
    Ttl <- MCTtl
    Faults = TRUE
    Nobody = Nobody
SPECIFICATION Spec
INVARIANTS
    TypeOK
    LessThanTwiceTheLimit
    BlockOutlivesCount
    LoginCapsNothingElse
    ServedAsDocumented
    RefusedAsDocumented
PROPERTY
    BlocksEnd
