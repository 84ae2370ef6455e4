------------------------------- MODULE Guards -------------------------------
(***************************************************************************)
(* The guards every request passes in turn: ThrottlerGuard, which counts it*)
(* in RedisThrottlerStorage, JwtAuthGuard and PoliciesGuard.               *)
(*                                                                         *)
(* The throttlers count the requests of one client address to one handler  *)
(* under keys of their own, so a behaviour is about one client and one     *)
(* route.  A tick is a second of a TTL.  ThrottlerGuard itself is external *)
(* (@nestjs/throttler): it asks the storage for each throttler the route   *)
(* does not skip, and refuses the request at the first that blocks it.     *)
(***************************************************************************)
EXTENDS Routes, Naturals

CONSTANTS
    Requests,      \* requests in progress at the same time
    Limit,         \* throttle.limit and throttle.loginLimit
    StrictLimit,   \* the limit of a route that has its own
    Ttl,           \* throttle.ttl and throttle.loginTtl, in ticks
    Faults,        \* whether the storage fails
    Nobody         \* no valid access token

ASSUME GuardAssumption ==
    /\ Limit \in [Throttlers -> Nat \ {0}]
    /\ StrictLimit \in Nat \ {0}
    /\ Ttl \in [Throttlers -> Nat \ {0}]
    /\ Faults \in BOOLEAN
    /\ Nobody \notin Roles

VARIABLES
    route,   \* the route this client asks for
    hits,    \* the hit counters
    left,    \* the ticks until a counter expires
    block,   \* the ticks until a block flag expires, 0 if there is none
    pc,      \* the step each request is at
    who,     \* the role of the account its access token authenticates
    todo,    \* the throttlers it has not passed yet
    letIn    \* how many requests each throttler has let pass in the last age + 1 ticks (history)

storeVars == <<hits, left, block>>
vars == <<route, storeVars, pc, who, todo, letIn>>

\* The last four are its answers: 429, 401, 403, and what the handler has to say.
Steps == {"idle", "throttle", "jwt", "policies", "tooMany", "unauthorized", "forbidden", "handler"}

Counting == Throttlers \ route.skips

LimitOf(t) == IF t = "global" /\ route.strict THEN StrictLimit ELSE Limit[t]

Ages(t) == 0 .. Ttl[t] - 1

Init ==
    /\ route \in Routes
    /\ hits = [t \in Throttlers |-> 0]
    /\ left = [t \in Throttlers |-> 0]
    /\ block = [t \in Throttlers |-> 0]
    /\ pc = [r \in Requests |-> "idle"]
    /\ who = [r \in Requests |-> Nobody]
    /\ todo = [r \in Requests |-> {}]
    /\ letIn = [t \in Throttlers |-> [age \in Ages(t) |-> 0]]

------------------------------------------------------------------------------

Receive(r, role) ==
    /\ pc[r] = "idle"
    /\ pc' = [pc EXCEPT ![r] = "throttle"]
    /\ who' = [who EXCEPT ![r] = role]
    /\ todo' = [todo EXCEPT ![r] = Counting]
    /\ UNCHANGED <<route, storeVars, letIn>>

\* Variant: one hit too many.
ExceedsLate(t) == hits[t] > LimitOf(t)

\* Whether the hit that is being counted exceeds the limit.
Exceeds(t) == hits[t] + 1 > LimitOf(t)

\* INCR, and EXPIRE if it is the first hit; SETEX of the block flag if it exceeds.
Count(t) ==
    /\ hits' = [hits EXCEPT ![t] = @ + 1]
    /\ left' = [left EXCEPT ![t] = IF hits[t] = 0 THEN Ttl[t] ELSE @]
    /\ block' = [block EXCEPT ![t] = IF Exceeds(t) THEN Ttl[t] ELSE @]

\* Variant: the hits of a blocked client count.
IncrementAlways(t) == Count(t)

\* Variant: the hits of a blocked client block it anew.
IncrementRenewing(t) ==
    IF block[t] > 0 THEN block' = [block EXCEPT ![t] = Ttl[t]] /\ UNCHANGED <<hits, left>>
    ELSE Count(t)

\* Variant: the block is as short as can be.
IncrementBriefly(t) ==
    IF block[t] > 0 THEN UNCHANGED storeVars
    ELSE /\ hits' = [hits EXCEPT ![t] = @ + 1]
         /\ left' = [left EXCEPT ![t] = IF hits[t] = 0 THEN Ttl[t] ELSE @]
         /\ block' = [block EXCEPT ![t] = IF Exceeds(t) THEN 1 ELSE @]

\* The Lua script: a blocked client's hits are not counted.
Increment(t) == IF block[t] > 0 THEN UNCHANGED storeVars ELSE Count(t)

Passes(t) == block[t] = 0 /\ ~Exceeds(t)

Throttle(r, t) ==
    /\ pc[r] = "throttle"
    /\ t \in todo[r]
    /\ Increment(t)
    /\ IF Passes(t)
       THEN /\ todo' = [todo EXCEPT ![r] = @ \ {t}]
            /\ letIn' = [letIn EXCEPT ![t] = [age \in Ages(t) |-> letIn[t][age] + 1]]
            /\ UNCHANGED pc
       ELSE /\ pc' = [pc EXCEPT ![r] = "tooMany"]
            /\ todo' = [todo EXCEPT ![r] = {}]
            /\ UNCHANGED letIn
    /\ UNCHANGED <<route, who>>

\* The script has run, its answer is lost, and it will be sent again.
ThrottleUnanswered(r, t) ==
    /\ Faults
    /\ pc[r] = "throttle"
    /\ t \in todo[r]
    /\ Increment(t)
    /\ UNCHANGED <<route, pc, who, todo, letIn>>

Goto(r, step) ==
    /\ pc' = [pc EXCEPT ![r] = step]
    /\ UNCHANGED <<route, storeVars, who, todo, letIn>>

Throttled(r) ==
    /\ pc[r] = "throttle"
    /\ todo[r] = {}
    /\ Goto(r, "jwt")

\* JwtAuthGuard: a public route is open, and knows no user.
Authenticate(r) ==
    /\ pc[r] = "jwt"
    /\ pc' = [pc EXCEPT ![r] =
          IF route.isPublic \/ who[r] # Nobody THEN "policies" ELSE "unauthorized"]
    /\ who' = [who EXCEPT ![r] = IF route.isPublic THEN Nobody ELSE @]
    /\ UNCHANGED <<route, storeVars, todo, letIn>>

\* PoliciesGuard: all handlers must agree, and there must be someone to ask about.
Entitled(r) ==
    \/ route.asks = {}
    \/ who[r] # Nobody /\ \A ask \in route.asks : Can(who[r], ask[1], ask[2])

CheckPolicies(r) ==
    /\ pc[r] = "policies"
    /\ Goto(r, IF Entitled(r) THEN "handler" ELSE "forbidden")

\* Whatever it is, it is answered; or Redis fails (500).
Answer(r) ==
    /\ pc[r] \in {"tooMany", "unauthorized", "forbidden", "handler"}
           \cup (IF Faults THEN {"throttle"} ELSE {})
    /\ pc' = [pc EXCEPT ![r] = "idle"]
    /\ who' = [who EXCEPT ![r] = Nobody]
    /\ todo' = [todo EXCEPT ![r] = {}]
    /\ UNCHANGED <<route, storeVars, letIn>>

\* A counter and its TTL go together.
Tick ==
    /\ \E t \in Throttlers : left[t] > 0 \/ block[t] > 0 \/ \E age \in Ages(t) : letIn[t][age] > 0
    /\ hits' = [t \in Throttlers |-> IF left[t] <= 1 THEN 0 ELSE hits[t]]
    /\ left' = [t \in Throttlers |-> IF left[t] = 0 THEN 0 ELSE left[t] - 1]
    /\ block' = [t \in Throttlers |-> IF block[t] = 0 THEN 0 ELSE block[t] - 1]
    /\ letIn' = [t \in Throttlers |->
          [age \in Ages(t) |-> IF age = 0 THEN 0 ELSE letIn[t][age - 1]]]
    /\ UNCHANGED <<route, pc, who, todo>>

RequestStep(r) ==
    \/ \E role \in Roles \cup {Nobody} : Receive(r, role)
    \/ \E t \in Throttlers : Throttle(r, t) \/ ThrottleUnanswered(r, t)
    \/ Throttled(r)
    \/ Authenticate(r)
    \/ CheckPolicies(r)
    \/ Answer(r)

Next == (\E r \in Requests : RequestStep(r)) \/ Tick

\* Time passes; clients may do what they want.
Spec == Init /\ [][Next]_vars /\ WF_vars(Tick)

------------------------------------------------------------------------------
(* Properties. *)

\* Every variable has its type, and a counter never goes further than one hit beyond the
\* limit: a blocked client's hits are not counted (throttler-storage.ts:33-37).
TypeOK ==
    /\ route \in Routes
    /\ \A t \in Throttlers :
          /\ hits[t] \in 0 .. LimitOf(t) + 1
          /\ left[t] \in 0 .. Ttl[t]
          /\ block[t] \in 0 .. Ttl[t]
          /\ letIn[t] \in [Ages(t) -> Nat]
    /\ pc \in [Requests -> Steps]
    /\ who \in [Requests -> Roles \cup {Nobody}]
    /\ todo \in [Requests -> SUBSET Throttlers]

\* A window begins with its first hit, so it may end in the middle of a burst: within any
\* Ttl ticks a throttler lets less than twice the limit pass, and never more
\* (throttler-storage.ts:39-48).
LessThanTwiceTheLimit ==
    \A t \in Throttlers : letIn[t][Ttl[t] - 1] < 2 * LimitOf(t)

\* When a block ends, the count that led to it has ended too: a client that is no longer
\* blocked has a whole window before it (throttler-storage.ts:45-48).
BlockOutlivesCount ==
    \A t \in Throttlers : hits[t] > LimitOf(t) => block[t] > 0 /\ block[t] >= left[t]

\* The login throttler caps login and refresh and, because @SkipThrottle() without an
\* argument does not mean it, the root and the health check (app.module.ts:199-201,
\* app.controller.ts:28 and :43).
LoginCapsNothingElse ==
    hits["login"] > 0 => route \in CappedAuthRoutes \cup AppRoutes

\* A handler runs only for those the README says may use its route: the decorators of
\* the controllers against the tables of README.md:455-545 and :569-572.
ServedAsDocumented ==
    \A r \in Requests : pc[r] = "handler" =>
        \/ DocumentedPublic(route)
        \/ who[r] # Nobody /\ Documented(who[r], route)

\* Nobody is refused what the README grants, the two routes apart for which the code asks
\* for more: the rules of casl-ability.factory.ts:140-180 against the same tables.
RefusedAsDocumented ==
    \A r \in Requests : pc[r] = "forbidden" =>
        ~Documented(who[r], route) \/ StricterThanDocumented(route)

\* A client that goes on knocking while it is blocked is let in again all the same
\* (throttler-storage.ts:33-37).
BlocksEnd == \A t \in Throttlers : block[t] > 0 ~> block[t] = 0
==============================================================================
