------------------------------ MODULE Sessions ------------------------------
(***************************************************************************)
(* Protected requests against UsersService: JwtStrategy.validate, the      *)
(* session cache it keeps in Redis, and the ability cache of               *)
(* CaslAbilityFactory.                                                     *)
(*                                                                         *)
(* Both caches are filled by protected requests and evicted by the steps   *)
(* UserAdmin takes after a commit.  Every Redis or database call is a step *)
(* of its own: between two of them anything else may happen.               *)
(***************************************************************************)
EXTENDS Naturals

CONSTANTS
    Users, Roles, SuperAdmin, Nil, Changes, Requests, RetryLimit, Faults,  \* see UserAdmin
    Calls,       \* protected requests in progress at the same time
    Bearers,     \* accounts an access token has been signed for
    SessionTTL   \* USER_SESSION_CACHE_TTL, in ticks


VARIABLES
    row, pc, op, attempt, write, counted, rivals,   \* see UserAdmin
    session,   \* user-session:{user}
    ability,   \* casl:ability:{user}:{role}: the role its rules were built for
    at,        \* the step each protected request is at
    bearer,    \* the account its access token names
    seen       \* the session it works with

Admin == INSTANCE UserAdmin

adminVars == <<row, pc, op, attempt, write, counted, rivals>>
cacheVars == <<session, ability>>
callVars == <<at, bearer, seen>>
vars == <<adminVars, cacheVars, callVars>>

Row == [role : Roles, isActive : BOOLEAN, deleted : BOOLEAN]

Usable(x) == x # Nil /\ x.isActive /\ ~x.deleted

UsableRow == {x \in Row : Usable(x)}

\* excused is history: the entry was outdated when it was set, or an eviction that
\* was due has been lost since.
Session == [row : UsableRow, age : 0 .. SessionTTL - 1, excused : BOOLEAN]

\* The parameters are those of UserAdmin, and of this module; Nil is told apart from every
\* present value.
ASSUME SessionAssumption ==
    /\ SuperAdmin \in Roles
    /\ Changes \subseteq [role : Roles \cup {Nil}, isActive : BOOLEAN \cup {Nil}]
    /\ RetryLimit \in Nat \ {0}
    /\ Faults \in BOOLEAN
    /\ SessionTTL \in Nat \ {0}
    /\ Bearers \subseteq Users
    /\ Nil \notin Roles \cup BOOLEAN \cup Row \cup Session

CallSteps == {"idle", "session", "load", "cache", "ability", "build"}

Init ==
    /\ Admin!Init
    /\ session = [u \in Users |-> Nil]
    /\ ability = [u \in Users |-> [role \in Roles |-> Nil]]
    /\ at = [v \in Calls |-> "idle"]
    /\ bearer = [v \in Calls |-> Nil]
    /\ seen = [v \in Calls |-> Nil]

------------------------------------------------------------------------------
(* Administration: UserAdmin's steps, and what they do to the caches. *)

\* An eviction of u's session that was due will not come.
Excuse(u) ==
    session' = IF session[u] = Nil THEN session
               ELSE [session EXCEPT ![u].excused = TRUE]

\* Everything up to the commit, and the answer, leave the caches alone.
AdminTx(r) ==
    /\ (\E o \in Admin!Operation : Admin!Receive(r, o)) \/ Admin!TxStep(r) \/ Admin!Answer(r)
    /\ UNCHANGED <<cacheVars, callVars>>

AdminCrash(r) ==
    /\ Admin!Crash(r)
    /\ IF pc[r] \in {"abilities", "session"} THEN Excuse(op[r].user) ELSE UNCHANGED session
    /\ UNCHANGED <<ability, callVars>>

\* invalidateCache deletes the entries of every role; a failure is swallowed.
AdminEvictAbilities(r) ==
    /\ Admin!EvictAbilities(r)
    /\ \/ ability' = [ability EXCEPT ![op[r].user] = [role \in Roles |-> Nil]]
       \/ Faults /\ UNCHANGED ability
    /\ UNCHANGED <<session, callVars>>

AdminEvictSession(r) ==
    /\ Admin!EvictSession(r)
    /\ \/ session' = [session EXCEPT ![op[r].user] = Nil]
       \/ Faults /\ Excuse(op[r].user)
    /\ UNCHANGED <<ability, callVars>>

AdminStep(r) ==
    \/ AdminTx(r)
    \/ AdminCrash(r)
    \/ AdminEvictAbilities(r)
    \/ AdminEvictSession(r)

------------------------------------------------------------------------------
(* A protected request. *)

GoAt(v, step, x) ==
    /\ at' = [at EXCEPT ![v] = step]
    /\ seen' = [seen EXCEPT ![v] = x]
    /\ UNCHANGED bearer

\* The request is refused, or goes on to its handler.
Finish(v) ==
    /\ at' = [at EXCEPT ![v] = "idle"]
    /\ bearer' = [bearer EXCEPT ![v] = Nil]
    /\ seen' = [seen EXCEPT ![v] = Nil]

Call(v, u) ==
    /\ at[v] = "idle"
    /\ u \in Bearers
    /\ row[u] # Nil
    /\ at' = [at EXCEPT ![v] = "session"]
    /\ bearer' = [bearer EXCEPT ![v] = u]
    /\ UNCHANGED <<adminVars, cacheVars, seen>>

\* Variant: a hit renews the entry's TTL.
HitSessionRenewing(v) ==
    /\ at[v] = "session"
    /\ session[bearer[v]] # Nil
    /\ LET x == session[bearer[v]].row
       IN  IF Usable(x) THEN GoAt(v, "ability", x) ELSE Finish(v)
    /\ session' = [session EXCEPT ![bearer[v]].age = 0]
    /\ UNCHANGED <<adminVars, ability>>

\* The cached session is trusted as it is.
HitSession(v) ==
    /\ at[v] = "session"
    /\ session[bearer[v]] # Nil
    /\ LET x == session[bearer[v]].row
       IN  IF Usable(x) THEN GoAt(v, "ability", x) ELSE Finish(v)
    /\ UNCHANGED <<adminVars, cacheVars>>

\* Nothing is cached, or Redis fails.
MissSession(v) ==
    /\ at[v] = "session"
    /\ session[bearer[v]] = Nil \/ Faults
    /\ GoAt(v, "load", Nil)
    /\ UNCHANGED <<adminVars, cacheVars>>

\* Variant: the row is not looked at before it is cached.
LoadAny(v) ==
    /\ at[v] = "load"
    /\ GoAt(v, "cache", row[bearer[v]])
    /\ UNCHANGED <<adminVars, cacheVars>>

\* The row is read; an account that is inactive or deleted is refused.
Load(v) ==
    /\ at[v] = "load"
    /\ IF Usable(row[bearer[v]]) THEN GoAt(v, "cache", row[bearer[v]]) ELSE Finish(v)
    /\ UNCHANGED <<adminVars, cacheVars>>

\* SET EX of what was read a step ago.
CacheSession(v) ==
    /\ at[v] = "cache"
    /\ \/ session' = [session EXCEPT ![bearer[v]] =
              [row |-> seen[v], age |-> 0, excused |-> seen[v] # row[bearer[v]]]]
       \/ Faults /\ UNCHANGED session
    /\ GoAt(v, "ability", seen[v])
    /\ UNCHANGED <<adminVars, ability>>

\* A route without @CheckPolicies asks for no ability.
Unguarded(v) ==
    /\ at[v] = "ability"
    /\ Finish(v)
    /\ UNCHANGED <<adminVars, cacheVars>>

\* createForUser: rules cached for this user and role decide; a GET that fails
\* fails the request.
HitAbility(v) ==
    /\ at[v] = "ability"
    /\ ability[bearer[v]][seen[v].role] # Nil \/ Faults
    /\ Finish(v)
    /\ UNCHANGED <<adminVars, cacheVars>>

MissAbility(v) ==
    /\ at[v] = "ability"
    /\ ability[bearer[v]][seen[v].role] = Nil
    /\ GoAt(v, "build", seen[v])
    /\ UNCHANGED <<adminVars, cacheVars>>

\* Variant: the key does not name the role.
CacheAbilityOfUser(v) ==
    /\ at[v] = "build"
    /\ \/ ability' = [ability EXCEPT ![bearer[v]] = [role \in Roles |-> seen[v].role]]
       \/ Faults /\ UNCHANGED ability
    /\ Finish(v)
    /\ UNCHANGED <<adminVars, session>>

\* The rules are built from the role, cached, and decide.
CacheAbility(v) ==
    /\ at[v] = "build"
    /\ \/ ability' = [ability EXCEPT ![bearer[v]][seen[v].role] = seen[v].role]
       \/ Faults /\ UNCHANGED ability
    /\ Finish(v)
    /\ UNCHANGED <<adminVars, session>>

CallStep(v) ==
    \/ \E u \in Users : Call(v, u)
    \/ HitSession(v)
    \/ MissSession(v)
    \/ Load(v)
    \/ CacheSession(v)
    \/ Unguarded(v)
    \/ HitAbility(v)
    \/ MissAbility(v)
    \/ CacheAbility(v)

------------------------------------------------------------------------------
(* Time. *)

\* A cached session grows older, and is gone at SessionTTL.
SessionAges(u) ==
    /\ session[u] # Nil
    /\ session' = IF session[u].age + 1 < SessionTTL
                  THEN [session EXCEPT ![u].age = @ + 1]
                  ELSE [session EXCEPT ![u] = Nil]
    /\ UNCHANGED <<adminVars, ability, callVars>>

\* ABILITY_CACHE_TTL_SECONDS have passed.
AbilityExpires(u, role) ==
    /\ ability[u][role] # Nil
    /\ ability' = [ability EXCEPT ![u][role] = Nil]
    /\ UNCHANGED <<adminVars, session, callVars>>

Next ==
    \/ \E r \in Requests : AdminStep(r)
    \/ \E v \in Calls : CallStep(v)
    \/ \E u \in Users : SessionAges(u) \/ \E role \in Roles : AbilityExpires(u, role)

\* Redis expires keys; nothing is assumed of the requests.
Fairness == \A u \in Users : WF_vars(SessionAges(u))

SafeSpec == Init /\ [][Next]_vars

Spec == SafeSpec /\ Fairness

------------------------------------------------------------------------------
(* Properties. *)

\* Every variable has its type; only accounts that were usable when they were read are
\* cached, and worked with (jwt.strategy.ts:55-59 and :73-90).
TypeOK ==
    /\ Admin!TypeOK
    /\ session \in [Users -> Session \cup {Nil}]
    /\ ability \in [Users -> [Roles -> Roles \cup {Nil}]]
    /\ at \in [Calls -> CallSteps]
    /\ bearer \in [Calls -> Users \cup {Nil}]
    /\ seen \in [Calls -> UsableRow \cup {Nil}]

\* An eviction of u's session is under way.
EvictionDue(u) ==
    \E r \in Requests : pc[r] \in {"abilities", "session"} /\ op[r].user = u

\* A session that was right when it was cached is outdated only while the change
\* that outdated it still has its eviction ahead, or has lost it to a failure: no
\* operation of UsersService forgets one (users.service.ts:216, :286 and :331).
OutdatedSessionHasACause ==
    \A u \in Users :
        (session[u] # Nil /\ ~session[u].excused /\ session[u].row # row[u])
            => EvictionDue(u)

\* An account that stays inactive or deleted is some day no longer let in, even if
\* its evictions are lost and its client never stops calling
\* (USER_SESSION_CACHE_TTL, jwt.strategy.ts:13-14).
LockoutTakesHold ==
    \A u \in Users :
        (<>[](row[u] # Nil /\ ~Usable(row[u]))) => <>[](session[u] = Nil)

\* Without failures, and with no request on the account in progress, the cached
\* session is the account's: a change takes effect within one request cycle
\* (jwt.strategy.ts:27-30).
ChangesTakeEffect ==
    \A u \in Users :
        (/\ \A r \in Requests : op[r] = Nil
         /\ \A v \in Calls : bearer[v] # u
         /\ session[u] # Nil) => session[u].row = row[u]
==============================================================================
