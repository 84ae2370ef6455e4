---------------------------- MODULE RefreshTokens ----------------------------
(***************************************************************************)
(* Refresh-token families: TokenService and AuthService over Redis.        *)
(*                                                                         *)
(* A login opens a family with one refresh token; every refresh consumes   *)
(* the presented token and issues its successor in the same family; a      *)
(* second presentation of a consumed token, and a refresh by a user who is *)
(* inactive or deleted, revoke the family; a logout revokes one token.     *)
(*                                                                         *)
(* Each HTTP request is a process that runs one Redis command at a time.   *)
(* A pipeline is not a MULTI transaction: its commands are single steps,   *)
(* commands of other requests run between them, any of them may fail while *)
(* the later ones still run, and the client looks at the results only when *)
(* it has them all.  A request may die between any two steps.              *)
(***************************************************************************)

CONSTANTS
    Users,      \* rows of the users table
    Families,   \* family ids uuid can still return
    Jtis,       \* refresh-token ids uuid can still return
    Requests,   \* HTTP requests in progress at the same time
    Switched,   \* users an administrator may switch off and on, at any time
    Faults,     \* whether commands fail, connections break and processes die
    Nil         \* Redis nil, and "nothing yet"

ASSUME ParameterAssumption == Switched \subseteq Users /\ Faults \in BOOLEAN

\* Nil is told apart from every present value.
ASSUME NilAssumption ==
    /\ Nil \notin Jtis
    /\ Nil \notin [user : Users, family : Families]
    /\ Nil \notin [user : Users, family : Families, jti : Jtis \cup {Nil}]

VARIABLES
    allow,           \* rt:{jti}: the allowlist entry "user:family"
    consumed,        \* rt-family:{family}:{jti}: the consumed markers
    activeJtis,      \* rt-family-active:{family}: a set of jtis
    jwts,            \* refresh JWTs signed so far: clients present any of them
    expired,         \* jtis whose JWT is past its exp
    mintedFamilies,  \* family ids uuid has returned
    mintedJtis,      \* jtis uuid has returned
    pc,              \* the step each request is at
    tok,             \* the token a request was sent with; its jti is Nil in a login
    newJti,          \* the token a request is issuing
    members,         \* the jtis a revocation has read, for which its pipeline has a DEL
    todo,            \* those whose DEL is still to come
    failed,          \* a command of the request's pipeline has failed
    parent,          \* history: the token each successor was issued for
    spent            \* history: tokens that left the allowlist in a client's hands

redisVars == <<allow, consumed, activeJtis>>
clientVars == <<jwts, expired>>
mintVars == <<mintedFamilies, mintedJtis, parent>>
reqVars == <<pc, tok, newJti, members, todo, failed>>
vars == <<redisVars, clientVars, mintVars, reqVars, spent>>

------------------------------------------------------------------------------
(* What is stored, what is signed, and where a request can be. *)

Entry == [user : Users, family : Families]
Token == [user : Users, family : Families, jti : Jtis]
Login == [user : Users, family : Families, jti : {Nil}]

\* The allowlist value that belongs to a token.
EntryOf(t) == [user |-> t.user, family |-> t.family]

\* The jtis whose JWT has been signed.
Delivered == {t.jti : t \in jwts}

\* Pipeline commands, in the order rotateRefreshToken, rotateTokens and
\* revokeRefreshToken queue them.  "srem" exists in a rotation only.
Commands == {"mark", "set", "sadd", "srem", "logoutDel", "logoutSrem"}

Steps == Commands \cup
    {"idle", "load", "getdel", "marker", "smembers", "revoke", "revokeReply",
     "reply", "logoutReply"}

IsRotation(r) == tok[r].jti # Nil

\* A revocation has read the active set, and has not been answered yet.
Revoking(r) == pc[r] \in {"revoke", "revokeReply"}

After(r) ==
    CASE pc[r] = "mark"       -> "set"
      [] pc[r] = "set"        -> "sadd"
      [] pc[r] = "sadd"       -> IF IsRotation(r) THEN "srem" ELSE "reply"
      [] pc[r] = "srem"       -> "reply"
      [] pc[r] = "logoutDel"  -> "logoutSrem"
      [] pc[r] = "logoutSrem" -> "logoutReply"

Goto(r, step) ==
    /\ pc' = [pc EXCEPT ![r] = step]
    /\ UNCHANGED <<tok, newJti, members, todo, failed>>

\* The request has been answered, or has died.
End(r) ==
    /\ pc' = [pc EXCEPT ![r] = "idle"]
    /\ tok' = [tok EXCEPT ![r] = Nil]
    /\ newJti' = [newJti EXCEPT ![r] = Nil]
    /\ members' = [members EXCEPT ![r] = {}]
    /\ todo' = [todo EXCEPT ![r] = {}]
    /\ failed' = [failed EXCEPT ![r] = FALSE]

\* The allowlist loses jti j.
Drop(j) ==
    /\ allow' = [allow EXCEPT ![j] = Nil]
    /\ spent' = spent \cup ({j} \cap Delivered)

------------------------------------------------------------------------------
Init ==
    /\ allow = [j \in Jtis |-> Nil]
    /\ consumed = {}
    /\ activeJtis = [f \in Families |-> {}]
    /\ jwts = {}
    /\ expired = {}
    /\ mintedFamilies = {}
    /\ mintedJtis = {}
    /\ pc = [r \in Requests |-> "idle"]
    /\ tok = [r \in Requests |-> Nil]
    /\ newJti = [r \in Requests |-> Nil]
    /\ members = [r \in Requests |-> {}]
    /\ todo = [r \in Requests |-> {}]
    /\ failed = [r \in Requests |-> FALSE]
    /\ parent = [j \in Jtis |-> Nil]
    /\ spent = {}

------------------------------------------------------------------------------
(* Requests arrive. *)

\* login: the user row is read and the password verified, then issueTokens
\* mints a family and rotateTokens its first jti.  A user who is off is refused, and nothing
\* happens.
LoginStart(r, u) ==
    /\ pc[r] = "idle"
    /\ \E f \in Families \ mintedFamilies, j \in Jtis \ mintedJtis :
        /\ mintedFamilies' = mintedFamilies \cup {f}
        /\ mintedJtis' = mintedJtis \cup {j}
        /\ tok' = [tok EXCEPT ![r] = [user |-> u, family |-> f, jti |-> Nil]]
        /\ newJti' = [newJti EXCEPT ![r] = j]
    /\ pc' = [pc EXCEPT ![r] = "set"]
    /\ UNCHANGED <<redisVars, clientVars, parent, members, todo, failed, spent>>

\* refresh and logout: validateRefreshToken accepts a JWT that has not expired.
Present(r, t, step) ==
    /\ pc[r] = "idle"
    /\ t.jti \notin expired
    /\ tok' = [tok EXCEPT ![r] = t]
    /\ pc' = [pc EXCEPT ![r] = step]
    /\ UNCHANGED <<redisVars, clientVars, mintVars, newJti, members, todo, failed, spent>>

RefreshStart(r, t) == Present(r, t, "load")

LogoutStart(r, t) == Present(r, t, "logoutDel")

\* refresh reads the user row: a user who is inactive or deleted at that moment, as those of
\* Switched may be at any moment, loses the family.
LoadUser(r) ==
    /\ pc[r] = "load"
    /\ \/ Goto(r, "getdel")
       \/ tok[r].user \in Switched /\ Goto(r, "smembers")
    /\ UNCHANGED <<redisVars, clientVars, mintVars, spent>>

------------------------------------------------------------------------------
(* rotateRefreshToken: GETDEL decides who rotates. *)

\* Variant: what counts is that no other session has the entry.
GetDelFree(r) ==
    /\ allow[tok[r].jti] \in {Nil, EntryOf(tok[r])}
    /\ \E j \in Jtis \ mintedJtis :
        /\ mintedJtis' = mintedJtis \cup {j}
        /\ newJti' = [newJti EXCEPT ![r] = j]
        /\ parent' = [parent EXCEPT ![j] = tok[r].jti]
    /\ pc' = [pc EXCEPT ![r] = "mark"]
    /\ UNCHANGED <<mintedFamilies, tok, members, todo, failed>>

\* The entry is there and names this user and family: mint the successor.
GetDelHit(r) ==
    /\ allow[tok[r].jti] = EntryOf(tok[r])
    /\ \E j \in Jtis \ mintedJtis :
        /\ mintedJtis' = mintedJtis \cup {j}
        /\ newJti' = [newJti EXCEPT ![r] = j]
        /\ parent' = [parent EXCEPT ![j] = tok[r].jti]
    /\ pc' = [pc EXCEPT ![r] = "mark"]
    /\ UNCHANGED <<mintedFamilies, tok, members, todo, failed>>

\* No entry: look for the consumed marker.  Another user's or family's entry:
\* it is gone now, and the request ends with 401.
GetDelMiss(r) ==
    /\ allow[tok[r].jti] # EntryOf(tok[r])
    /\ IF allow[tok[r].jti] = Nil THEN Goto(r, "marker") ELSE End(r)
    /\ UNCHANGED mintVars

\* Variant: GET where the code has GETDEL.
GetOnly(r) ==
    /\ pc[r] = "getdel"
    /\ GetDelHit(r) \/ GetDelMiss(r)
    /\ UNCHANGED <<redisVars, clientVars, spent>>

GetDel(r) ==
    /\ pc[r] = "getdel"
    /\ Drop(tok[r].jti)
    /\ GetDelHit(r) \/ GetDelMiss(r)
    /\ UNCHANGED <<consumed, activeJtis, clientVars>>

\* GETDEL has run, its reply is lost with the connection, and the client
\* library sends it again.
GetDelReplyLost(r) ==
    /\ Faults
    /\ pc[r] = "getdel"
    /\ allow[tok[r].jti] # Nil
    /\ Drop(tok[r].jti)
    /\ UNCHANGED <<consumed, activeJtis, clientVars, mintVars, reqVars>>

\* GET of the consumed marker: present means reuse, absent ends with 401.
ReadMarker(r) ==
    /\ pc[r] = "marker"
    /\ IF <<tok[r].family, tok[r].jti>> \in consumed THEN Goto(r, "smembers") ELSE End(r)
    /\ UNCHANGED <<redisVars, clientVars, mintVars, spent>>

------------------------------------------------------------------------------
(* revokeFamily: SMEMBERS, then one DEL for each member and one for the set. *)

StartDeleting(r, jtis) ==
    /\ pc[r] = "smembers"
    /\ members' = [members EXCEPT ![r] = jtis]
    /\ todo' = [todo EXCEPT ![r] = jtis]
    /\ pc' = [pc EXCEPT ![r] = "revoke"]
    /\ UNCHANGED <<redisVars, clientVars, mintVars, tok, newJti, failed, spent>>

\* Variant: only the presented token is revoked.
ReadPresented(r) == StartDeleting(r, {tok[r].jti})

ReadActive(r) == StartDeleting(r, activeJtis[tok[r].family])

RevokeOne(r, j) ==
    /\ pc[r] = "revoke"
    /\ j \in todo[r]
    /\ todo' = [todo EXCEPT ![r] = @ \ {j}]
    /\ \/ Drop(j) /\ UNCHANGED failed
       \/ Faults /\ failed' = [failed EXCEPT ![r] = TRUE] /\ UNCHANGED <<allow, spent>>
    /\ UNCHANGED <<consumed, activeJtis, clientVars, mintVars, pc, tok, newJti, members>>

\* The DEL of the set is the last command, or the only one.
RevokeSet(r) ==
    /\ pc[r] = "revoke"
    /\ todo[r] = {}
    /\ pc' = [pc EXCEPT ![r] = "revokeReply"]
    /\ \/ activeJtis' = [activeJtis EXCEPT ![tok[r].family] = {}] /\ UNCHANGED failed
       \/ Faults /\ failed' = [failed EXCEPT ![r] = TRUE] /\ UNCHANGED activeJtis
    /\ UNCHANGED <<allow, consumed, clientVars, mintVars, tok, newJti, members, todo, spent>>

\* The connection is lost before the first reply: every DEL is sent again, for the jtis
\* read then, whatever has been added to the set since.
ResendRevocation(r) ==
    /\ Faults
    /\ Revoking(r)
    /\ pc' = [pc EXCEPT ![r] = "revoke"]
    /\ todo' = [todo EXCEPT ![r] = members[r]]
    /\ failed' = [failed EXCEPT ![r] = FALSE]
    /\ UNCHANGED <<redisVars, clientVars, mintVars, tok, newJti, members, spent>>

\* assertPipelineResults throws if a command has failed: the client gets 401 or 500.
RevokeReply(r) ==
    /\ pc[r] = "revokeReply"
    /\ End(r)
    /\ UNCHANGED <<redisVars, clientVars, mintVars, spent>>

------------------------------------------------------------------------------
(* The pipelines of rotateTokens, rotateRefreshToken and revokeRefreshToken. *)

Mark(r) ==
    /\ pc[r] = "mark"
    /\ consumed' = consumed \cup {<<tok[r].family, tok[r].jti>>}
    /\ Goto(r, After(r))
    /\ UNCHANGED <<allow, activeJtis, clientVars, mintVars, spent>>

\* Variant: the entry is written under the jti that was presented.
SetPresentedEntry(r) ==
    /\ pc[r] = "set"
    /\ LET j == IF IsRotation(r) THEN tok[r].jti ELSE newJti[r]
       IN  allow' = [allow EXCEPT ![j] = EntryOf(tok[r])]
    /\ Goto(r, After(r))
    /\ UNCHANGED <<consumed, activeJtis, clientVars, mintVars, spent>>

SetEntry(r) ==
    /\ pc[r] = "set"
    /\ allow' = [allow EXCEPT ![newJti[r]] = EntryOf(tok[r])]
    /\ Goto(r, After(r))
    /\ UNCHANGED <<consumed, activeJtis, clientVars, mintVars, spent>>

\* Variant: the presented jti is added, not the new one.
AddPresented(r) ==
    /\ pc[r] = "sadd"
    /\ activeJtis' = [activeJtis EXCEPT ![tok[r].family] = @ \cup {tok[r].jti}]
    /\ Goto(r, After(r))
    /\ UNCHANGED <<allow, consumed, clientVars, mintVars, spent>>

\* Variant: only a login adds to the set.
AddFirst(r) ==
    /\ pc[r] = "sadd"
    /\ activeJtis' = IF IsRotation(r) THEN activeJtis
                     ELSE [activeJtis EXCEPT ![tok[r].family] = @ \cup {newJti[r]}]
    /\ Goto(r, After(r))
    /\ UNCHANGED <<allow, consumed, clientVars, mintVars, spent>>

AddActive(r) ==
    /\ pc[r] = "sadd"
    /\ activeJtis' = [activeJtis EXCEPT ![tok[r].family] = @ \cup {newJti[r]}]
    /\ Goto(r, After(r))
    /\ UNCHANGED <<allow, consumed, clientVars, mintVars, spent>>

RemoveActive(r) ==
    /\ pc[r] \in {"srem", "logoutSrem"}
    /\ activeJtis' = [activeJtis EXCEPT ![tok[r].family] = @ \ {tok[r].jti}]
    /\ Goto(r, After(r))
    /\ UNCHANGED <<allow, consumed, clientVars, mintVars, spent>>

DeleteEntry(r) ==
    /\ pc[r] = "logoutDel"
    /\ Drop(tok[r].jti)
    /\ Goto(r, After(r))
    /\ UNCHANGED <<consumed, activeJtis, clientVars, mintVars>>

\* A command fails; the pipeline goes on with the next one.
CommandFails(r) ==
    /\ Faults
    /\ pc[r] \in Commands
    /\ failed' = [failed EXCEPT ![r] = TRUE]
    /\ pc' = [pc EXCEPT ![r] = After(r)]
    /\ UNCHANGED <<redisVars, clientVars, mintVars, tok, newJti, members, todo, spent>>

\* The connection is lost before the first reply of a rotation, login or logout; the
\* client library sends the whole pipeline again.
Resend(r) ==
    /\ Faults
    /\ \/ pc[r] \in {"set", "sadd", "srem", "reply"}
          /\ pc' = [pc EXCEPT ![r] = IF IsRotation(r) THEN "mark" ELSE "set"]
       \/ pc[r] \in {"logoutSrem", "logoutReply"}
          /\ pc' = [pc EXCEPT ![r] = "logoutDel"]
    /\ failed' = [failed EXCEPT ![r] = FALSE]
    /\ UNCHANGED <<redisVars, clientVars, mintVars, tok, newJti, members, todo, spent>>

\* Variant: the results of the pipeline are not looked at.
ReplyUnchecked(r) ==
    /\ pc[r] = "reply"
    /\ jwts' = jwts \cup {[tok[r] EXCEPT !.jti = newJti[r]]}
    /\ End(r)
    /\ UNCHANGED <<redisVars, expired, mintVars, spent>>

\* EXPIRE of the active set is the last command of the pipeline; then
\* assertPipelineResults throws unless every command has succeeded, and only
\* then is the JWT signed and returned.
Reply(r) ==
    /\ pc[r] = "reply"
    /\ \/ /\ ~failed[r]
          /\ jwts' = jwts \cup {[tok[r] EXCEPT !.jti = newJti[r]]}
       \/ (Faults \/ failed[r]) /\ UNCHANGED jwts
    /\ End(r)
    /\ UNCHANGED <<redisVars, expired, mintVars, spent>>

LogoutReply(r) ==
    /\ pc[r] = "logoutReply"
    /\ End(r)
    /\ UNCHANGED <<redisVars, clientVars, mintVars, spent>>

\* The process dies, or the connection is lost with some replies received.
Crash(r) ==
    /\ Faults
    /\ pc[r] # "idle"
    /\ End(r)
    /\ UNCHANGED <<redisVars, clientVars, mintVars, spent>>

------------------------------------------------------------------------------
(* The environment. *)

\* rt:{jti} reaches its TTL.
EntryExpires(j) ==
    /\ allow[j] # Nil
    /\ Drop(j)
    /\ UNCHANGED <<consumed, activeJtis, clientVars, mintVars, reqVars>>

\* A JWT reaches its exp.
JwtExpires(j) ==
    /\ j \in Delivered \ expired
    /\ expired' = expired \cup {j}
    /\ UNCHANGED <<redisVars, jwts, mintVars, reqVars, spent>>

\* The consumed marker was set, with the JWT's own lifetime, after the JWT was
\* signed: it outlives the JWT.
MarkerExpires(f, j) ==
    /\ <<f, j>> \in consumed
    /\ j \in expired
    /\ consumed' = consumed \ {<<f, j>>}
    /\ UNCHANGED <<allow, activeJtis, clientVars, mintVars, reqVars, spent>>

\* EXPIRE comes after the SET of the token: the active set outlives the entry of
\* every token that is delivered, and until the EXPIRE of a login it has no TTL.  In a
\* rotation its TTL is that of the token before, and may run out ahead of EXPIRE.
ActiveExpires(f) ==
    /\ activeJtis[f] # {}
    /\ \A j \in activeJtis[f] :
        j \in Delivered \/ (\E r \in Requests : newJti[r] = j /\ ~IsRotation(r)) => allow[j] = Nil
    /\ activeJtis' = [activeJtis EXCEPT ![f] = {}]
    /\ UNCHANGED <<allow, consumed, clientVars, mintVars, reqVars, spent>>

------------------------------------------------------------------------------
RequestStep(r) ==
    \/ \E u \in Users : LoginStart(r, u)
    \/ \E t \in jwts : RefreshStart(r, t) \/ LogoutStart(r, t)
    \/ LoadUser(r)
    \/ GetDel(r)
    \/ GetDelReplyLost(r)
    \/ ReadMarker(r)
    \/ ReadActive(r)
    \/ \E j \in Jtis : RevokeOne(r, j)
    \/ RevokeSet(r)
    \/ ResendRevocation(r)
    \/ RevokeReply(r)
    \/ Mark(r)
    \/ SetEntry(r)
    \/ AddActive(r)
    \/ RemoveActive(r)
    \/ DeleteEntry(r)
    \/ CommandFails(r)
    \/ Resend(r)
    \/ Reply(r)
    \/ LogoutReply(r)
    \/ Crash(r)

Environment ==
    \/ \E j \in Jtis : EntryExpires(j) \/ JwtExpires(j)
    \/ \E f \in Families, j \in Jtis : MarkerExpires(f, j)
    \/ \E f \in Families : ActiveExpires(f)

Next == Environment \/ \E r \in Requests : RequestStep(r)

Spec == Init /\ [][Next]_vars

------------------------------------------------------------------------------
(* Properties. *)

StoreType ==
    /\ allow \in [Jtis -> Entry \cup {Nil}]
    /\ consumed \subseteq Families \X Jtis
    /\ activeJtis \in [Families -> SUBSET Jtis]
    /\ jwts \subseteq Token
    /\ expired \subseteq Jtis
    /\ mintedFamilies \subseteq Families
    /\ mintedJtis \subseteq Jtis
    /\ parent \in [Jtis -> Jtis \cup {Nil}]
    /\ spent \subseteq Jtis

RequestType ==
    /\ pc \in [Requests -> Steps]
    /\ tok \in [Requests -> Token \cup Login \cup {Nil}]
    /\ newJti \in [Requests -> Jtis \cup {Nil}]
    /\ members \in [Requests -> SUBSET Jtis]
    /\ todo \in [Requests -> SUBSET Jtis]
    /\ failed \in [Requests -> BOOLEAN]

\* Every variable has its type (the Redis keys and values of token.service.ts:58-61).
TypeOK == StoreType /\ RequestType

\* A family never has two tokens on the allowlist, however refreshes, logouts,
\* revocations, crashes and resent pipelines interleave (the rotation of
\* token.service.ts:100-144).
OneLiveTokenPerFamily ==
    \A j, k \in Jtis :
        (allow[j] # Nil /\ allow[k] # Nil /\ allow[j].family = allow[k].family) => j = k

\* Two refreshes never rotate the same token: a token has at most one successor
\* ("only ONE concurrent caller can proceed", token.service.ts:93-95).
OneSuccessorPerToken ==
    \A j, k \in Jtis : (parent[j] # Nil /\ parent[j] = parent[k]) => j = k

\* Once a client holds the successor of a token, a replay of that token is seen
\* as reuse for as long as its JWT verifies, whatever failed on the way
\* (the consumed marker of token.service.ts:115 and :133).
ReplayIsDetectable ==
    \A t, s \in jwts :
        (parent[s.jti] = t.jti /\ t.jti \notin expired) => <<t.family, t.jti>> \in consumed

\* A token that left the allowlist while a client held it, by rotation, logout,
\* revocation or expiry, is never on the allowlist again
\* (token.service.ts:108, :176 and :191).
SpentStaysSpent == \A j \in spent : allow[j] = Nil

\* The entry of a token names the user and the family its JWT names: the mismatch
\* branch of token.service.ts:125 never meets a token this service has signed.
EntryMatchesToken ==
    \A t \in jwts : allow[t.jti] \in {Nil, EntryOf(t)}

\* Nothing of the family is on the allowlist, or on its way there.
Dead(f) ==
    /\ f \in mintedFamilies
    /\ \A j \in Jtis : allow[j] # Nil => allow[j].family # f
    /\ \A r \in Requests : newJti[r] # Nil => tok[r].family # f

\* A dead family stays dead: whatever of it clients present, whatever is sent again and
\* however late, its user has to log in anew (token.service.ts:108-137).
DeadStaysDead == [][\A f \in Families : Dead(f) => Dead(f)']_vars

\* When the revocation of a family has succeeded, the allowlist accepts no token a client
\* holds of it (README.md:562).
RevokedFamilyIsDead ==
    \A r \in Requests : pc[r] = "revokeReply" /\ ~failed[r] =>
        \A t \in jwts : t.family = tok[r].family => allow[t.jti] = Nil
==============================================================================
