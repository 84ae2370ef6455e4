------------------------- MODULE RefreshTokensProofs -------------------------
(***************************************************************************)
(* What RefreshTokens guarantees for every number of users, families,      *)
(* tokens and concurrent requests, with and without faults.                *)
(***************************************************************************)
EXTENDS Revocation, TLAPS

------------------------------------------------------------------------------
(* The inductive invariant.                                                *)
(*                                                                         *)
(* A request that is issuing a token owns its family: no other request     *)
(* issues in that family, and no other token of the family is live.        *)

Issuing(r) == pc[r] \in {"mark", "set", "sadd", "srem", "reply"}

\* What a request carries at each step.
Carries ==
    \A r \in Requests :
        /\ tok[r] = Nil <=> pc[r] = "idle"
        /\ newJti[r] = Nil <=> ~Issuing(r)
        /\ tok[r] \in jwts \cup Login \cup {Nil}
        /\ pc[r] \notin {"idle", "set", "sadd", "reply"} => tok[r] \in jwts
        /\ todo[r] \subseteq members[r]

\* uuid never repeats itself.
Minted ==
    /\ \A j \in Jtis :
        allow[j] # Nil => j \in mintedJtis /\ allow[j].family \in mintedFamilies
    /\ \A j \in Jtis : parent[j] # Nil => j \in mintedJtis /\ parent[j] \in spent
    /\ \A t \in jwts : t.jti \in mintedJtis /\ t.family \in mintedFamilies
    /\ \A r \in Requests : tok[r] # Nil => tok[r].family \in mintedFamilies
    /\ \A r \in Requests : newJti[r] # Nil => newJti[r] \in mintedJtis \ Delivered
    /\ \A r, q \in Requests : newJti[r] # Nil /\ newJti[r] = newJti[q] => r = q
    /\ spent \subseteq Delivered
    /\ \A s, t \in jwts : s.jti = t.jti => s = t

\* The request that issues owns the family.
Owner ==
    /\ \A r, q \in Requests :
        newJti[r] # Nil /\ newJti[q] # Nil /\ tok[r].family = tok[q].family => r = q
    /\ \A r \in Requests, j \in Jtis :
        newJti[r] # Nil /\ allow[j] # Nil /\ allow[j].family = tok[r].family
            => j = newJti[r]

\* The token presented in a rotation is marked, unless a command has failed.
Marked(r) ==
    (pc[r] # "mark" /\ ~failed[r] /\ IsRotation(r) /\ tok[r].jti \notin expired)
        => <<tok[r].family, tok[r].jti>> \in consumed

\* What is known of the token being issued.
Pending ==
    \A r \in Requests : newJti[r] # Nil =>
        /\ allow[newJti[r]] \in {Nil, EntryOf(tok[r])}
        /\ parent[newJti[r]] = tok[r].jti
        /\ Marked(r)

Safety ==
    /\ OneLiveTokenPerFamily
    /\ OneSuccessorPerToken
    /\ ReplayIsDetectable
    /\ SpentStaysSpent
    /\ EntryMatchesToken

IInv == TypeOK /\ Carries /\ Minted /\ Owner /\ Pending /\ Safety

------------------------------------------------------------------------------
(* Type correctness, together with what the requests carry. *)

USE DEF redisVars, clientVars, mintVars, reqVars, Revoking

\* A request at a pipeline command goes on to a later step of the pipeline.
LEMMA AfterStep ==
    ASSUME NEW r \in Requests, pc[r] \in Commands
    PROVE  /\ After(r) \in Steps \ {"idle", "mark"}
           /\ pc[r] \in {"mark", "set", "sadd", "srem"} =>
                 After(r) \in {"set", "sadd", "srem", "reply"}
           /\ pc[r] \in {"logoutDel", "logoutSrem"} =>
                 After(r) \in {"logoutSrem", "logoutReply"}
           /\ After(r) = "srem" => IsRotation(r)
BY DEF After, Commands, Steps

\* A request that has started has a user and a family; one that presented a token
\* has its jti.
LEMMA TokType ==
    ASSUME TypeOK, Carries, NEW r \in Requests, pc[r] # "idle"
    PROVE  /\ tok[r] \in Token \cup Login
           /\ tok[r].user \in Users
           /\ tok[r].family \in Families
           /\ EntryOf(tok[r]) \in Entry
           /\ pc[r] \notin {"set", "sadd", "reply"} => tok[r].jti \in Jtis
           /\ IsRotation(r) => tok[r].jti \in Jtis /\ tok[r] \in jwts
           /\ Issuing(r) => newJti[r] \in Jtis
<1>1. tok[r] \in Token \cup Login
  BY DEF TypeOK, StoreType, RequestType, Carries
<1>2. tok[r].user \in Users /\ tok[r].family \in Families
  BY <1>1 DEF Token, Login
<1>3. EntryOf(tok[r]) \in Entry
  BY <1>2 DEF EntryOf, Entry
<1>4. pc[r] \notin {"set", "sadd", "reply"} => tok[r] \in Token
  BY DEF Carries, TypeOK, StoreType
<1>5. IsRotation(r) => tok[r] \in Token /\ tok[r] \in jwts
  BY <1>1, NilAssumption DEF Carries, IsRotation, Login, Token
<1>6. Issuing(r) => newJti[r] \in Jtis
  BY DEF Carries, TypeOK, RequestType
<1> QED
  BY <1>1, <1>2, <1>3, <1>4, <1>5, <1>6 DEF Token

\* The end of a request leaves its variables well typed.
LEMMA EndType ==
    ASSUME RequestType, Carries, NEW r \in Requests, End(r), jwts \subseteq jwts'
    PROVE  RequestType' /\ Carries'
<1>1. RequestType'
  BY DEF RequestType, End, Steps
<1>2. Carries'
  BY NilAssumption DEF Carries, RequestType, End, Issuing
<1> QED
  BY <1>1, <1>2

\* Moving on without touching the request's other variables keeps both, as long as
\* the next step expects no more than the present one.
LEMMA GotoType ==
    ASSUME RequestType, Carries, NEW r \in Requests, NEW step \in Steps \ {"idle"},
           pc' = [pc EXCEPT ![r] = step], pc[r] # "idle",
           UNCHANGED <<tok, newJti, members, todo>>, failed' \in [Requests -> BOOLEAN],
           step \in {"mark", "set", "sadd", "srem", "reply"} <=> Issuing(r),
           step \in {"set", "sadd", "reply"} \/ tok[r] \in jwts,
           jwts' = jwts
    PROVE  RequestType' /\ Carries'
<1>1. RequestType'
  BY DEF RequestType
<1>2. Carries'
  BY NilAssumption DEF Carries, RequestType, Issuing
<1> QED
  BY <1>1, <1>2

\* The pipeline commands.
LEMMA CommandType ==
    ASSUME TypeOK, Carries, NEW r \in Requests, pc[r] \in Commands,
           pc' = [pc EXCEPT ![r] = After(r)],
           UNCHANGED <<tok, newJti, members, todo>>, failed' \in [Requests -> BOOLEAN], jwts' = jwts
    PROVE  RequestType' /\ Carries'
<1>1. After(r) \in Steps \ {"idle"}
  BY AfterStep
<1>2. After(r) \in {"mark", "set", "sadd", "srem", "reply"} <=> Issuing(r)
  BY AfterStep DEF Issuing, Commands
<1>3. After(r) \in {"set", "sadd", "reply"} \/ tok[r] \in jwts
  <2>1. CASE pc[r] \in {"mark", "set", "sadd", "srem"}
    BY <2>1, AfterStep, TokType
  <2>2. CASE pc[r] \in {"logoutDel", "logoutSrem"}
    BY <2>2 DEF Carries
  <2> QED
    BY <2>1, <2>2 DEF Commands
<1> QED
  BY <1>1, <1>2, <1>3, GotoType DEF TypeOK, Commands

LEMMA RequestStepType ==
    ASSUME TypeOK, Carries, NEW r \in Requests, RequestStep(r)
    PROVE  TypeOK' /\ Carries'
<1>1. ASSUME NEW u \in Users, LoginStart(r, u) PROVE TypeOK' /\ Carries'
  <2> PICK f \in Families \ mintedFamilies, j \in Jtis \ mintedJtis :
        /\ mintedFamilies' = mintedFamilies \cup {f}
        /\ mintedJtis' = mintedJtis \cup {j}
        /\ tok' = [tok EXCEPT ![r] = [user |-> u, family |-> f, jti |-> Nil]]
        /\ newJti' = [newJti EXCEPT ![r] = j]
    BY <1>1 DEF LoginStart
  <2>1. [user |-> u, family |-> f, jti |-> Nil] \in Login
    BY DEF Login
  <2>2. [user |-> u, family |-> f, jti |-> Nil] # Nil
    BY NilAssumption
  <2>3. RequestType'
    BY <1>1, <2>1 DEF LoginStart, TypeOK, RequestType, Steps, Commands
  <2>4. Carries'
    BY <1>1, <2>1, <2>2, NilAssumption
    DEF LoginStart, Carries, TypeOK, RequestType, Issuing
  <2>5. StoreType'
    BY <1>1 DEF LoginStart, TypeOK, StoreType
  <2> QED
    BY <2>3, <2>4, <2>5 DEF TypeOK
<1>2. ASSUME NEW t \in jwts, RefreshStart(r, t) \/ LogoutStart(r, t)
      PROVE  TypeOK' /\ Carries'
  <2>1. StoreType'
    BY <1>2 DEF RefreshStart, LogoutStart, Present, TypeOK, StoreType
  <2>2. t \in Token /\ t # Nil
    BY NilAssumption DEF TypeOK, StoreType, Token
  <2>3. RequestType'
    BY <1>2, <2>2
    DEF RefreshStart, LogoutStart, Present, TypeOK, RequestType, Steps, Commands
  <2>4. Carries'
    BY <1>2, <2>2
    DEF RefreshStart, LogoutStart, Present, Carries, TypeOK, RequestType, Issuing
  <2> QED
    BY <2>1, <2>3, <2>4 DEF TypeOK
<1>3. CASE LoadUser(r)
  <2>1. StoreType'
    BY <1>3 DEF LoadUser, TypeOK, StoreType
  <2>2. RequestType' /\ Carries'
    BY <1>3, GotoType DEF LoadUser, Goto, TypeOK, RequestType, Carries, Issuing, Steps
  <2> QED
    BY <2>1, <2>2 DEF TypeOK
<1>4. CASE GetDel(r)
  <2>1. pc[r] = "getdel" /\ tok[r].jti \in Jtis /\ tok[r] \in jwts /\ jwts' = jwts
    BY <1>4, TokType DEF GetDel, Carries
  <2>2. allow' \in [Jtis -> Entry \cup {Nil}] /\ spent' \subseteq Jtis
    BY <1>4, <2>1 DEF GetDel, Drop, TypeOK, StoreType, Delivered
  <2>3. CASE GetDelHit(r)
    <3>1. StoreType'
      BY <1>4, <2>1, <2>2, <2>3 DEF GetDel, GetDelHit, TypeOK, StoreType
    <3>2. RequestType'
      BY <2>3 DEF GetDelHit, TypeOK, RequestType, Steps, Commands
    <3>3. Carries'
      BY <2>1, <2>3, NilAssumption DEF GetDelHit, Carries, TypeOK, RequestType, Issuing
    <3> QED
      BY <3>1, <3>2, <3>3 DEF TypeOK
  <2>4. CASE GetDelMiss(r)
    <3>1. StoreType'
      BY <1>4, <2>2, <2>4 DEF GetDel, GetDelMiss, TypeOK, StoreType
    <3>2. CASE Goto(r, "marker")
      BY <2>1, <3>1, <3>2, GotoType DEF Goto, TypeOK, RequestType, Issuing, Steps
    <3>3. CASE End(r)
      BY <2>1, <3>1, <3>3, EndType DEF TypeOK
    <3> QED
      BY <2>4, <3>2, <3>3 DEF GetDelMiss
  <2> QED
    BY <1>4, <2>3, <2>4 DEF GetDel
<1>5. CASE GetDelReplyLost(r)
  <2>1. tok[r].jti \in Jtis
    BY <1>5, TokType DEF GetDelReplyLost
  <2>2. StoreType'
    BY <1>5, <2>1 DEF GetDelReplyLost, Drop, TypeOK, StoreType, Delivered
  <2>3. RequestType' /\ Carries'
    BY <1>5 DEF GetDelReplyLost, TypeOK, RequestType, Carries, Issuing
  <2> QED
    BY <2>2, <2>3 DEF TypeOK
<1>6. CASE ReadMarker(r)
  <2>1. StoreType'
    BY <1>6 DEF ReadMarker, TypeOK, StoreType
  <2>2. pc[r] = "marker" /\ tok[r] \in jwts /\ jwts' = jwts
    BY <1>6 DEF ReadMarker, Carries
  <2>3. CASE Goto(r, "smembers")
    BY <2>1, <2>2, <2>3, GotoType DEF Goto, TypeOK, RequestType, Issuing, Steps
  <2>4. CASE End(r)
    BY <2>1, <2>2, <2>4, EndType DEF TypeOK
  <2> QED
    BY <1>6, <2>3, <2>4 DEF ReadMarker
<1>7. CASE ReadActive(r)
  <2>1. StoreType'
    BY <1>7 DEF ReadActive, StartDeleting, TypeOK, StoreType
  <2>2. tok[r].family \in Families
    BY <1>7, TokType DEF ReadActive, StartDeleting
  <2>3. RequestType'
    BY <1>7, <2>2 DEF ReadActive, StartDeleting, TypeOK, StoreType, RequestType, Steps
  <2>4. Carries'
    BY <1>7 DEF ReadActive, StartDeleting, TypeOK, RequestType, Carries, Issuing
  <2> QED
    BY <2>1, <2>3, <2>4 DEF TypeOK
<1>8. ASSUME NEW j \in Jtis, RevokeOne(r, j) PROVE TypeOK' /\ Carries'
  <2>1. StoreType'
    BY <1>8 DEF RevokeOne, Drop, TypeOK, StoreType, Delivered
  <2>2. RequestType'
    BY <1>8 DEF RevokeOne, TypeOK, RequestType
  <2>3. Carries'
    BY <1>8 DEF RevokeOne, TypeOK, RequestType, Carries, Issuing
  <2> QED
    BY <2>1, <2>2, <2>3 DEF TypeOK
<1>9. CASE RevokeSet(r)
  <2>1. tok[r].family \in Families
    BY <1>9, TokType DEF RevokeSet
  <2>2. StoreType'
    BY <1>9, <2>1 DEF RevokeSet, TypeOK, StoreType
  <2>3. failed' \in [Requests -> BOOLEAN] /\ pc[r] = "revoke" /\ tok[r] \in jwts
    BY <1>9 DEF RevokeSet, TypeOK, RequestType, Carries
  <2>4. RequestType' /\ Carries'
    BY <1>9, <2>3, GotoType DEF RevokeSet, TypeOK, Issuing, Steps
  <2> QED
    BY <2>2, <2>4 DEF TypeOK
<1>10. CASE Mark(r)
  <2>1. pc[r] = "mark" /\ tok[r].family \in Families /\ tok[r].jti \in Jtis
    BY <1>10, TokType DEF Mark
  <2>2. StoreType'
    BY <1>10, <2>1 DEF Mark, TypeOK, StoreType
  <2>3. RequestType' /\ Carries'
    BY <1>10, <2>1, CommandType DEF Mark, Goto, TypeOK, RequestType, Commands
  <2> QED
    BY <2>2, <2>3 DEF TypeOK
<1>11. CASE SetEntry(r)
  <2>1. pc[r] = "set" /\ EntryOf(tok[r]) \in Entry
    BY <1>11, TokType DEF SetEntry
  <2>2. StoreType'
    BY <1>11, <2>1 DEF SetEntry, TypeOK, StoreType
  <2>3. RequestType' /\ Carries'
    BY <1>11, <2>1, CommandType DEF SetEntry, Goto, TypeOK, RequestType, Commands
  <2> QED
    BY <2>2, <2>3 DEF TypeOK
<1>12. CASE AddActive(r)
  <2>1. pc[r] = "sadd" /\ newJti[r] \in Jtis
    BY <1>12, TokType DEF AddActive, Issuing
  <2>2. StoreType'
    BY <1>12, <2>1 DEF AddActive, TypeOK, StoreType
  <2>3. RequestType' /\ Carries'
    BY <1>12, <2>1, CommandType DEF AddActive, Goto, TypeOK, RequestType, Commands
  <2> QED
    BY <2>2, <2>3 DEF TypeOK
<1>13. CASE RemoveActive(r)
  <2>1. StoreType'
    BY <1>13 DEF RemoveActive, TypeOK, StoreType
  <2>2. RequestType' /\ Carries'
    BY <1>13, CommandType DEF RemoveActive, Goto, TypeOK, RequestType, Commands
  <2> QED
    BY <2>1, <2>2 DEF TypeOK
<1>14. CASE DeleteEntry(r)
  <2>1. tok[r].jti \in Jtis
    BY <1>14, TokType DEF DeleteEntry
  <2>2. StoreType'
    BY <1>14, <2>1 DEF DeleteEntry, Drop, TypeOK, StoreType, Delivered
  <2>3. RequestType' /\ Carries'
    BY <1>14, CommandType DEF DeleteEntry, Goto, TypeOK, RequestType, Commands
  <2> QED
    BY <2>2, <2>3 DEF TypeOK
<1>15. CASE CommandFails(r)
  <2>1. StoreType'
    BY <1>15 DEF CommandFails, TypeOK, StoreType
  <2>2. RequestType' /\ Carries'
    BY <1>15, CommandType DEF CommandFails, TypeOK, RequestType
  <2> QED
    BY <2>1, <2>2 DEF TypeOK
<1>16. CASE Resend(r)
  <2>1. StoreType'
    BY <1>16 DEF Resend, TypeOK, StoreType
  <2>2. failed' \in [Requests -> BOOLEAN]
    BY <1>16 DEF Resend, TypeOK, RequestType
  <2>3. CASE pc[r] \in {"set", "sadd", "srem", "reply"}
    <3>1. IsRotation(r) => tok[r] \in jwts
      BY <2>3, TokType
    <3> QED
      BY <1>16, <2>1, <2>2, <2>3, <3>1, GotoType DEF Resend, TypeOK, Issuing, Steps, Commands
  <2>4. CASE pc[r] \in {"logoutSrem", "logoutReply"}
    <3>1. tok[r] \in jwts
      BY <2>4 DEF Carries
    <3> QED
      BY <1>16, <2>1, <2>2, <2>4, <3>1, GotoType DEF Resend, TypeOK, Issuing, Steps, Commands
  <2> QED
    BY <1>16, <2>3, <2>4 DEF Resend
<1>17. CASE Reply(r)
  <2>1. tok[r] \in Token \cup Login /\ newJti[r] \in Jtis
    BY <1>17, TokType DEF Reply, Issuing
  <2>2. [tok[r] EXCEPT !.jti = newJti[r]] \in Token
    BY <2>1 DEF Token, Login
  <2>3. StoreType'
    BY <1>17, <2>2 DEF Reply, TypeOK, StoreType
  <2>4. RequestType' /\ Carries'
    BY <1>17, EndType DEF Reply, TypeOK
  <2> QED
    BY <2>3, <2>4 DEF TypeOK
<1>18. CASE RevokeReply(r) \/ LogoutReply(r) \/ Crash(r)
  <2>1. StoreType'
    BY <1>18 DEF RevokeReply, LogoutReply, Crash, TypeOK, StoreType
  <2>2. RequestType' /\ Carries'
    BY <1>18, EndType DEF RevokeReply, LogoutReply, Crash, TypeOK
  <2> QED
    BY <2>1, <2>2 DEF TypeOK
<1>19. CASE ResendRevocation(r)
  <2>1. StoreType'
    BY <1>19 DEF ResendRevocation, TypeOK, StoreType
  <2>2. RequestType'
    BY <1>19 DEF ResendRevocation, TypeOK, RequestType, Steps
  <2>3. Carries'
    BY <1>19 DEF ResendRevocation, TypeOK, RequestType, Carries, Issuing
  <2> QED
    BY <2>1, <2>2, <2>3 DEF TypeOK
<1> QED
  BY <1>1, <1>2, <1>3, <1>4, <1>5, <1>6, <1>7, <1>8, <1>9, <1>10, <1>11, <1>12,
     <1>13, <1>14, <1>15, <1>16, <1>17, <1>18, <1>19 DEF RequestStep

LEMMA EnvironmentType ==
    ASSUME TypeOK, Carries, Environment \/ UNCHANGED vars
    PROVE  TypeOK' /\ Carries'
<1>1. RequestType' /\ Carries'
  BY DEF Environment, EntryExpires, JwtExpires, MarkerExpires, ActiveExpires,
         vars, TypeOK, RequestType, Carries, Issuing
<1>2. StoreType'
  <2>1. ASSUME NEW j \in Jtis, EntryExpires(j) PROVE StoreType'
    BY <2>1 DEF EntryExpires, Drop, TypeOK, StoreType
  <2>2. ASSUME NEW j \in Jtis, JwtExpires(j) PROVE StoreType'
    BY <2>2 DEF JwtExpires, TypeOK, StoreType
  <2>3. ASSUME NEW f \in Families, NEW j \in Jtis, MarkerExpires(f, j) PROVE StoreType'
    BY <2>3 DEF MarkerExpires, TypeOK, StoreType
  <2>4. ASSUME NEW f \in Families, ActiveExpires(f) PROVE StoreType'
    BY <2>4 DEF ActiveExpires, TypeOK, StoreType
  <2>5. CASE UNCHANGED vars
    BY <2>5 DEF vars, TypeOK, StoreType
  <2> QED
    BY <2>1, <2>2, <2>3, <2>4, <2>5 DEF Environment
<1> QED
  BY <1>1, <1>2 DEF TypeOK

LEMMA InitType == Init => TypeOK /\ Carries
<1> SUFFICES ASSUME Init PROVE TypeOK /\ Carries
  OBVIOUS
<1>1. StoreType
  BY DEF Init, StoreType
<1>2. RequestType
  BY DEF Init, RequestType, Steps
<1>3. Carries
  BY DEF Init, Carries, Issuing
<1> QED
  BY <1>1, <1>2, <1>3 DEF TypeOK

\* Every variable keeps its type, for every value of the constants
\* (the key schema of token.service.ts:58-61).
THEOREM TypeCorrect == Spec => []TypeOK
<1>1. Init => TypeOK /\ Carries
  BY InitType
<1>2. TypeOK /\ Carries /\ [Next]_vars => (TypeOK /\ Carries)'
  BY RequestStepType, EnvironmentType DEF Next
<1> QED
  BY <1>1, <1>2, PTL DEF Spec

------------------------------------------------------------------------------
(* Safety: the steps that neither mint, nor sign, nor write the allowlist. *)

Quiet ==
    /\ UNCHANGED <<mintVars, jwts>>
    /\ expired \subseteq expired'
    /\ \A j \in Jtis : allow'[j] \in {Nil, allow[j]}
    /\ spent \subseteq spent' /\ spent' \subseteq Delivered
    /\ \A j \in spent' : allow'[j] = Nil
    /\ \A f \in Families, j \in Jtis :
        <<f, j>> \in consumed /\ j \notin expired' => <<f, j>> \in consumed'
    /\ \A r \in Requests : newJti'[r] # Nil => newJti'[r] = newJti[r] /\ tok'[r] = tok[r]
    /\ \A r \in Requests : tok'[r] # Nil => tok'[r] = tok[r] \/ tok'[r] \in jwts
    /\ \A r \in Requests :
        (newJti'[r] # Nil /\ pc'[r] # "mark" /\ ~failed'[r] /\ IsRotation(r)) =>
            (pc[r] # "mark" /\ ~failed[r]) \/ <<tok[r].family, tok[r].jti>> \in consumed'

LEMMA QuietStep ==
    ASSUME IInv, Quiet, TypeOK', Carries'
    PROVE  Minted' /\ Owner' /\ Pending' /\ Safety'
<1> USE DEF IInv, Quiet
<1>1. Delivered' = Delivered
  BY DEF Delivered
<1>2. Minted'
  <2>1. \A j \in Jtis :
          allow'[j] # Nil => j \in mintedJtis' /\ allow'[j].family \in mintedFamilies'
    BY DEF Minted
  <2>2. \A j \in Jtis : parent'[j] # Nil => j \in mintedJtis' /\ parent'[j] \in spent'
    BY DEF Minted
  <2>3. \A r \in Requests : tok'[r] # Nil => tok'[r].family \in mintedFamilies'
    BY DEF Minted
  <2>4. \A r \in Requests : newJti'[r] # Nil => newJti'[r] \in mintedJtis' \ Delivered'
    BY <1>1 DEF Minted
  <2>5. \A r, q \in Requests : newJti'[r] # Nil /\ newJti'[r] = newJti'[q] => r = q
    BY DEF Minted
  <2> QED
    BY <1>1, <2>1, <2>2, <2>3, <2>4, <2>5 DEF Minted
<1>3. Owner'
  <2>1. \A r, q \in Requests :
          newJti'[r] # Nil /\ newJti'[q] # Nil /\ tok'[r].family = tok'[q].family => r = q
    BY DEF Owner
  <2>2. \A r \in Requests, j \in Jtis :
          newJti'[r] # Nil /\ allow'[j] # Nil /\ allow'[j].family = tok'[r].family
            => j = newJti'[r]
    BY DEF Owner
  <2> QED
    BY <2>1, <2>2 DEF Owner
<1>4. Pending'
  <2> SUFFICES ASSUME NEW r \in Requests, newJti'[r] # Nil
               PROVE  /\ allow'[newJti'[r]] \in {Nil, EntryOf(tok[r])'}
                      /\ parent'[newJti'[r]] = tok'[r].jti
                      /\ Marked(r)'
    BY DEF Pending
  <2>1. newJti[r] # Nil /\ newJti'[r] = newJti[r] /\ tok'[r] = tok[r] /\ newJti[r] \in Jtis
    BY DEF TypeOK, RequestType
  <2>2. allow'[newJti'[r]] \in {Nil, EntryOf(tok[r])'}
    BY <2>1 DEF Pending, EntryOf
  <2>3. parent'[newJti'[r]] = tok'[r].jti
    BY <2>1 DEF Pending
  <2>4. tok[r].family \in Families /\ (IsRotation(r) => tok[r].jti \in Jtis)
    BY <2>1, TokType DEF Carries, Issuing
  <2>5. Marked(r)'
    BY <2>1, <2>4 DEF Pending, Marked, IsRotation
  <2> QED
    BY <2>2, <2>3, <2>5
<1>5. Safety'
  <2>1. OneLiveTokenPerFamily'
    BY DEF Safety, OneLiveTokenPerFamily
  <2>2. OneSuccessorPerToken'
    BY DEF Safety, OneSuccessorPerToken
  <2>3. ReplayIsDetectable'
    BY DEF Safety, ReplayIsDetectable, TypeOK, StoreType, Token
  <2>4. SpentStaysSpent'
    BY DEF SpentStaysSpent
  <2>5. EntryMatchesToken'
    BY DEF Safety, EntryMatchesToken, TypeOK, StoreType, Token, EntryOf
  <2> QED
    BY <2>1, <2>2, <2>3, <2>4, <2>5 DEF Safety
<1> QED
  BY <1>2, <1>3, <1>4, <1>5

\* What Drop does to the allowlist is quiet.
LEMMA DropQuiet ==
    ASSUME IInv, NEW j \in Jtis, Drop(j)
    PROVE  /\ \A k \in Jtis : allow'[k] \in {Nil, allow[k]}
           /\ spent \subseteq spent' /\ spent' \subseteq Delivered
           /\ \A k \in spent' : allow'[k] = Nil
<1>1. allow \in [Jtis -> Entry \cup {Nil}] /\ spent \subseteq Jtis
  BY DEF IInv, TypeOK, StoreType
<1>2. spent \subseteq Delivered /\ \A k \in spent : allow[k] = Nil
  BY DEF IInv, Minted, Safety, SpentStaysSpent
<1> QED
  BY <1>1, <1>2 DEF Drop

\* Redis as far as Quiet speaks of it is untouched.
LEMMA UntouchedQuiet ==
    ASSUME IInv, UNCHANGED <<allow, spent>>
    PROVE  /\ \A k \in Jtis : allow'[k] \in {Nil, allow[k]}
           /\ spent \subseteq spent' /\ spent' \subseteq Delivered
           /\ \A k \in spent' : allow'[k] = Nil
BY DEF IInv, Minted, Safety, SpentStaysSpent

\* The end of a request is quiet.
LEMMA EndQuiet ==
    ASSUME IInv, NEW r \in Requests, End(r)
    PROVE  /\ \A q \in Requests :
                newJti'[q] # Nil => /\ newJti'[q] = newJti[q] /\ tok'[q] = tok[q]
                                    /\ pc'[q] = pc[q] /\ failed'[q] = failed[q]
           /\ \A q \in Requests : tok'[q] \in {Nil, tok[q]}
BY DEF End, IInv, TypeOK, RequestType

LEMMA QuietRequestStep ==
    ASSUME IInv, NEW r \in Requests, RequestStep(r),
           ~(\E u \in Users : LoginStart(r, u)), ~(GetDel(r) /\ GetDelHit(r)),
           ~SetEntry(r), ~Reply(r)
    PROVE  Quiet
<1> USE DEF Quiet
<1>0. TypeOK /\ Carries /\ RequestType
  BY DEF IInv, TypeOK
<1>1. ASSUME NEW t \in jwts, RefreshStart(r, t) \/ LogoutStart(r, t) PROVE Quiet
  <2>1. newJti[r] = Nil
    BY <1>0, <1>1 DEF RefreshStart, LogoutStart, Present, Carries, Issuing
  <2> QED
    BY <1>0, <1>1, <2>1, UntouchedQuiet
    DEF RefreshStart, LogoutStart, Present, RequestType
<1>2. CASE LoadUser(r)
  BY <1>0, <1>2, UntouchedQuiet DEF LoadUser, Goto, RequestType, Carries, Issuing
<1>3. CASE GetDel(r) /\ GetDelMiss(r)
  <2>1. tok[r].jti \in Jtis /\ pc[r] = "getdel" /\ newJti[r] = Nil
    BY <1>0, <1>3, TokType DEF GetDel, Carries, Issuing
  <2>2. CASE Goto(r, "marker")
    BY <1>0, <1>3, <2>1, <2>2, DropQuiet DEF GetDel, GetDelMiss, Goto, RequestType
  <2>3. CASE End(r)
    BY <1>0, <1>3, <2>1, <2>3, DropQuiet, EndQuiet DEF GetDel, GetDelMiss
  <2> QED
    BY <1>3, <2>2, <2>3 DEF GetDelMiss
<1>4. CASE GetDelReplyLost(r)
  BY <1>0, <1>4, TokType, DropQuiet DEF GetDelReplyLost
<1>5. CASE ReadMarker(r)
  <2>1. newJti[r] = Nil
    BY <1>0, <1>5 DEF ReadMarker, Carries, Issuing
  <2>2. CASE Goto(r, "smembers")
    BY <1>0, <1>5, <2>1, <2>2, UntouchedQuiet DEF ReadMarker, Goto, RequestType
  <2>3. CASE End(r)
    BY <1>5, <2>3, UntouchedQuiet, EndQuiet DEF ReadMarker
  <2> QED
    BY <1>5, <2>2, <2>3 DEF ReadMarker
<1>6. CASE ReadActive(r)
  BY <1>0, <1>6, UntouchedQuiet
  DEF ReadActive, StartDeleting, RequestType, Carries, Issuing
<1>7. ASSUME NEW j \in Jtis, RevokeOne(r, j) PROVE Quiet
  <2>1. newJti[r] = Nil
    BY <1>0, <1>7 DEF RevokeOne, Carries, Issuing
  <2>2. CASE Drop(j) /\ UNCHANGED failed
    BY <1>7, <2>1, <2>2, DropQuiet DEF RevokeOne
  <2>3. CASE failed' = [failed EXCEPT ![r] = TRUE] /\ UNCHANGED <<allow, spent>>
    BY <1>0, <1>7, <2>1, <2>3, UntouchedQuiet DEF RevokeOne, RequestType
  <2> QED
    BY <1>7, <2>2, <2>3 DEF RevokeOne
<1>8. CASE RevokeSet(r) \/ ResendRevocation(r)
  BY <1>0, <1>8, UntouchedQuiet
  DEF RevokeSet, ResendRevocation, RequestType, Carries, Issuing
<1>9. CASE Mark(r)
  BY <1>0, <1>9, UntouchedQuiet DEF Mark, Goto, RequestType
<1>10. CASE AddActive(r)
  BY <1>0, <1>10, UntouchedQuiet DEF AddActive, Goto, RequestType
<1>11. CASE RemoveActive(r)
  BY <1>0, <1>11, UntouchedQuiet DEF RemoveActive, Goto, RequestType
<1>12. CASE DeleteEntry(r)
  <2>1. tok[r].jti \in Jtis /\ newJti[r] = Nil
    BY <1>0, <1>12, TokType DEF DeleteEntry, Carries, Issuing
  <2> QED
    BY <1>0, <1>12, <2>1, DropQuiet DEF DeleteEntry, Goto, RequestType
<1>13. CASE CommandFails(r)
  BY <1>0, <1>13, UntouchedQuiet DEF CommandFails, RequestType
<1>14. CASE Resend(r)
  BY <1>0, <1>14, UntouchedQuiet DEF Resend, RequestType, Carries, Issuing
<1>15. CASE RevokeReply(r) \/ LogoutReply(r) \/ Crash(r)
  BY <1>15, UntouchedQuiet, EndQuiet DEF RevokeReply, LogoutReply, Crash
<1> QED
  BY <1>1, <1>2, <1>3, <1>4, <1>5, <1>6, <1>7, <1>8, <1>9, <1>10, <1>11, <1>12,
     <1>13, <1>14, <1>15 DEF RequestStep, GetDel

LEMMA QuietEnvironment ==
    ASSUME IInv, Environment \/ UNCHANGED vars
    PROVE  Quiet
<1> USE DEF Quiet
<1>1. ASSUME NEW j \in Jtis, EntryExpires(j) PROVE Quiet
  BY <1>1, DropQuiet DEF EntryExpires
<1>2. ASSUME NEW j \in Jtis, JwtExpires(j) PROVE Quiet
  BY <1>2, UntouchedQuiet DEF JwtExpires
<1>3. ASSUME NEW f \in Families, NEW j \in Jtis, MarkerExpires(f, j) PROVE Quiet
  BY <1>3, UntouchedQuiet DEF MarkerExpires
<1>4. ASSUME NEW f \in Families, ActiveExpires(f) PROVE Quiet
  BY <1>4, UntouchedQuiet DEF ActiveExpires
<1>5. CASE UNCHANGED vars
  BY <1>5, UntouchedQuiet DEF vars
<1> QED
  BY <1>1, <1>2, <1>3, <1>4, <1>5 DEF Environment

------------------------------------------------------------------------------
(* Safety: the four steps that mint, sign or write the allowlist. *)

\* A login mints a family no token and no request has.
LEMMA LoginSafe ==
    ASSUME IInv, NEW r \in Requests, NEW u \in Users, LoginStart(r, u)
    PROVE  Minted' /\ Owner' /\ Pending' /\ Safety'
<1> USE DEF IInv
<1> PICK f \in Families \ mintedFamilies, j \in Jtis \ mintedJtis :
      /\ mintedFamilies' = mintedFamilies \cup {f}
      /\ mintedJtis' = mintedJtis \cup {j}
      /\ tok' = [tok EXCEPT ![r] = [user |-> u, family |-> f, jti |-> Nil]]
      /\ newJti' = [newJti EXCEPT ![r] = j]
  BY DEF LoginStart
<1>1. UNCHANGED <<redisVars, clientVars, parent, failed, spent>> /\ Delivered' = Delivered
  BY DEF LoginStart, Delivered
<1>2. /\ tok'[r] = [user |-> u, family |-> f, jti |-> Nil] /\ newJti'[r] = j
      /\ \A q \in Requests \ {r} : tok'[q] = tok[q] /\ newJti'[q] = newJti[q] /\ pc'[q] = pc[q]
  BY DEF LoginStart, TypeOK, RequestType
<1>3. j # Nil /\ j \notin Delivered /\ allow[j] = Nil /\ parent[j] = Nil
  BY NilAssumption DEF Minted, Delivered, TypeOK, StoreType
<1>4. \A q \in Requests : newJti[q] # j /\ (tok[q] # Nil => tok[q].family # f)
  BY <1>3 DEF Minted
<1>5. \A q \in Requests : newJti[q] # Nil => tok[q] # Nil
  BY DEF Carries, Issuing
<1>6. Minted'
  <2>1. \A q \in Requests : tok'[q] # Nil => tok'[q].family \in mintedFamilies'
    BY <1>2 DEF Minted
  <2>2. \A q \in Requests : newJti'[q] # Nil => newJti'[q] \in mintedJtis' \ Delivered'
    BY <1>1, <1>2, <1>3 DEF Minted
  <2>3. \A p, q \in Requests : newJti'[p] # Nil /\ newJti'[p] = newJti'[q] => p = q
    BY <1>2, <1>4 DEF Minted
  <2> QED
    BY <1>1, <2>1, <2>2, <2>3 DEF Minted
<1>7. Owner'
  <2>1. \A p, q \in Requests :
          newJti'[p] # Nil /\ newJti'[q] # Nil /\ tok'[p].family = tok'[q].family => p = q
    BY <1>2, <1>4, <1>5 DEF Owner
  <2>2. \A q \in Requests, k \in Jtis :
          newJti'[q] # Nil /\ allow'[k] # Nil /\ allow'[k].family = tok'[q].family
            => k = newJti'[q]
    BY <1>1, <1>2 DEF Owner, Minted
  <2> QED
    BY <2>1, <2>2 DEF Owner
<1>8. Pending'
  <2> SUFFICES ASSUME NEW q \in Requests, newJti'[q] # Nil
               PROVE  /\ allow'[newJti'[q]] \in {Nil, EntryOf(tok[q])'}
                      /\ parent'[newJti'[q]] = tok'[q].jti
                      /\ Marked(q)'
    BY DEF Pending
  <2>1. CASE q = r
    BY <1>1, <1>2, <1>3, <2>1 DEF EntryOf, Marked, IsRotation
  <2>2. CASE q # r
    BY <1>1, <1>2, <2>2 DEF Pending, EntryOf, Marked, IsRotation
  <2> QED
    BY <2>1, <2>2
<1>9. Safety'
  BY <1>1 DEF Safety, OneLiveTokenPerFamily, OneSuccessorPerToken, ReplayIsDetectable,
              SpentStaysSpent, EntryMatchesToken, EntryOf
<1> QED
  BY <1>6, <1>7, <1>8, <1>9

\* GETDEL takes the only live token of the family: the request becomes its owner.
LEMMA GetDelHitSafe ==
    ASSUME IInv, NEW r \in Requests, GetDel(r), GetDelHit(r)
    PROVE  Minted' /\ Owner' /\ Pending' /\ Safety'
<1> USE DEF IInv
<1> DEFINE t == tok[r]
<1> PICK j \in Jtis \ mintedJtis :
      /\ mintedJtis' = mintedJtis \cup {j}
      /\ newJti' = [newJti EXCEPT ![r] = j]
      /\ parent' = [parent EXCEPT ![j] = t.jti]
  BY DEF GetDelHit
<1>1. /\ UNCHANGED <<consumed, clientVars, mintedFamilies, tok, failed>>
      /\ Delivered' = Delivered
  BY DEF GetDel, GetDelHit, Delivered
<1>2. /\ newJti'[r] = j /\ pc'[r] = "mark"
      /\ \A q \in Requests \ {r} : newJti'[q] = newJti[q] /\ pc'[q] = pc[q]
  BY DEF GetDelHit, TypeOK, RequestType
<1>3. j # Nil /\ j \notin Delivered /\ allow[j] = Nil /\ parent[j] = Nil
  BY NilAssumption DEF Minted, Delivered, TypeOK, StoreType
<1>4. t \in jwts /\ t # Nil /\ t.jti \in Jtis /\ t.jti \in Delivered
  BY TokType DEF GetDel, Carries, Delivered
<1>5. allow[t.jti] = EntryOf(t) /\ allow[t.jti] # Nil /\ allow[t.jti].family = t.family
  BY <1>4, TokType, NilAssumption DEF GetDel, GetDelHit, EntryOf, Entry
<1>6. /\ allow' = [allow EXCEPT ![t.jti] = Nil]
      /\ spent' = spent \cup {t.jti}
  BY <1>4 DEF GetDel, Drop
<1>7. /\ \A k \in Jtis : allow'[k] \in {Nil, allow[k]}
      /\ allow'[t.jti] = Nil
      /\ \A k \in Jtis : parent'[k] = IF k = j THEN t.jti ELSE parent[k]
  BY <1>4, <1>6 DEF TypeOK, StoreType
<1>8. \A k \in Jtis : allow'[k] # Nil => allow'[k].family # t.family
  BY <1>4, <1>5, <1>7 DEF Safety, OneLiveTokenPerFamily
<1>9. \A q \in Requests \ {r} : newJti[q] # Nil => tok[q].family # t.family
  <2> SUFFICES ASSUME NEW q \in Requests \ {r}, newJti[q] # Nil, tok[q].family = t.family
               PROVE  FALSE
    OBVIOUS
  <2>1. t.jti = newJti[q]
    BY <1>4, <1>5 DEF Owner
  <2> QED
    BY <1>4, <2>1 DEF Minted
<1>10. Minted'
  <2>1. \A k \in Jtis :
          allow'[k] # Nil => k \in mintedJtis' /\ allow'[k].family \in mintedFamilies'
    BY <1>1, <1>7 DEF Minted
  <2>2. \A k \in Jtis : parent'[k] # Nil => k \in mintedJtis' /\ parent'[k] \in spent'
    BY <1>6, <1>7 DEF Minted
  <2>3. \A q \in Requests : newJti'[q] # Nil => newJti'[q] \in mintedJtis' \ Delivered'
    BY <1>1, <1>2, <1>3 DEF Minted
  <2>4. \A p, q \in Requests : newJti'[p] # Nil /\ newJti'[p] = newJti'[q] => p = q
    BY <1>2 DEF Minted
  <2>5. spent' \subseteq Delivered'
    BY <1>1, <1>4, <1>6 DEF Minted
  <2> QED
    BY <1>1, <2>1, <2>2, <2>3, <2>4, <2>5 DEF Minted
<1>11. Owner'
  <2>1. \A p, q \in Requests :
          newJti'[p] # Nil /\ newJti'[q] # Nil /\ tok'[p].family = tok'[q].family => p = q
    BY <1>1, <1>2, <1>9 DEF Owner
  <2>2. \A q \in Requests, k \in Jtis :
          newJti'[q] # Nil /\ allow'[k] # Nil /\ allow'[k].family = tok'[q].family
            => k = newJti'[q]
    BY <1>1, <1>2, <1>7, <1>8 DEF Owner
  <2> QED
    BY <2>1, <2>2 DEF Owner
<1>12. Pending'
  <2> SUFFICES ASSUME NEW q \in Requests, newJti'[q] # Nil
               PROVE  /\ allow'[newJti'[q]] \in {Nil, EntryOf(tok[q])'}
                      /\ parent'[newJti'[q]] = tok'[q].jti
                      /\ Marked(q)'
    BY DEF Pending
  <2>1. CASE q = r
    BY <1>1, <1>2, <1>3, <1>7, <2>1 DEF Marked
  <2>2. CASE q # r
    <3>1. newJti[q] \in Jtis /\ newJti[q] # j
      BY <1>2, <2>2 DEF Minted, TypeOK, RequestType
    <3> QED
      BY <1>1, <1>2, <1>7, <2>2, <3>1 DEF Pending, EntryOf, Marked, IsRotation
  <2> QED
    BY <2>1, <2>2
<1>13. Safety'
  <2>1. OneLiveTokenPerFamily'
    BY <1>7 DEF Safety, OneLiveTokenPerFamily
  <2>2. OneSuccessorPerToken'
    <3>1. t.jti \notin spent
      BY <1>5 DEF Safety, SpentStaysSpent
    <3>2. \A k \in Jtis : parent[k] # t.jti
      BY <1>4, <3>1, NilAssumption DEF Minted
    <3> QED
      BY <1>7, <3>2 DEF Safety, OneSuccessorPerToken
  <2>3. ReplayIsDetectable'
    <3>1. \A s \in jwts : s.jti \in Jtis /\ parent'[s.jti] = parent[s.jti]
      BY <1>3, <1>7 DEF TypeOK, StoreType, Token, Delivered
    <3> QED
      BY <1>1, <3>1 DEF Safety, ReplayIsDetectable
  <2>4. SpentStaysSpent'
    BY <1>6, <1>7 DEF Safety, SpentStaysSpent, TypeOK, StoreType
  <2>5. EntryMatchesToken'
    BY <1>1, <1>7 DEF Safety, EntryMatchesToken, EntryOf, TypeOK, StoreType, Token
  <2> QED
    BY <2>1, <2>2, <2>3, <2>4, <2>5 DEF Safety
<1> QED
  BY <1>10, <1>11, <1>12, <1>13

\* SET writes the entry of a token no client has, in a family the request owns.
LEMMA SetEntrySafe ==
    ASSUME IInv, NEW r \in Requests, SetEntry(r)
    PROVE  Minted' /\ Owner' /\ Pending' /\ Safety'
<1> USE DEF IInv
<1> DEFINE n == newJti[r]
<1>1. /\ UNCHANGED <<consumed, clientVars, mintVars, tok, newJti, failed, spent>>
      /\ Delivered' = Delivered
  BY DEF SetEntry, Goto, Delivered
<1>2. n \in Jtis /\ n # Nil /\ EntryOf(tok[r]) \in Entry /\ tok[r] # Nil
  BY TokType, NilAssumption DEF SetEntry, Issuing, Carries
<1>3. \A k \in Jtis : allow'[k] = IF k = n THEN EntryOf(tok[r]) ELSE allow[k]
  BY DEF SetEntry, TypeOK, StoreType
<1>4. \A q \in Requests : (pc'[q] # "mark" => pc[q] # "mark") \/ q = r
  BY DEF SetEntry, Goto, TypeOK, RequestType
<1>5. pc[r] = "set" /\ EntryOf(tok[r]).family = tok[r].family
  BY DEF SetEntry, EntryOf
<1>6. n \notin Delivered /\ n \notin spent
  BY <1>2 DEF Minted
<1>7. Minted'
  <2>1. \A k \in Jtis :
          allow'[k] # Nil => k \in mintedJtis' /\ allow'[k].family \in mintedFamilies'
    BY <1>1, <1>2, <1>3, <1>5 DEF Minted
  <2> QED
    BY <1>1, <2>1 DEF Minted
<1>8. Owner'
  <2>1. \A q \in Requests, k \in Jtis :
          newJti'[q] # Nil /\ allow'[k] # Nil /\ allow'[k].family = tok'[q].family
            => k = newJti'[q]
    BY <1>1, <1>2, <1>3, <1>5 DEF Owner
  <2> QED
    BY <1>1, <2>1 DEF Owner
<1>9. Pending'
  <2> SUFFICES ASSUME NEW q \in Requests, newJti'[q] # Nil
               PROVE  /\ allow'[newJti'[q]] \in {Nil, EntryOf(tok[q])'}
                      /\ parent'[newJti'[q]] = tok'[q].jti
                      /\ Marked(q)'
    BY DEF Pending
  <2>1. CASE q = r
    BY <1>1, <1>2, <1>3, <1>5, <2>1 DEF Pending, EntryOf, Marked, IsRotation
  <2>2. CASE q # r
    <3>1. newJti[q] \in Jtis /\ newJti[q] # n
      BY <1>1, <1>2, <2>2 DEF Minted, TypeOK, RequestType
    <3> QED
      BY <1>1, <1>3, <1>4, <2>2, <3>1 DEF Pending, EntryOf, Marked, IsRotation
  <2> QED
    BY <2>1, <2>2
<1>10. Safety'
  <2>1. OneLiveTokenPerFamily'
    BY <1>2, <1>3, <1>5 DEF Safety, OneLiveTokenPerFamily, Owner
  <2>2. OneSuccessorPerToken' /\ ReplayIsDetectable'
    BY <1>1 DEF Safety, OneSuccessorPerToken, ReplayIsDetectable
  <2>3. SpentStaysSpent'
    BY <1>1, <1>3, <1>6 DEF Safety, SpentStaysSpent, TypeOK, StoreType
  <2>4. EntryMatchesToken'
    <3>1. \A s \in jwts : s.jti # n /\ s.jti \in Jtis
      BY <1>6 DEF Delivered, TypeOK, StoreType, Token
    <3> QED
      BY <1>1, <1>3, <3>1 DEF Safety, EntryMatchesToken, EntryOf
  <2> QED
    BY <2>1, <2>2, <2>3, <2>4 DEF Safety
<1> QED
  BY <1>7, <1>8, <1>9, <1>10

\* The JWT is signed only when every command has succeeded, so the token presented
\* is marked by then.
LEMMA ReplySafe ==
    ASSUME IInv, NEW r \in Requests, Reply(r), TypeOK', Carries'
    PROVE  Minted' /\ Owner' /\ Pending' /\ Safety'
<1> USE DEF IInv
<1>1. CASE jwts' = jwts
  <2>1. Quiet
    BY <1>1, UntouchedQuiet, EndQuiet DEF Reply, Quiet
  <2> QED
    BY <2>1, QuietStep
<1>2. CASE /\ ~failed[r]
           /\ jwts' = jwts \cup {[tok[r] EXCEPT !.jti = newJti[r]]}
  <2> DEFINE n == newJti[r]
             t == [tok[r] EXCEPT !.jti = n]
  <2>1. UNCHANGED <<redisVars, expired, mintVars, spent>>
    BY DEF Reply
  <2>2. /\ pc[r] = "reply" /\ n \in Jtis /\ n # Nil /\ tok[r] # Nil
        /\ tok[r] \in Token \cup Login
        /\ (IsRotation(r) => tok[r] \in jwts)
    BY TokType, NilAssumption DEF Reply, Issuing, Carries
  <2>3. t.jti = n /\ t.family = tok[r].family /\ t.user = tok[r].user
    BY <2>2 DEF Token, Login
  <2>4. Delivered' = Delivered \cup {n}
    BY <1>2, <2>3 DEF Delivered
  <2>5. /\ newJti'[r] = Nil /\ tok'[r] = Nil
        /\ \A q \in Requests \ {r} :
             newJti'[q] = newJti[q] /\ tok'[q] = tok[q] /\ pc'[q] = pc[q]
               /\ failed'[q] = failed[q]
    BY DEF Reply, End, TypeOK, RequestType
  <2>6. n \in mintedJtis \ Delivered /\ \A q \in Requests \ {r} : newJti[q] # n
    BY <2>2 DEF Minted
  <2>7. \A s \in jwts : s.jti # n /\ s.jti \in Jtis
    BY <2>6 DEF Delivered, TypeOK, StoreType, Token
  <2>8. /\ allow[n] \in {Nil, EntryOf(tok[r])}
        /\ parent[n] = tok[r].jti
        /\ Marked(r)
    BY <2>2 DEF Pending
  <2>9. Minted'
    <3>1. \A s \in jwts' : s.jti \in mintedJtis' /\ s.family \in mintedFamilies'
      BY <1>2, <2>1, <2>2, <2>3, <2>6 DEF Minted
    <3>2. \A q \in Requests : tok'[q] # Nil => tok'[q].family \in mintedFamilies'
      BY <2>1, <2>5 DEF Minted
    <3>3. \A q \in Requests : newJti'[q] # Nil => newJti'[q] \in mintedJtis' \ Delivered'
      BY <2>1, <2>4, <2>5, <2>6 DEF Minted
    <3>4. \A p, q \in Requests : newJti'[p] # Nil /\ newJti'[p] = newJti'[q] => p = q
      BY <2>5 DEF Minted
    <3>5. \A s, v \in jwts' : s.jti = v.jti => s = v
      BY <1>2, <2>3, <2>7 DEF Minted
    <3> QED
      BY <2>1, <2>4, <3>1, <3>2, <3>3, <3>4, <3>5 DEF Minted
  <2>10. Owner'
    BY <2>1, <2>5 DEF Owner
  <2>11. Pending'
    <3> SUFFICES ASSUME NEW q \in Requests, newJti'[q] # Nil
                 PROVE  /\ allow'[newJti'[q]] \in {Nil, EntryOf(tok[q])'}
                        /\ parent'[newJti'[q]] = tok'[q].jti
                        /\ Marked(q)'
      BY DEF Pending
    <3>1. q # r
      BY <2>5
    <3> QED
      BY <2>1, <2>5, <3>1 DEF Pending, EntryOf, Marked, IsRotation
  <2>12. Safety'
    <3>1. OneLiveTokenPerFamily' /\ OneSuccessorPerToken' /\ SpentStaysSpent'
      BY <2>1 DEF Safety, OneLiveTokenPerFamily, OneSuccessorPerToken, SpentStaysSpent
    <3>2. EntryMatchesToken'
      BY <1>2, <2>1, <2>3, <2>8 DEF Safety, EntryMatchesToken, EntryOf
    <3>3. ReplayIsDetectable'
      <4> SUFFICES ASSUME NEW a \in jwts', NEW b \in jwts',
                          parent'[b.jti] = a.jti, a.jti \notin expired'
                   PROVE  <<a.family, a.jti>> \in consumed'
        BY DEF ReplayIsDetectable
      <4>1. CASE a \in jwts /\ b \in jwts
        BY <2>1, <4>1 DEF Safety, ReplayIsDetectable
      <4>2. CASE a = t
        <5>1. b.jti \in Jtis /\ a.jti = n /\ parent[b.jti] = n
          BY <1>2, <2>1, <2>2, <2>3, <2>7, <4>2
        <5>2. n \in spent
          BY <2>2, <5>1 DEF Minted
        <5> QED
          BY <2>6, <5>2 DEF Minted
      <4>3. CASE a \in jwts /\ b = t
        <5>1. tok[r].jti = a.jti /\ IsRotation(r)
          BY <2>1, <2>3, <2>7, <2>8, <4>3, NilAssumption DEF IsRotation
        <5>2. tok[r] = a
          BY <2>2, <4>3, <5>1 DEF Minted
        <5> QED
          BY <1>2, <2>1, <2>2, <2>8, <5>1, <5>2 DEF Marked
      <4> QED
        BY <1>2, <4>1, <4>2, <4>3
    <3> QED
      BY <3>1, <3>2, <3>3 DEF Safety
  <2> QED
    BY <2>9, <2>10, <2>11, <2>12
<1> QED
  BY <1>1, <1>2 DEF Reply

------------------------------------------------------------------------------
LEMMA InitInv == Init => IInv
<1> SUFFICES ASSUME Init PROVE IInv
  OBVIOUS
<1>1. TypeOK /\ Carries
  BY InitType
<1>2. Minted
  BY DEF Init, Minted, Delivered
<1>3. Owner /\ Pending
  BY DEF Init, Owner, Pending
<1>4. Safety
  BY DEF Init, Safety, OneLiveTokenPerFamily, OneSuccessorPerToken, ReplayIsDetectable,
         SpentStaysSpent, EntryMatchesToken
<1> QED
  BY <1>1, <1>2, <1>3, <1>4 DEF IInv

LEMMA StepInv == IInv /\ [Next]_vars => IInv'
<1> SUFFICES ASSUME IInv, [Next]_vars PROVE IInv'
  OBVIOUS
<1>1. TypeOK' /\ Carries'
  BY RequestStepType, EnvironmentType DEF Next, IInv
<1>2. CASE Environment \/ UNCHANGED vars
  BY <1>1, <1>2, QuietEnvironment, QuietStep DEF IInv
<1>3. ASSUME NEW r \in Requests, RequestStep(r) PROVE IInv'
  <2>1. ASSUME NEW u \in Users, LoginStart(r, u) PROVE IInv'
    BY <1>1, <2>1, LoginSafe DEF IInv
  <2>2. CASE GetDel(r) /\ GetDelHit(r)
    BY <1>1, <2>2, GetDelHitSafe DEF IInv
  <2>3. CASE SetEntry(r)
    BY <1>1, <2>3, SetEntrySafe DEF IInv
  <2>4. CASE Reply(r)
    BY <1>1, <2>4, ReplySafe DEF IInv
  <2> QED
    BY <1>1, <1>3, <2>1, <2>2, <2>3, <2>4, QuietRequestStep, QuietStep DEF IInv
<1> QED
  BY <1>2, <1>3 DEF Next

LEMMA Invariant == Spec => []IInv
BY InitInv, StepInv, PTL DEF Spec

\* At no time are two tokens of one family on the allowlist, for any number of
\* concurrent logins, refreshes, logouts and revocations, faults included
\* (the rotation of token.service.ts:100-144).
THEOREM OneLiveToken == Spec => []OneLiveTokenPerFamily
<1>1. IInv => OneLiveTokenPerFamily
  BY DEF IInv, Safety
<1> QED
  BY <1>1, Invariant, PTL

\* No token is ever rotated twice ("only ONE concurrent caller can proceed",
\* token.service.ts:93-95).
THEOREM OneSuccessor == Spec => []OneSuccessorPerToken
<1>1. IInv => OneSuccessorPerToken
  BY DEF IInv, Safety
<1> QED
  BY <1>1, Invariant, PTL

\* Whoever holds the successor of a token, a replay of that token meets its consumed
\* marker until its JWT expires (token.service.ts:115 and :133).
THEOREM ReplayDetection == Spec => []ReplayIsDetectable
<1>1. IInv => ReplayIsDetectable
  BY DEF IInv, Safety
<1> QED
  BY <1>1, Invariant, PTL

\* A token that was rotated, logged out, revoked or has expired in a client's hands
\* is never accepted again (token.service.ts:108, :176 and :191).
THEOREM SpentForGood == Spec => []SpentStaysSpent
<1>1. IInv => SpentStaysSpent
  BY DEF IInv, Safety
<1> QED
  BY <1>1, Invariant, PTL

\* The allowlist never disagrees with a signed token about its user and family
\* (the check of token.service.ts:125).
THEOREM EntriesMatch == Spec => []EntryMatchesToken
<1>1. IInv => EntryMatchesToken
  BY DEF IInv, Safety
<1> QED
  BY <1>1, Invariant, PTL

\* Only a request that has found a live token of a family issues another of it.
LEMMA DeadKept ==
    ASSUME IInv, [Next]_vars, NEW f \in Families, Dead(f)
    PROVE  Dead(f)'
<1> USE DEF Dead
<1>1. CASE Quiet
  BY <1>1 DEF Quiet
<1>2. ASSUME NEW r \in Requests, NEW u \in Users, LoginStart(r, u) PROVE Dead(f)'
  BY <1>2 DEF LoginStart, IInv, TypeOK, RequestType
<1>3. ASSUME NEW r \in Requests, GetDel(r), GetDelHit(r) PROVE Dead(f)'
  <2>1. tok[r].jti \in Jtis /\ EntryOf(tok[r]) # Nil /\ EntryOf(tok[r]).family = tok[r].family
    BY <1>3, TokType, NilAssumption DEF GetDel, IInv, EntryOf, Entry
  <2>2. tok[r].family # f
    BY <1>3, <2>1 DEF GetDelHit
  <2>3. \A j \in Jtis : allow'[j] \in {Nil, allow[j]}
    BY <1>3, <2>1, DropQuiet DEF GetDel
  <2>4. \A q \in Requests \ {r} : newJti'[q] = newJti[q]
    BY <1>3 DEF GetDelHit, IInv, TypeOK, RequestType
  <2> QED
    BY <1>3, <2>2, <2>3, <2>4 DEF GetDelHit
<1>4. ASSUME NEW r \in Requests, SetEntry(r) PROVE Dead(f)'
  <2>1. newJti[r] \in Jtis /\ newJti[r] # Nil /\ EntryOf(tok[r]).family = tok[r].family
    BY <1>4, TokType, NilAssumption DEF SetEntry, IInv, EntryOf, Issuing
  <2>2. \A j \in Jtis \ {newJti[r]} : allow'[j] = allow[j]
    BY <1>4 DEF SetEntry, IInv, TypeOK, StoreType
  <2>3. allow'[newJti[r]].family # f
    BY <1>4, <2>1 DEF SetEntry, IInv, TypeOK, StoreType
  <2> QED
    BY <1>4, <2>2, <2>3 DEF SetEntry, Goto
<1>5. ASSUME NEW r \in Requests, Reply(r) PROVE Dead(f)'
  BY <1>5, EndQuiet DEF Reply
<1> QED
  BY <1>1, <1>2, <1>3, <1>4, <1>5, QuietRequestStep, QuietEnvironment DEF Next

\* Neither a replay, nor a pipeline that is sent again, nor a request that was under way
\* brings a family back of which nothing is left (token.service.ts:108-137).
THEOREM DeadForGood == Spec => DeadStaysDead
<1>1. IInv /\ [Next]_vars => (\A f \in Families : Dead(f) => Dead(f)')
  BY DeadKept
<1> QED
  BY <1>1, Invariant, PTL DEF Spec, DeadStaysDead

------------------------------------------------------------------------------
(* Revocation: what the active set of a family, and a revocation that has read it, *)
(* know of the tokens that are live.                                               *)

\* A token that is about to be delivered is in the active set, or has an excuse.
IssuedIsFindable ==
    \A r \in Requests :
        pc[r] \in {"srem", "reply"} /\ ~failed[r] /\ allow[newJti[r]] # Nil =>
            newJti[r] \in activeJtis[tok[r].family] \cup excused

\* A logout whose DEL has not failed has done it.
LogoutIsDone ==
    \A r \in Requests : pc[r] = "logoutSrem" /\ ~failed[r] => allow[tok[r].jti] = Nil

\* Until it is answered, a revocation has on its list what clients can use, and what is
\* being issued is excused.
ListIsComplete ==
    \A r \in Requests : Revoking(r) =>
        /\ \A t \in jwts :
              t.family = tok[r].family /\ allow[t.jti] # Nil => t.jti \in todo[r] \cup excused
        /\ \A q \in Requests :
              newJti[q] # Nil /\ tok[q].family = tok[r].family => newJti[q] \in excused

EscapeInv ==
    /\ excused \subseteq Jtis
    /\ LiveTokensAreFindable
    /\ IssuedIsFindable
    /\ LogoutIsDone
    /\ ListIsComplete

\* An excuse lasts until the token is dead in a client's hands.
LEMMA ExcuseLasts ==
    ASSUME EscapeInv, excused' = Excused, NEW j \in excused,
           j \in Delivered' => allow'[j] # Nil
    PROVE  j \in excused'
BY DEF EscapeInv, Excused

\* What a step has to show for the parts of the invariant: what they speak of was there
\* before, or has what they ask for.
LEMMA EscapeKept ==
    ASSUME IInv, IInv', EscapeInv, excused' = Excused,
           \A t \in jwts' : allow'[t.jti] # Nil =>
              \/ /\ t \in jwts /\ allow[t.jti] # Nil
                 /\ t.jti \in activeJtis[t.family] =>
                        t.jti \in activeJtis'[t.family] \cup excused'
              \/ t.jti \in activeJtis'[t.family] \cup excused',
           \A q \in Requests :
              pc'[q] \in {"srem", "reply"} /\ ~failed'[q] /\ allow'[newJti'[q]] # Nil =>
              \/ /\ pc[q] \in {"srem", "reply"} /\ ~failed[q]
                 /\ newJti'[q] = newJti[q] /\ tok'[q] = tok[q] /\ allow[newJti[q]] # Nil
                 /\ newJti[q] \in activeJtis[tok[q].family] =>
                        newJti[q] \in activeJtis'[tok[q].family] \cup excused'
              \/ newJti'[q] \in activeJtis'[tok'[q].family] \cup excused',
           \A q \in Requests :
              pc'[q] = "logoutSrem" /\ ~failed'[q] =>
              \/ /\ pc[q] = "logoutSrem" /\ ~failed[q] /\ tok'[q] = tok[q]
                 /\ allow'[tok[q].jti] \in {Nil, allow[tok[q].jti]}
              \/ allow'[tok'[q].jti] = Nil,
           \A q \in Requests, t \in jwts' :
              Revoking(q)' /\ t.family = tok'[q].family /\ allow'[t.jti] # Nil =>
              \/ /\ Revoking(q) /\ tok'[q] = tok[q] /\ t \in jwts /\ allow[t.jti] # Nil
                 /\ t.jti \in todo[q] => t.jti \in todo'[q] \cup excused'
              \/ t.jti \in todo'[q] \cup excused',
           \A q, p \in Requests :
              Revoking(q)' /\ newJti'[p] # Nil /\ tok'[p].family = tok'[q].family =>
              \/ /\ Revoking(q) /\ tok'[q] = tok[q]
                 /\ newJti'[p] = newJti[p] /\ tok'[p] = tok[p]
              \/ newJti'[p] \in excused'
    PROVE  EscapeInv'
<1>1. \A t \in jwts' : t.jti \in Delivered'
  BY DEF Delivered
<1>2. \A q \in Requests : newJti'[q] # Nil => newJti'[q] \notin Delivered'
  BY DEF IInv, Minted
<1>3. \A q \in Requests : pc'[q] \in {"srem", "reply"} => newJti'[q] # Nil
  BY DEF IInv, Carries, Issuing
<1>4. (excused \subseteq Jtis)'
  BY DEF Excused
<1>5. LiveTokensAreFindable'
  BY <1>1, ExcuseLasts DEF LiveTokensAreFindable, EscapeInv
<1>6. IssuedIsFindable'
  BY <1>2, <1>3, ExcuseLasts DEF IssuedIsFindable, EscapeInv
<1>7. LogoutIsDone'
  BY DEF LogoutIsDone, EscapeInv
<1>8. ASSUME NEW q \in Requests, Revoking(q)', NEW t \in jwts',
             t.family = tok'[q].family, allow'[t.jti] # Nil
      PROVE  t.jti \in todo'[q] \cup excused'
  BY <1>1, <1>8, ExcuseLasts DEF ListIsComplete, EscapeInv
<1>9. ASSUME NEW q \in Requests, Revoking(q)', NEW p \in Requests, newJti'[p] # Nil,
             tok'[p].family = tok'[q].family
      PROVE  newJti'[p] \in excused'
  BY <1>2, <1>9, ExcuseLasts DEF ListIsComplete, EscapeInv
<1> QED
  BY <1>4, <1>5, <1>6, <1>7, <1>8, <1>9 DEF EscapeInv, ListIsComplete

\* Steps after which every request, and every active set, is where it was, or at a step
\* of which the invariant says nothing.
LEMMA EscapeUndisturbed ==
    ASSUME IInv, IInv', EscapeInv, excused' = Excused, Quiet,
           \A f \in Families : activeJtis[f] \subseteq activeJtis'[f],
           \A q \in Requests :
              /\ pc'[q] \in {"srem", "reply"} /\ ~failed'[q] =>
                     \/ pc[q] \in {"srem", "reply"} /\ ~failed[q]
                     \/ newJti'[q] \in activeJtis'[tok'[q].family]
              /\ pc'[q] = "logoutSrem" /\ ~failed'[q] =>
                     \/ pc[q] = "logoutSrem" /\ ~failed[q] /\ tok'[q] = tok[q]
                     \/ allow'[tok'[q].jti] = Nil
              /\ Revoking(q)' =>
                     /\ Revoking(q) /\ tok'[q] = tok[q]
                     /\ \A j \in todo[q] \ todo'[q] : allow'[j] # Nil => j \in excused'
    PROVE  EscapeInv'
<1> USE DEF Quiet
<1>1. \A t \in jwts : t.jti \in Jtis /\ t.family \in Families
  BY DEF IInv, TypeOK, StoreType, Token
<1>2. ASSUME NEW q \in Requests, pc'[q] \in {"srem", "reply"}
      PROVE  /\ newJti'[q] \in Jtis /\ newJti'[q] = newJti[q] /\ tok'[q] = tok[q]
             /\ tok[q].family \in Families
  <2>1. newJti'[q] \in Jtis /\ newJti'[q] # Nil
    BY <1>2, NilAssumption DEF IInv, Carries, Issuing, TypeOK, RequestType
  <2>2. pc[q] # "idle"
    BY <2>1 DEF IInv, Carries, Issuing
  <2> QED
    BY <2>1, <2>2, TokType DEF IInv
<1>3. ASSUME NEW q \in Requests, pc[q] = "logoutSrem" PROVE tok[q].jti \in Jtis
  BY <1>3, TokType DEF IInv
<1> QED
  BY <1>1, <1>2, <1>3, EscapeKept

\* A request that ends, or goes where the invariant asks nothing of it, disturbs nothing.
LEMMA EscapeAtEase ==
    ASSUME IInv, IInv', EscapeInv, excused' = Excused, Quiet, UNCHANGED activeJtis,
           NEW r \in Requests,
           \A q \in Requests \ {r} :
              /\ pc'[q] = pc[q] /\ failed'[q] = failed[q]
              /\ tok'[q] = tok[q] /\ todo'[q] = todo[q],
           pc'[r] \notin {"srem", "reply", "logoutSrem"} \/ failed'[r],
           ~Revoking(r)'
    PROVE  EscapeInv'
BY EscapeUndisturbed

LEMMA EscapePlainStep ==
    ASSUME IInv, IInv', EscapeInv, excused' = Excused, NEW r \in Requests,
           \/ \E t \in jwts : RefreshStart(r, t) \/ LogoutStart(r, t)
           \/ LoadUser(r)
           \/ GetDel(r) /\ GetDelMiss(r)
           \/ GetDelReplyLost(r)
           \/ ReadMarker(r)
           \/ Mark(r)
           \/ CommandFails(r)
           \/ Resend(r)
           \/ RevokeReply(r)
           \/ LogoutReply(r)
           \/ Crash(r)
    PROVE  EscapeInv'
<1>0. RequestType
  BY DEF IInv, TypeOK
<1>1. ASSUME NEW t \in jwts, RefreshStart(r, t) \/ LogoutStart(r, t) PROVE EscapeInv'
  <2>1. Quiet
    BY <1>1, QuietRequestStep DEF RequestStep, RefreshStart, LogoutStart, Present,
       LoginStart, GetDel, SetEntry, Reply
  <2> QED
    BY <1>0, <1>1, <2>1, EscapeAtEase
    DEF RefreshStart, LogoutStart, Present, RequestType
<1>2. CASE LoadUser(r) \/ GetDelReplyLost(r)
  <2>1. Quiet
    BY <1>2, <1>0, QuietRequestStep
    DEF RequestStep, LoadUser, GetDelReplyLost, Goto, LoginStart, GetDel, GetDelHit,
        SetEntry, Reply, RequestType
  <2> QED
    BY <1>0, <1>2, <2>1, EscapeAtEase DEF LoadUser, GetDelReplyLost, Goto, RequestType
<1>3. CASE GetDel(r) /\ GetDelMiss(r)
  <2>1. Quiet
    BY <1>3, QuietRequestStep
    DEF RequestStep, GetDel, GetDelMiss, GetDelHit, LoginStart, SetEntry, Reply
  <2>2. CASE Goto(r, "marker")
    BY <1>0, <1>3, <2>1, <2>2, EscapeAtEase DEF GetDel, Goto, RequestType
  <2>3. CASE End(r)
    BY <1>0, <1>3, <2>1, <2>3, EscapeAtEase DEF GetDel, End, RequestType
  <2> QED
    BY <1>3, <2>2, <2>3 DEF GetDelMiss
<1>4. CASE ReadMarker(r)
  <2>1. Quiet
    BY <1>4, QuietRequestStep DEF RequestStep, ReadMarker, LoginStart, GetDel, SetEntry, Reply
  <2>2. CASE Goto(r, "smembers")
    BY <1>0, <1>4, <2>1, <2>2, EscapeAtEase DEF ReadMarker, Goto, RequestType
  <2>3. CASE End(r)
    BY <1>0, <1>4, <2>1, <2>3, EscapeAtEase DEF ReadMarker, End, RequestType
  <2> QED
    BY <1>4, <2>2, <2>3 DEF ReadMarker
<1>5. CASE Mark(r)
  <2>1. Quiet
    BY <1>5, QuietRequestStep DEF RequestStep, Mark, LoginStart, GetDel, SetEntry, Reply
  <2>2. After(r) = "set"
    BY <1>5 DEF Mark, After
  <2> QED
    BY <1>0, <1>5, <2>1, <2>2, EscapeAtEase DEF Mark, Goto, RequestType
<1>6. CASE CommandFails(r)
  <2>1. After(r) \notin {"revoke", "revokeReply"} /\ failed'[r]
    BY <1>0, <1>6, AfterStep DEF CommandFails, RequestType, Commands
  <2>2. Quiet
    BY <1>0, <1>6, UntouchedQuiet DEF CommandFails, RequestType, Quiet
  <2> QED
    BY <1>0, <1>6, <2>1, <2>2, EscapeAtEase DEF CommandFails, RequestType
<1>7. CASE Resend(r)
  <2>1. pc'[r] \in {"mark", "set", "logoutDel"}
    BY <1>0, <1>7 DEF Resend, RequestType
  <2>2. Quiet
    <3>1. ~SetEntry(r) /\ ~Reply(r)
      BY <1>0, <1>7, <2>1 DEF Resend, SetEntry, Reply, Goto, After, End, RequestType
    <3> QED
      BY <1>7, <3>1, QuietRequestStep DEF RequestStep, Resend, LoginStart, GetDel
  <2> QED
    BY <1>0, <1>7, <2>1, <2>2, EscapeAtEase DEF Resend, RequestType
<1>8. CASE RevokeReply(r) \/ LogoutReply(r)
  <2>1. Quiet
    BY <1>8, QuietRequestStep
    DEF RequestStep, RevokeReply, LogoutReply, LoginStart, GetDel, SetEntry, Reply
  <2> QED
    BY <1>0, <1>8, <2>1, EscapeAtEase DEF RevokeReply, LogoutReply, End, RequestType
<1>9. CASE Crash(r)
  <2>1. Quiet
    BY <1>9, UntouchedQuiet, EndQuiet DEF Crash, Quiet
  <2> QED
    BY <1>0, <1>9, <2>1, EscapeAtEase DEF Crash, End, RequestType
<1> QED
  BY <1>1, <1>2, <1>3, <1>4, <1>5, <1>6, <1>7, <1>8, <1>9

\* The three commands that do what the invariant relies on.
LEMMA EscapeAddActive ==
    ASSUME IInv, IInv', EscapeInv, excused' = Excused, NEW r \in Requests, AddActive(r)
    PROVE  EscapeInv'
<1>1. RequestType /\ activeJtis \in [Families -> SUBSET Jtis] /\ tok[r].family \in Families
  BY TokType DEF IInv, TypeOK, StoreType, AddActive
<1>2. Quiet
  BY <1>1, UntouchedQuiet DEF AddActive, Goto, RequestType, Quiet
<1>3. After(r) \in {"srem", "reply"}
  BY DEF AddActive, After
<1>4. newJti[r] \in activeJtis'[tok[r].family]
  BY <1>1 DEF AddActive
<1> QED
  BY <1>1, <1>2, <1>3, <1>4, EscapeUndisturbed DEF AddActive, Goto, RequestType

LEMMA EscapeDeleteEntry ==
    ASSUME IInv, IInv', EscapeInv, excused' = Excused, NEW r \in Requests, DeleteEntry(r)
    PROVE  EscapeInv'
<1>1. RequestType /\ allow \in [Jtis -> Entry \cup {Nil}] /\ tok[r].jti \in Jtis
  BY TokType DEF IInv, TypeOK, StoreType, DeleteEntry
<1>2. Quiet
  BY QuietRequestStep
  DEF RequestStep, DeleteEntry, LoginStart, GetDel, SetEntry, Reply
<1>3. After(r) = "logoutSrem" /\ allow'[tok[r].jti] = Nil
  BY <1>1 DEF DeleteEntry, After, Drop
<1> QED
  BY <1>1, <1>2, <1>3, EscapeUndisturbed DEF DeleteEntry, Goto, RequestType

LEMMA EscapeRevokeOne ==
    ASSUME IInv, IInv', EscapeInv, excused' = Excused,
           NEW r \in Requests, NEW j \in Jtis, RevokeOne(r, j)
    PROVE  EscapeInv'
<1>1. RequestType /\ allow \in [Jtis -> Entry \cup {Nil}]
  BY DEF IInv, TypeOK, StoreType
<1>2. Quiet
  BY QuietRequestStep DEF RequestStep, RevokeOne, LoginStart, GetDel, SetEntry, Reply
<1>3. allow'[j] # Nil => NotDeleted(j)
  BY <1>1 DEF RevokeOne, NotDeleted, RequestType
<1>4. allow'[j] # Nil => j \in excused'
  BY <1>3 DEF Excused
<1> QED
  BY <1>1, <1>2, <1>4, EscapeUndisturbed DEF RevokeOne, RequestType

\* A resent revocation has at least as much on its list as before.
LEMMA EscapeResendRevocation ==
    ASSUME IInv, IInv', EscapeInv, excused' = Excused, NEW r \in Requests, ResendRevocation(r)
    PROVE  EscapeInv'
<1>1. RequestType /\ todo[r] \subseteq members[r]
  BY DEF IInv, TypeOK, Carries
<1>2. Quiet
  BY QuietRequestStep DEF RequestStep, ResendRevocation, LoginStart, GetDel, SetEntry, Reply
<1> QED
  BY <1>1, <1>2, EscapeUndisturbed DEF ResendRevocation, RequestType

\* SREM takes the presented token out of the set: after a rotation it is off the allowlist
\* (the request's own successor is the only live token), after a logout it is, or is excused.
LEMMA EscapeRemoveActive ==
    ASSUME IInv, IInv', EscapeInv, excused' = Excused, NEW r \in Requests, RemoveActive(r)
    PROVE  EscapeInv'
<1>1. /\ RequestType /\ StoreType /\ Carries
      /\ tok[r].jti \in Jtis /\ tok[r].family \in Families /\ tok[r] \in jwts
  BY TokType DEF IInv, TypeOK, RemoveActive, Carries
<1>2. Quiet
  BY <1>1, UntouchedQuiet DEF RemoveActive, Goto, RequestType, Quiet
<1>3. UNCHANGED <<allow, jwts, tok, newJti, todo, failed>>
  BY DEF RemoveActive, Goto
<1>4. \A f \in Families, j \in Jtis :
         j \in activeJtis[f] /\ ~(f = tok[r].family /\ j = tok[r].jti) => j \in activeJtis'[f]
  BY <1>1 DEF RemoveActive, StoreType
<1>5. allow[tok[r].jti] # Nil => tok[r].jti \in excused'
  <2>1. CASE pc[r] = "srem"
    <3>1. allow[tok[r].jti] # Nil => allow[tok[r].jti].family = tok[r].family
      <4>1. allow[tok[r].jti] \in {Nil, EntryOf(tok[r])}
        BY <1>1 DEF IInv, Safety, EntryMatchesToken
      <4>2. EntryOf(tok[r]).family = tok[r].family
        BY DEF EntryOf
      <4> QED
        BY <4>1, <4>2
    <3>2. newJti[r] # Nil /\ newJti[r] # tok[r].jti
      BY <1>1, <2>1 DEF IInv, Minted, Carries, Issuing, Delivered
    <3> QED
      BY <1>1, <3>1, <3>2 DEF IInv, Owner
  <2>2. CASE pc[r] = "logoutSrem" /\ failed[r]
    <3>1. After(r) = "logoutReply"
      BY <2>2 DEF After
    <3>2. pc'[r] = "logoutReply"
      BY <1>1, <3>1 DEF RemoveActive, Goto, RequestType
    <3>3. LoggedOutInPart(tok[r].jti)
      BY <2>2, <3>2 DEF LoggedOutInPart
    <3> QED
      BY <1>1, <1>3, <3>3 DEF Excused
  <2>3. CASE pc[r] = "logoutSrem" /\ ~failed[r]
    BY <2>3 DEF EscapeInv, LogoutIsDone
  <2> QED
    BY <2>1, <2>2, <2>3 DEF RemoveActive
<1>6. \A q \in Requests \ {r} : pc'[q] = pc[q]
  BY <1>1 DEF RemoveActive, Goto, RequestType
<1>7. pc[r] \in {"srem", "logoutSrem"} /\ pc'[r] \in {"reply", "logoutReply"}
  BY <1>1 DEF RemoveActive, Goto, RequestType, After
<1>8. pc'[r] = "reply" => pc[r] = "srem"
  BY <1>1 DEF RemoveActive, Goto, RequestType, After
<1>9. \A t \in jwts : t.jti \in Jtis /\ t.family \in Families
  BY <1>1 DEF StoreType, Token
<1>10. ASSUME NEW q \in Requests, pc[q] \in {"srem", "reply"}
       PROVE  newJti[q] \in Jtis /\ tok[q].family \in Families
  BY <1>10, TokType DEF IInv, Issuing
<1> QED
  BY <1>3, <1>4, <1>5, <1>6, <1>7, <1>8, <1>9, <1>10, EscapeKept

\* DEL takes all out of the set: by then what was on the list is off the allowlist, and
\* what was not on it is excused.
LEMMA EscapeRevokeSet ==
    ASSUME IInv, IInv', EscapeInv, excused' = Excused, NEW r \in Requests, RevokeSet(r)
    PROVE  EscapeInv'
<1>1. /\ RequestType /\ StoreType
      /\ pc[r] = "revoke" /\ todo[r] = {} /\ tok[r].family \in Families
  BY TokType DEF IInv, TypeOK, RevokeSet
<1>2. UNCHANGED <<allow, jwts, tok, newJti, todo>>
  BY DEF RevokeSet
<1>3. \A f \in Families : f # tok[r].family => activeJtis'[f] = activeJtis[f]
  BY <1>1 DEF RevokeSet, StoreType
<1>4. pc'[r] = "revokeReply"
  BY <1>1 DEF RevokeSet, RequestType
<1>5. \A q \in Requests \ {r} : pc'[q] = pc[q] /\ failed'[q] = failed[q]
  BY <1>1 DEF RevokeSet, RequestType
<1>6. \A t \in jwts : t.jti \in Jtis /\ t.family \in Families /\ t.jti \in Delivered
  BY <1>1 DEF StoreType, Token, Delivered
<1>7. \A q \in Requests : newJti'[q] # Nil => newJti'[q] \notin Delivered'
  BY DEF IInv, Minted
<1>8. ASSUME NEW q \in Requests, pc[q] \in {"srem", "reply"}
      PROVE  newJti[q] \in Jtis /\ newJti[q] # Nil /\ tok[q].family \in Families
  BY <1>8, TokType, NilAssumption DEF IInv, Issuing
<1>9. \A t \in jwts : t.family = tok[r].family /\ allow[t.jti] # Nil => t.jti \in excused'
  BY <1>1, <1>2, <1>6, ExcuseLasts DEF EscapeInv, ListIsComplete
<1>10. ASSUME NEW q \in Requests, newJti[q] # Nil, tok[q].family = tok[r].family
       PROVE  newJti[q] \in excused'
  <2>1. newJti[q] \in excused
    BY <1>1, <1>10 DEF EscapeInv, ListIsComplete
  <2> QED
    BY <1>2, <1>7, <1>10, <2>1, ExcuseLasts
<1> QED
  BY <1>2, <1>3, <1>4, <1>5, <1>6, <1>8, <1>9, <1>10, EscapeKept

\* What SMEMBERS does not find is excused, or being issued.
LEMMA EscapeReadActive ==
    ASSUME IInv, IInv', EscapeInv, excused' = Excused, NEW r \in Requests, ReadActive(r)
    PROVE  EscapeInv'
<1>1. RequestType /\ StoreType /\ Carries /\ pc[r] = "smembers"
  BY DEF IInv, TypeOK, ReadActive, StartDeleting
<1>2. UNCHANGED <<allow, activeJtis, jwts, tok, newJti, failed>>
  BY DEF ReadActive, StartDeleting
<1>3. pc'[r] = "revoke" /\ todo'[r] = activeJtis[tok[r].family]
  BY <1>1 DEF ReadActive, StartDeleting, RequestType
<1>4. \A q \in Requests \ {r} : pc'[q] = pc[q] /\ todo'[q] = todo[q]
  BY <1>1 DEF ReadActive, StartDeleting, RequestType
<1>5. \A t \in jwts : t.jti \in Delivered
  BY DEF Delivered
<1>6. \A t \in jwts : allow[t.jti] # Nil => t.jti \in activeJtis[t.family] \cup excused'
  BY <1>2, <1>5, ExcuseLasts DEF EscapeInv, LiveTokensAreFindable
<1>7. ASSUME NEW p \in Requests, newJti[p] # Nil, tok[p].family = tok[r].family
      PROVE  newJti[p] \in excused'
  <2>1. newJti[p] \in Jtis
    BY <1>1, <1>7 DEF RequestType
  <2>2. ReadBeside(newJti[p])
    BY <1>1, <1>3, <1>7 DEF ReadBeside
  <2>3. newJti[p] \notin Delivered'
    BY <1>2, <1>7 DEF IInv, Minted
  <2> QED
    BY <2>1, <2>2, <2>3 DEF Excused
<1> QED
  BY <1>2, <1>3, <1>4, <1>6, <1>7, EscapeKept

\* The set of a family expires when none of its delivered tokens lives, and one that is being
\* issued is excused.
LEMMA EscapeActiveExpires ==
    ASSUME IInv, IInv', EscapeInv, excused' = Excused,
           NEW f \in Families, ActiveExpires(f)
    PROVE  EscapeInv'
<1>1. RequestType /\ StoreType
  BY DEF IInv, TypeOK
<1>2. UNCHANGED <<allow, jwts, reqVars>>
  BY DEF ActiveExpires
<1>3. \A g \in Families : g # f => activeJtis'[g] = activeJtis[g]
  BY <1>1 DEF ActiveExpires, StoreType
<1>4. \A t \in jwts : t.jti \in Delivered /\ t.family \in Families
  BY <1>1 DEF Delivered, StoreType, Token
<1>5. \A t \in jwts : t.jti \in activeJtis[f] => allow[t.jti] = Nil
  BY <1>4 DEF ActiveExpires
<1>6. ASSUME NEW q \in Requests, pc[q] \in {"srem", "reply"}, allow[newJti[q]] # Nil,
             newJti[q] \in activeJtis[f], tok[q].family = f
      PROVE  newJti[q] \in excused'
  <2>1. newJti[q] \in Jtis /\ newJti[q] # Nil
    BY <1>6, TokType, NilAssumption DEF IInv, Issuing
  <2>2. IsRotation(q)
    BY <1>6 DEF ActiveExpires
  <2>3. activeJtis'[f] = {}
    BY <1>1 DEF ActiveExpires, StoreType
  <2>4. ExpiredBeside(newJti[q])
    BY <1>2, <1>6, <2>2, <2>3 DEF ExpiredBeside
  <2>5. newJti[q] \notin Delivered'
    BY <1>2, <2>1 DEF IInv, Minted
  <2> QED
    BY <2>1, <2>4, <2>5 DEF Excused
<1>7. \A q \in Requests : pc[q] \in {"srem", "reply"} => tok[q].family \in Families
  BY TokType DEF IInv
<1> QED
  BY <1>2, <1>3, <1>4, <1>5, <1>6, <1>7, EscapeKept

\* A login works in a family that no revocation is at.
LEMMA EscapeLogin ==
    ASSUME IInv, IInv', EscapeInv, excused' = Excused,
           NEW r \in Requests, NEW u \in Users, LoginStart(r, u)
    PROVE  EscapeInv'
<1>1. RequestType /\ pc[r] = "idle"
  BY DEF IInv, TypeOK, LoginStart
<1>2. UNCHANGED <<allow, activeJtis, jwts, todo, failed>>
  BY DEF LoginStart
<1>3. pc'[r] = "set" /\ tok'[r].family \notin mintedFamilies
  BY <1>1 DEF LoginStart, RequestType
<1>4. \A q \in Requests \ {r} : pc'[q] = pc[q] /\ tok'[q] = tok[q] /\ newJti'[q] = newJti[q]
  BY <1>1 DEF LoginStart, RequestType
<1>5. \A q \in Requests : Revoking(q) => tok[q].family \in mintedFamilies
  BY DEF IInv, Minted, Carries
<1> QED
  BY <1>2, <1>3, <1>4, <1>5, EscapeKept

\* A token minted beside a revocation of its family is excused.
LEMMA EscapeGetDelHit ==
    ASSUME IInv, IInv', EscapeInv, excused' = Excused,
           NEW r \in Requests, GetDel(r), GetDelHit(r)
    PROVE  EscapeInv'
<1>1. /\ RequestType /\ StoreType /\ pc[r] = "getdel" /\ newJti[r] = Nil
      /\ tok[r].jti \in Jtis
  BY TokType DEF IInv, TypeOK, GetDel, Carries, Issuing
<1>2. UNCHANGED <<activeJtis, jwts, tok, todo, failed>>
  BY DEF GetDel, GetDelHit
<1>3. \A k \in Jtis : allow'[k] \in {Nil, allow[k]}
  BY <1>1, DropQuiet DEF GetDel
<1>4. pc'[r] = "mark"
  BY <1>1 DEF GetDelHit, RequestType
<1>5. \A q \in Requests \ {r} : pc'[q] = pc[q] /\ newJti'[q] = newJti[q]
  BY <1>1 DEF GetDelHit, RequestType
<1>6. \A t \in jwts : t.jti \in Jtis
  BY <1>1 DEF StoreType, Token
<1>7. ASSUME NEW q \in Requests, pc[q] \in {"srem", "reply"} PROVE newJti[q] \in Jtis
  BY <1>7, TokType DEF IInv, Issuing
<1>8. ASSUME NEW q \in Requests, pc[q] = "logoutSrem" PROVE tok[q].jti \in Jtis
  BY <1>8, TokType DEF IInv
<1>9. ASSUME NEW q \in Requests, Revoking(q)', tok[q].family = tok[r].family
      PROVE  newJti'[r] \in excused'
  <2>1. newJti'[r] \in Jtis /\ newJti'[r] # Nil
    BY <1>1, NilAssumption DEF GetDelHit, RequestType
  <2>2. Revoking(q)
    BY <1>4, <1>5, <1>9
  <2>3. MintedBeside(newJti'[r])
    BY <1>1, <1>2, <1>9, <2>2 DEF MintedBeside
  <2>4. newJti'[r] \notin Delivered'
    BY <2>1 DEF IInv, Minted
  <2> QED
    BY <2>1, <2>3, <2>4 DEF Excused
<1> QED
  BY <1>2, <1>3, <1>4, <1>5, <1>6, <1>7, <1>8, <1>9, EscapeKept

\* An entry that is written is one of a token no client has yet.
LEMMA EscapeSetEntry ==
    ASSUME IInv, IInv', EscapeInv, excused' = Excused, NEW r \in Requests, SetEntry(r)
    PROVE  EscapeInv'
<1>1. /\ RequestType /\ StoreType /\ pc[r] = "set"
      /\ newJti[r] \in Jtis /\ newJti[r] # Nil /\ newJti[r] \notin Delivered
  BY TokType DEF IInv, TypeOK, SetEntry, Minted, Carries, Issuing
<1>2. UNCHANGED <<activeJtis, jwts, tok, newJti, todo, failed>>
  BY DEF SetEntry, Goto
<1>3. \A k \in Jtis : k # newJti[r] => allow'[k] = allow[k]
  BY <1>1 DEF SetEntry, StoreType
<1>4. pc'[r] = "sadd"
  BY <1>1 DEF SetEntry, Goto, RequestType, After
<1>5. \A q \in Requests \ {r} : pc'[q] = pc[q]
  BY <1>1 DEF SetEntry, Goto, RequestType
<1>6. \A t \in jwts : t.jti \in Jtis /\ t.jti # newJti[r]
  BY <1>1 DEF StoreType, Token, Delivered
<1>7. ASSUME NEW q \in Requests \ {r}, pc[q] \in {"srem", "reply"}
      PROVE  newJti[q] \in Jtis /\ newJti[q] # newJti[r]
  BY <1>1, <1>7, TokType DEF IInv, Issuing, Minted
<1>8. ASSUME NEW q \in Requests, pc[q] = "logoutSrem"
      PROVE  tok[q].jti \in Jtis /\ tok[q].jti # newJti[r]
  BY <1>1, <1>8, TokType DEF IInv, Carries, Delivered
<1> QED
  BY <1>2, <1>3, <1>4, <1>5, <1>6, <1>7, <1>8, EscapeKept

\* A token that is delivered is findable, and on the list of, or excused for, every
\* revocation that is at work.
LEMMA EscapeReply ==
    ASSUME IInv, IInv', EscapeInv, excused' = Excused, NEW r \in Requests, Reply(r)
    PROVE  EscapeInv'
<1>1. /\ RequestType /\ StoreType /\ pc[r] = "reply"
      /\ newJti[r] \in Jtis /\ newJti[r] # Nil /\ newJti[r] \notin Delivered
  BY TokType DEF IInv, TypeOK, Reply, Minted, Carries, Issuing
<1>2. UNCHANGED <<allow, activeJtis>>
  BY DEF Reply
<1>3. pc'[r] = "idle" /\ newJti'[r] = Nil
  BY <1>1 DEF Reply, End, RequestType
<1>4. \A q \in Requests \ {r} : /\ pc'[q] = pc[q] /\ failed'[q] = failed[q] /\ tok'[q] = tok[q]
                                /\ todo'[q] = todo[q] /\ newJti'[q] = newJti[q]
  BY <1>1 DEF Reply, End, RequestType
<1>5. \A t \in jwts' \ jwts :
          t.jti = newJti[r] /\ t.family = tok[r].family /\ ~failed[r]
  <2>1. tok[r] \in Token \cup Login
    BY <1>1, TokType DEF IInv
  <2> QED
    BY <2>1 DEF Reply, Token, Login
<1>6. ASSUME newJti[r] \in excused, allow[newJti[r]] # Nil PROVE newJti[r] \in excused'
  BY <1>2, <1>6, ExcuseLasts
<1>7. ASSUME NEW t \in jwts' \ jwts, allow[t.jti] # Nil
      PROVE  t.jti \in activeJtis[t.family] \cup excused'
  BY <1>1, <1>5, <1>6, <1>7 DEF EscapeInv, IssuedIsFindable
<1>8. ASSUME NEW t \in jwts' \ jwts, allow[t.jti] # Nil,
             NEW q \in Requests, Revoking(q)', t.family = tok'[q].family
      PROVE  t.jti \in excused'
  <2>1. Revoking(q) /\ tok[r].family = tok[q].family
    BY <1>3, <1>4, <1>5, <1>8
  <2>2. newJti[r] \in excused
    BY <1>1, <2>1 DEF EscapeInv, ListIsComplete
  <2> QED
    BY <1>5, <1>6, <1>8, <2>2
<1> QED
  BY <1>2, <1>3, <1>4, <1>7, <1>8, EscapeKept

LEMMA EscapeEnvironment ==
    ASSUME IInv, IInv', EscapeInv, excused' = Excused, Environment
    PROVE  EscapeInv'
<1>1. ASSUME NEW f \in Families, ActiveExpires(f) PROVE EscapeInv'
  BY <1>1, EscapeActiveExpires
<1>2. ASSUME UNCHANGED <<activeJtis, reqVars>> PROVE EscapeInv'
  BY <1>2, QuietEnvironment, EscapeUndisturbed
<1> QED
  BY <1>1, <1>2
  DEF Environment, EntryExpires, JwtExpires, MarkerExpires

LEMMA EscapeStep == IInv /\ IInv' /\ EscapeInv /\ [RevocationNext]_allVars => EscapeInv'
<1> SUFFICES ASSUME IInv, IInv', EscapeInv, [RevocationNext]_allVars PROVE EscapeInv'
  OBVIOUS
<1>1. CASE UNCHANGED allVars
  BY <1>1 DEF allVars, vars, EscapeInv, LiveTokensAreFindable, IssuedIsFindable,
              LogoutIsDone, ListIsComplete
<1>2. ASSUME excused' = Excused, NEW r \in Requests, RequestStep(r) PROVE EscapeInv'
  BY <1>2, EscapePlainStep, EscapeAddActive, EscapeDeleteEntry, EscapeRevokeOne,
     EscapeRemoveActive, EscapeRevokeSet, EscapeResendRevocation, EscapeReadActive,
     EscapeLogin, EscapeGetDelHit, EscapeSetEntry, EscapeReply
  DEF RequestStep, GetDel
<1> QED
  BY <1>1, <1>2, EscapeEnvironment DEF RevocationNext, Next

LEMMA EscapeInvariance == RevocationSpec => [](IInv /\ EscapeInv)
<1>1. RevocationInit => IInv /\ EscapeInv
  BY InitInv DEF RevocationInit, Init, EscapeInv, LiveTokensAreFindable, IssuedIsFindable,
                 LogoutIsDone, ListIsComplete
<1>2. [RevocationNext]_allVars => [Next]_vars
  BY DEF RevocationNext, allVars
<1>3. IInv /\ EscapeInv /\ [RevocationNext]_allVars => (IInv /\ EscapeInv)'
  BY <1>2, StepInv, EscapeStep
<1> QED
  BY <1>1, <1>3, PTL DEF RevocationSpec

\* A token a client can use is in the active set of its family, where a revocation looks for
\* it, unless one of five things has happened to it (token.service.ts:135-137 and :176-197).
THEOREM Findable == RevocationSpec => []LiveTokensAreFindable
<1>1. EscapeInv => LiveTokensAreFindable
  BY DEF EscapeInv
<1> QED
  BY <1>1, EscapeInvariance, PTL

\* A revocation that has gone through its list leaves a client no token of the family but
\* one that was issued beside a revocation not answered yet, that a DEL has failed to delete,
\* or whose set expired while it was issued, however often the DELs are sent
\* (token.service.ts:185-201).
THEOREM NoOtherIsSpared == RevocationSpec => []RevocationSparesNoOther
<1>1. EscapeInv => RevocationSparesNoOther
  BY DEF EscapeInv, ListIsComplete, RevocationSparesNoOther
<1> QED
  BY <1>1, EscapeInvariance, PTL
==============================================================================
