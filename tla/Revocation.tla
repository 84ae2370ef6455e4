------------------------------ MODULE Revocation ------------------------------
(***************************************************************************)
(* What a revocation of a family leaves alive.  revokeFamily deletes what  *)
(* it has read of the family's active set, so it is as good as that set:   *)
(* a token that the set does not name, or that comes after it was read,    *)
(* survives.  This module adds to RefreshTokens the history of the tokens  *)
(* to which that may happen, and nothing else.                             *)
(***************************************************************************)
EXTENDS RefreshTokens

VARIABLE excused    \* history: jtis with a cause to escape a revocation, while they live

allVars == <<vars, excused>>

\* j was minted beside a revocation that had read the active set and was not answered yet:
\* its DELs, or the same DELs sent again, are for the jtis it has read.
MintedBeside(j) ==
    \E r, q \in Requests :
        /\ newJti[r] = Nil /\ newJti'[r] = j
        /\ Revoking(q) /\ tok[q].family = tok[r]'.family

\* A revocation reads the active set while j is being issued.
ReadBeside(j) ==
    \E r, q \in Requests :
        /\ newJti[r] = j
        /\ pc[q] = "smembers" /\ pc'[q] = "revoke" /\ tok[q].family = tok[r].family

\* A revocation goes on although its DEL of j has failed.
NotDeleted(j) ==
    \E r \in Requests :
        /\ pc[r] = "revoke" /\ pc'[r] = "revoke"
        /\ j \in todo[r] \ todo'[r]
        /\ allow'[j] # Nil

\* The active set expires while a rotation that has put j there has not renewed it yet.
ExpiredBeside(j) ==
    /\ pc' = pc
    /\ \E r \in Requests :
        /\ newJti[r] = j /\ IsRotation(r)
        /\ j \in activeJtis[tok[r].family] \ activeJtis'[tok[r].family]

\* A logout takes j out of the active set although its DEL has failed.
LoggedOutInPart(j) ==
    \E r \in Requests :
        /\ pc[r] = "logoutSrem" /\ pc'[r] = "logoutReply"
        /\ tok[r].jti = j
        /\ failed[r]

\* A token is dead once it is off the allowlist in a client's hands.
Excused ==
    {j \in Jtis :
        /\ \/ j \in excused
           \/ MintedBeside(j) \/ ReadBeside(j) \/ NotDeleted(j)
           \/ ExpiredBeside(j) \/ LoggedOutInPart(j)
        /\ j \in Delivered' => allow'[j] # Nil}

RevocationInit == Init /\ excused = {}

RevocationNext == Next /\ excused' = Excused

RevocationSpec == RevocationInit /\ [][RevocationNext]_allVars

------------------------------------------------------------------------------
(* Properties. *)

\* Every token a client can still use is in its family's active set, where a revocation
\* looks for it, or has escaped for one of the five reasons above (the SADD, SREM and
\* EXPIRE of token.service.ts:135-137 and :176-177, the SMEMBERS of :186).
LiveTokensAreFindable ==
    \A t \in jwts : allow[t.jti] # Nil => t.jti \in activeJtis[t.family] \cup excused

\* Once a revocation has gone through its list, and until it is answered, a token of the
\* family that a client can still use has escaped for one of these reasons; README.md:562
\* fails for no other (token.service.ts:185-201).
RevocationSparesNoOther ==
    \A r \in Requests : Revoking(r) /\ todo[r] = {} =>
        \A t \in jwts : t.family = tok[r].family /\ allow[t.jti] # Nil => t.jti \in excused
==============================================================================
