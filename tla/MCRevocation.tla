----------------------------- MODULE MCRevocation -----------------------------
(* Finite instances of Revocation, and so of RefreshTokens, for TLC. *)
EXTENDS Revocation, TLC

Symmetry ==
    Permutations(Users) \cup Permutations(Families)
        \cup Permutations(Jtis) \cup Permutations(Requests)
==============================================================================
