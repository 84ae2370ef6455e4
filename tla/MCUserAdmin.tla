----------------------------- MODULE MCUserAdmin -----------------------------
(* Finite instances of UserAdmin for TLC. *)
EXTENDS UserAdmin, TLC

CONSTANT Editor

\* A demotion, and a promotion of a user who may be inactive.  A deactivation is
\* a removal without its deletedAt.
MCChanges ==
    {[role |-> Editor, isActive |-> Nil], [role |-> SuperAdmin, isActive |-> TRUE]}
==============================================================================
