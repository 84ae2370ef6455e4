----------------------------- MODULE MCSessions -----------------------------
(* Finite instances of Judgements, and so of Sessions, for TLC. *)
EXTENDS Judgements, TLC

CONSTANT Editor

\* A demotion, a deactivation, and a change of password only.
MCChanges ==
    {[role |-> Editor, isActive |-> Nil],
     [role |-> Nil, isActive |-> FALSE],
     [role |-> Nil, isActive |-> Nil]}
==============================================================================
