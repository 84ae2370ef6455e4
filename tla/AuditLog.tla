------------------------------ MODULE AuditLog ------------------------------
(***************************************************************************)
(* What AuditService and AuditProcessor promise: a log that only grows, in *)
(* which each committed operation is entered at most once, and nothing     *)
(* else.                                                                   *)
(***************************************************************************)
EXTENDS Naturals

CONSTANT Events   \* operations that are to be logged, each one on its own

VARIABLES
    committed,   \* the operations that have been committed
    entries      \* how many entries of audit_logs are about each

vars == <<committed, entries>>

Init ==
    /\ committed = {}
    /\ entries = [e \in Events |-> 0]

Commit(e) ==
    /\ e \notin committed
    /\ committed' = committed \cup {e}
    /\ UNCHANGED entries

Enter(e) ==
    /\ e \in committed
    /\ entries[e] = 0
    /\ entries' = [entries EXCEPT ![e] = 1]
    /\ UNCHANGED committed

Next == \E e \in Events : Commit(e) \/ Enter(e)

Spec == Init /\ [][Next]_vars
==============================================================================
