------------------------------ MODULE UserTable ------------------------------
(***************************************************************************)
(* What UsersService promises of the users table: every operation takes    *)
(* effect at once, on the table as it is, and none of them leaves the      *)
(* system without an active SUPER_ADMIN.                                   *)
(*                                                                         *)
(* An element of Users is an account: its id and its e-mail, which never   *)
(* changes.  Passwords play no part here.                                  *)
(***************************************************************************)

CONSTANTS
    Users,       \* accounts
    Roles,       \* the enum Role
    SuperAdmin,  \* Role.SUPER_ADMIN
    Nil          \* no row, and a field an update does not give

VARIABLE row   \* the users table

Row == [role : Roles, isActive : BOOLEAN, deleted : BOOLEAN]

\* The body of a PATCH: a field that is Nil is not given.
Change == [role : Roles \cup {Nil}, isActive : BOOLEAN \cup {Nil}]

IsActiveSuperAdmin(x) ==
    x \in Row /\ x.role = SuperAdmin /\ x.isActive /\ ~x.deleted

\* The row prisma/seed.ts creates, and a new account.
NewRow(role) == [role |-> role, isActive |-> TRUE, deleted |-> FALSE]

Changed(x, c) ==
    [role |-> IF c.role = Nil THEN x.role ELSE c.role,
     isActive |-> IF c.isActive = Nil THEN x.isActive ELSE c.isActive,
     deleted |-> x.deleted]

Removed(x) == [x EXCEPT !.isActive = FALSE, !.deleted = TRUE]

Restored(x) == [x EXCEPT !.isActive = TRUE, !.deleted = FALSE]

\* Row x replaces row[u], unless the last active SUPER_ADMIN would be gone.
Put(u, x) ==
    /\ \E v \in Users : IsActiveSuperAdmin(IF v = u THEN x ELSE row[v])
    /\ row' = [row EXCEPT ![u] = x]

Create(u, role) == row[u] = Nil /\ Put(u, NewRow(role))

Update(u, c) == row[u] # Nil /\ Put(u, Changed(row[u], c))

Remove(u) == row[u] # Nil /\ Put(u, Removed(row[u]))

Restore(u) == row[u] # Nil /\ row[u].deleted /\ Put(u, Restored(row[u]))

Init == \E u \in Users : row = [v \in Users |-> IF v = u THEN NewRow(SuperAdmin) ELSE Nil]

Next ==
    \E u \in Users :
        \/ \E role \in Roles : Create(u, role)
        \/ \E c \in Change : Update(u, c)
        \/ Remove(u)
        \/ Restore(u)

Spec == Init /\ [][Next]_row
==============================================================================
