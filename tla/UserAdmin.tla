------------------------------ MODULE UserAdmin ------------------------------
(***************************************************************************)
(* UsersService: create, update, remove and restore.                       *)
(*                                                                         *)
(* Each request runs one SERIALIZABLE transaction, up to RetryLimit times, *)
(* and then evicts the account's cached abilities and session.             *)
(*                                                                         *)
(* PostgreSQL is external.  A transaction reads a snapshot and decides on  *)
(* it; it may commit unless a transaction that committed meanwhile wrote   *)
(* the same row, or the two form a cycle: each counted the active super    *)
(* administrators and each took one away.  PostgreSQL refuses more than    *)
(* that, so every attempt may also be refused for no reason.               *)
(***************************************************************************)
EXTENDS Naturals, FiniteSets

CONSTANTS
    Users, Roles, SuperAdmin, Nil,   \* see UserTable
    Changes,      \* the PATCH bodies clients send
    Requests,     \* HTTP requests in progress at the same time
    RetryLimit,   \* SERIALIZABLE_RETRY_LIMIT
    Faults        \* whether connections break and processes die

VARIABLES
    row,      \* the users table
    pc,       \* the step each request is at
    op,       \* the operation it was sent with
    attempt,  \* transactions it has started, until one commits
    write,    \* the row its open transaction writes
    counted,  \* its open transaction counted the active super administrators
    rivals    \* what has been committed since its open transaction's snapshot

reqVars == <<pc, op, attempt, write, counted, rivals>>
adminVars == <<row, reqVars>>

Table == INSTANCE UserTable

\* Nil is told apart from every present value.
ASSUME NilAssumption ==
    /\ Nil \notin Roles
    /\ Nil \notin BOOLEAN
    /\ Nil \notin Table!Row

ASSUME AdminAssumption ==
    /\ SuperAdmin \in Roles
    /\ Changes \subseteq Table!Change
    /\ RetryLimit \in Nat \ {0}
    /\ Faults \in BOOLEAN
    /\ IsFiniteSet(Users)

Operation ==
    [kind : {"create"}, user : Users, role : Roles]
        \cup [kind : {"update"}, user : Users, change : Changes]
        \cup [kind : {"remove", "restore"}, user : Users]

Commit == [user : Users, counted : BOOLEAN]

Steps == {"idle", "begin", "commit", "abilities", "session", "audit"}

ActiveSuperAdmins == {u \in Users : Table!IsActiveSuperAdmin(row[u])}

------------------------------------------------------------------------------
(* What an operation makes of the row it finds. *)

\* loadManagedUserOrThrow: 404; the unique e-mail, and restore's own check: 409.
Refused(o, x) ==
    \/ o.kind = "create" /\ x # Nil
    \/ o.kind # "create" /\ x = Nil
    \/ o.kind = "restore" /\ x # Nil /\ ~x.deleted

Result(o, x) ==
    CASE o.kind = "create"  -> Table!NewRow(o.role)
      [] o.kind = "update"  -> Table!Changed(x, o.change)
      [] o.kind = "remove"  -> Table!Removed(x)
      [] o.kind = "restore" -> Table!Restored(x)

\* An active super administrator would be one no longer.
Demotes(o, x) ==
    Table!IsActiveSuperAdmin(x) /\ ~Table!IsActiveSuperAdmin(Result(o, x))

\* Variant: the last one may go.
RetentionHoldsForNone(o) ==
    Demotes(o, row[o.user]) => Cardinality(ActiveSuperAdmins) >= 1

\* ensureSuperAdminRetention: 409 when the count is 1 or less.
RetentionHolds(o) ==
    Demotes(o, row[o.user]) => ~(Cardinality(ActiveSuperAdmins) <= 1)

\* Variant: an update evicts on a change of role only.
EvictsOnRole(o) ==
    o.kind \in {"remove", "restore"} \/ (o.kind = "update" /\ o.change.role # Nil)

\* Whether the caches are evicted after the commit.
Evicts(o) ==
    \/ o.kind \in {"remove", "restore"}
    \/ o.kind = "update" /\ (o.change.role # Nil \/ o.change.isActive # Nil)

------------------------------------------------------------------------------
\* The transaction is over.
Close(r) ==
    /\ write' = [write EXCEPT ![r] = Nil]
    /\ counted' = [counted EXCEPT ![r] = FALSE]

Rollback(r) == Close(r) /\ rivals' = [rivals EXCEPT ![r] = {}]

Idle(r) ==
    /\ pc' = [pc EXCEPT ![r] = "idle"]
    /\ op' = [op EXCEPT ![r] = Nil]
    /\ attempt' = [attempt EXCEPT ![r] = 0]
    /\ Rollback(r)

Init ==
    /\ Table!Init
    /\ pc = [r \in Requests |-> "idle"]
    /\ op = [r \in Requests |-> Nil]
    /\ attempt = [r \in Requests |-> 0]
    /\ write = [r \in Requests |-> Nil]
    /\ counted = [r \in Requests |-> FALSE]
    /\ rivals = [r \in Requests |-> {}]

Receive(r, o) ==
    /\ pc[r] = "idle"
    /\ pc' = [pc EXCEPT ![r] = "begin"]
    /\ op' = [op EXCEPT ![r] = o]
    /\ attempt' = [attempt EXCEPT ![r] = 1]
    /\ UNCHANGED <<row, write, counted, rivals>>

\* The transaction takes its snapshot, reads the account, and counts the active
\* super administrators if the operation would take one away.
Begin(r) ==
    /\ pc[r] = "begin"
    /\ ~Refused(op[r], row[op[r].user])
    /\ RetentionHolds(op[r])
    /\ pc' = [pc EXCEPT ![r] = "commit"]
    /\ write' = [write EXCEPT ![r] = Result(op[r], row[op[r].user])]
    /\ counted' = [counted EXCEPT ![r] = Demotes(op[r], row[op[r].user])]
    /\ rivals' = [rivals EXCEPT ![r] = {}]
    /\ UNCHANGED <<row, op, attempt>>

\* The transaction finds a reason for 404 or 409.
Refuse(r) ==
    /\ pc[r] = "begin"
    /\ Refused(op[r], row[op[r].user]) \/ ~RetentionHolds(op[r])
    /\ Idle(r)
    /\ UNCHANGED row

\* PostgreSQL must refuse the transaction.
Conflicts(r) ==
    \E c \in rivals[r] : c.user = op[r].user \/ (c.counted /\ counted[r])

\* What each open transaction has against it once r has committed.
Others(r) ==
    [s \in Requests |->
        IF s # r /\ pc[s] = "commit"
        THEN rivals[s] \cup {[user |-> op[r].user, counted |-> counted[r]]}
        ELSE {}]

\* Variant: without the isolation level, PostgreSQL refuses nothing.
ApplyReadCommitted(r) ==
    /\ pc[r] = "commit"
    /\ row' = [row EXCEPT ![op[r].user] = write[r]]
    /\ rivals' = Others(r)

\* The row is written, which the open transactions of the others may conflict with.
Apply(r) ==
    /\ pc[r] = "commit"
    /\ ~Conflicts(r)
    /\ row' = [row EXCEPT ![op[r].user] = write[r]]
    /\ rivals' = Others(r)

CommitTx(r) ==
    /\ Apply(r)
    /\ pc' = [pc EXCEPT ![r] = IF Evicts(op[r]) THEN "abilities" ELSE "audit"]
    /\ attempt' = [attempt EXCEPT ![r] = 0]
    /\ Close(r)
    /\ UNCHANGED op

\* Variant: one attempt too many.
RetryOnceMore(r) ==
    /\ pc[r] = "commit"
    /\ attempt[r] <= RetryLimit
    /\ pc' = [pc EXCEPT ![r] = "begin"]
    /\ attempt' = [attempt EXCEPT ![r] = @ + 1]
    /\ Rollback(r)
    /\ UNCHANGED <<row, op>>

\* Variant: the attempts are not counted.
RetryForever(r) ==
    /\ pc[r] = "commit"
    /\ pc' = [pc EXCEPT ![r] = "begin"]
    /\ Rollback(r)
    /\ UNCHANGED <<row, op, attempt>>

\* P2034: the transaction is rolled back and tried again.
Retry(r) ==
    /\ pc[r] = "commit"
    /\ attempt[r] < RetryLimit
    /\ pc' = [pc EXCEPT ![r] = "begin"]
    /\ attempt' = [attempt EXCEPT ![r] = @ + 1]
    /\ Rollback(r)
    /\ UNCHANGED <<row, op>>

\* P2034 on the last attempt; or P2002: somebody else has just created the account.
GiveUp(r) ==
    /\ pc[r] = "commit"
    /\ \/ attempt[r] = RetryLimit
       \/ op[r].kind = "create" /\ Conflicts(r)
    /\ Idle(r)
    /\ UNCHANGED row

------------------------------------------------------------------------------
(* invalidateUserCaches, best effort, and the audit entry. *)

EvictAbilities(r) ==
    /\ pc[r] = "abilities"
    /\ pc' = [pc EXCEPT ![r] = "session"]
    /\ UNCHANGED <<row, op, attempt, write, counted, rivals>>

EvictSession(r) ==
    /\ pc[r] = "session"
    /\ pc' = [pc EXCEPT ![r] = "audit"]
    /\ UNCHANGED <<row, op, attempt, write, counted, rivals>>

\* logSync or logAsync, whose failures are swallowed, and the answer.
Answer(r) ==
    /\ pc[r] = "audit"
    /\ Idle(r)
    /\ UNCHANGED row

\* The process dies, the transaction fails with an error that is not P2034, or the
\* answer to its COMMIT is lost: whatever was left to do is not done.
Crash(r) ==
    /\ Faults
    /\ pc[r] # "idle"
    /\ Idle(r)
    /\ UNCHANGED row

------------------------------------------------------------------------------
\* The steps of a request that has been received and goes on.
TxStep(r) ==
    \/ Begin(r)
    \/ Refuse(r)
    \/ CommitTx(r)
    \/ Retry(r)
    \/ GiveUp(r)

Progress(r) == TxStep(r) \/ EvictAbilities(r) \/ EvictSession(r) \/ Answer(r)

RequestStep(r) ==
    \/ \E o \in Operation : Receive(r, o)
    \/ Progress(r)
    \/ Crash(r)

Next == \E r \in Requests : RequestStep(r)

\* The event loop runs every request, and PostgreSQL answers it.
Fairness == \A r \in Requests : WF_adminVars(Progress(r))

SafeSpec == Init /\ [][Next]_adminVars

Spec == SafeSpec /\ Fairness

------------------------------------------------------------------------------
(* Properties. *)

\* Every variable has its type; no request starts more than RetryLimit
\* transactions (users.service.ts:355-367).
TypeOK ==
    /\ row \in [Users -> Table!Row \cup {Nil}]
    /\ pc \in [Requests -> Steps]
    /\ op \in [Requests -> Operation \cup {Nil}]
    /\ attempt \in [Requests -> 0 .. RetryLimit]
    /\ write \in [Requests -> Table!Row \cup {Nil}]
    /\ counted \in [Requests -> BOOLEAN]
    /\ rivals \in [Requests -> SUBSET Commit]

\* However demotions, deactivations and removals interleave, an active SUPER_ADMIN
\* remains (ensureSuperAdminRetention, users.service.ts:398-429).
SuperAdminRemains == ActiveSuperAdmins # {}

\* The service implements UserTable: every operation that commits does, on the table
\* as it is then, what it would have done alone (withSerializableTransaction,
\* users.service.ts:352-370).
OperationsAreAtomic == Table!Spec

\* Every request is answered: conflicts cannot keep it retrying
\* (SERIALIZABLE_RETRY_LIMIT, users.service.ts:54 and :359).
RequestsEnd == \A r \in Requests : pc[r] # "idle" ~> pc[r] = "idle"
==============================================================================
