-------------------------- MODULE UserAdminProofs --------------------------
(***************************************************************************)
(* Proofs about UserAdmin: type correctness, the super administrator that  *)
(* remains, and the implementation of UserTable.                           *)
(*                                                                         *)
(* The heart of the invariant: while nothing that was committed since its  *)
(* snapshot conflicts with it, an open transaction is still right about    *)
(* the table, although the table may have changed under it.                *)
(***************************************************************************)
EXTENDS UserAdmin, FiniteSetTheorems, TLAPS

\* What r's open transaction has decided holds of the table as it is.
StillRight(r) ==
    LET x == row[op[r].user]
    IN  /\ ~Refused(op[r], x)
        /\ write[r] = Result(op[r], x)
        /\ counted[r] = Demotes(op[r], x)
        /\ counted[r] => \E v \in ActiveSuperAdmins : v # op[r].user

OpenTransactions ==
    \A r \in Requests : (pc[r] = "commit" /\ ~Conflicts(r)) => StillRight(r)

Received == \A r \in Requests : pc[r] # "idle" => op[r] \in Operation

IInv == TypeOK /\ Received /\ OpenTransactions /\ SuperAdminRemains

------------------------------------------------------------------------------
\* A set of more than one element has one other than x.
LEMMA AnotherOne ==
    ASSUME NEW S, IsFiniteSet(S), ~(Cardinality(S) <= 1), NEW x
    PROVE  \E v \in S : v # x
<1>1. SUFFICES ASSUME S \subseteq {x}
               PROVE  FALSE
  OBVIOUS
<1>2. IsFiniteSet({x}) /\ Cardinality({x}) = 1
  BY FS_Singleton
<1>3. Cardinality(S) <= 1
  BY <1>1, <1>2, FS_Subset
<1>4. QED
  BY <1>3

\* Result, case by case.
LEMMA ResultOfKind ==
    ASSUME NEW o \in Operation, NEW x
    PROVE  /\ o.kind = "create" => Result(o, x) = Table!NewRow(o.role)
           /\ o.kind = "update" => Result(o, x) = Table!Changed(x, o.change)
           /\ o.kind = "remove" => Result(o, x) = Table!Removed(x)
           /\ o.kind = "restore" => Result(o, x) = Table!Restored(x)
  BY Zenon DEF Result

\* What an operation asks for, case by case.
LEMMA OperationOfKind ==
    ASSUME NEW o \in Operation
    PROVE  /\ o.user \in Users
           /\ o.kind \in {"create", "update", "remove", "restore"}
           /\ o.kind = "create" => o.role \in Roles
           /\ o.kind = "update" => o.change \in Table!Change
  BY AdminAssumption DEF Operation

\* An operation that is not refused makes a row of what it finds.
LEMMA ResultIsRow ==
    ASSUME NEW o \in Operation, NEW x \in Table!Row \cup {Nil}, ~Refused(o, x)
    PROVE  Result(o, x) \in Table!Row
<1> USE OperationOfKind, ResultOfKind
<1>1. CASE o.kind = "create"
  <2>1. o.role \in Roles /\ Result(o, x) = Table!NewRow(o.role)
    BY <1>1
  <2>2. QED
    BY ONLY <2>1 DEF Table!NewRow, Table!Row
<1>2. CASE o.kind = "update"
  <2>1. x \in Table!Row /\ o.change \in Table!Change
    BY <1>2 DEF Refused
  <2>2. Table!Changed(x, o.change) \in Table!Row
    BY <2>1 DEF Table!Changed, Table!Row, Table!Change
  <2>3. QED
    BY <1>2, <2>2
<1>3. CASE o.kind = "remove"
  <2>1. x \in Table!Row /\ Result(o, x) = Table!Removed(x)
    BY <1>3 DEF Refused
  <2>2. QED
    BY ONLY <2>1 DEF Table!Removed, Table!Row
<1>4. CASE o.kind = "restore"
  <2>1. x \in Table!Row /\ Result(o, x) = Table!Restored(x)
    BY <1>4 DEF Refused
  <2>2. QED
    BY ONLY <2>1 DEF Table!Restored, Table!Row
<1>5. QED
  BY <1>1, <1>2, <1>3, <1>4

\* The initial states satisfy the invariant.
LEMMA InitInvariant == Init => IInv
<1>1. SUFFICES ASSUME Init PROVE IInv
  OBVIOUS
<1>2. PICK u \in Users :
          row = [v \in Users |-> IF v = u THEN Table!NewRow(SuperAdmin) ELSE Nil]
  BY <1>1 DEF Init, Table!Init
<1>3. Table!NewRow(SuperAdmin) \in Table!Row
  BY AdminAssumption DEF Table!NewRow, Table!Row
<1>4. TypeOK
  BY <1>1, <1>2, <1>3, AdminAssumption DEF Init, TypeOK, Steps
<1>5. u \in ActiveSuperAdmins
  BY <1>2, <1>3 DEF ActiveSuperAdmins, Table!IsActiveSuperAdmin, Table!NewRow
<1>6. QED
  BY <1>1, <1>4, <1>5
     DEF IInv, Init, Received, OpenTransactions, SuperAdminRemains

------------------------------------------------------------------------------
\* A request that ends keeps the types.
LEMMA IdleType ==
    ASSUME TypeOK, NEW r \in Requests, Idle(r), UNCHANGED row
    PROVE  TypeOK'
  BY AdminAssumption DEF TypeOK, Idle, Rollback, Close, Steps

\* A request that ends keeps the invariant: it decides nothing for the others.
LEMMA IdleInvariant ==
    ASSUME IInv, NEW r \in Requests, Idle(r), UNCHANGED row
    PROVE  IInv'
<1>1. TypeOK'
  BY IdleType DEF IInv
<1>2. Received'
  BY DEF IInv, TypeOK, Received, Idle
<1>3. OpenTransactions'
  <2>1. SUFFICES ASSUME NEW s \in Requests, pc'[s] = "commit", ~Conflicts(s)'
                 PROVE  StillRight(s)'
    BY DEF OpenTransactions
  <2>2. s # r
    BY <2>1 DEF IInv, TypeOK, Idle
  <2>3. /\ pc'[s] = pc[s] /\ op'[s] = op[s] /\ write'[s] = write[s]
        /\ counted'[s] = counted[s] /\ rivals'[s] = rivals[s]
    BY <2>2 DEF IInv, TypeOK, Idle, Rollback, Close
  <2>4. StillRight(s)
    BY <2>1, <2>3 DEF IInv, OpenTransactions, Conflicts
  <2>5. QED
    BY <2>3, <2>4 DEF StillRight, ActiveSuperAdmins
<1>4. SuperAdminRemains'
  BY DEF IInv, SuperAdminRemains, ActiveSuperAdmins
<1>5. QED
  BY <1>1, <1>2, <1>3, <1>4 DEF IInv

\* What an open transaction that may commit knows of the table.
LEMMA ApplyFacts ==
    ASSUME IInv, NEW r \in Requests, Apply(r)
    PROVE  /\ op[r] \in Operation
           /\ op[r].user \in Users
           /\ StillRight(r)
           /\ write[r] \in Table!Row
           /\ row' \in [Users -> Table!Row \cup {Nil}]
<1>1. op[r] \in Operation /\ op[r].user \in Users
  BY OperationOfKind DEF IInv, Apply, Received
<1>2. StillRight(r)
  BY DEF IInv, OpenTransactions, Apply
<1>3. write[r] \in Table!Row
  BY <1>1, <1>2, ResultIsRow DEF StillRight, IInv, TypeOK
<1>4. QED
  BY <1>1, <1>2, <1>3 DEF Apply, IInv, TypeOK

\* A commit leaves an active SUPER_ADMIN: its own row, or another one.
LEMMA ApplyKeepsSuperAdmin ==
    ASSUME IInv, NEW r \in Requests, Apply(r)
    PROVE  SuperAdminRemains'
<1>0. /\ op[r].user \in Users
      /\ StillRight(r)
      /\ row' \in [Users -> Table!Row \cup {Nil}]
      /\ row \in [Users -> Table!Row \cup {Nil}]
      /\ row' = [row EXCEPT ![op[r].user] = write[r]]
  BY ApplyFacts DEF Apply, IInv, TypeOK
<1>1. CASE Demotes(op[r], row[op[r].user])
  <2>1. PICK v \in ActiveSuperAdmins : v # op[r].user
    BY <1>0, <1>1 DEF StillRight
  <2>2. v \in ActiveSuperAdmins'
    BY <1>0, <2>1 DEF ActiveSuperAdmins
  <2>3. QED
    BY <2>2 DEF SuperAdminRemains
<1>2. CASE ~Demotes(op[r], row[op[r].user])
  <2>1. PICK v \in ActiveSuperAdmins : TRUE
    BY DEF IInv, SuperAdminRemains
  <2>2. v \in ActiveSuperAdmins'
    <3>1. CASE v = op[r].user
      <4>1. Table!IsActiveSuperAdmin(write[r])
        BY <1>0, <1>2, <2>1, <3>1 DEF StillRight, Demotes, ActiveSuperAdmins
      <4>2. QED
        BY <1>0, <3>1, <4>1 DEF ActiveSuperAdmins
    <3>2. CASE v # op[r].user
      BY <1>0, <2>1, <3>2 DEF ActiveSuperAdmins
    <3>3. QED
      BY <3>1, <3>2
  <2>3. QED
    BY <2>2 DEF SuperAdminRemains
<1>3. QED
  BY <1>1, <1>2

\* A commit of r makes every other open transaction wrong only if it conflicts.
LEMMA ApplyKeepsOpen ==
    ASSUME IInv, NEW r \in Requests, Apply(r),
           NEW s \in Requests, s # r, pc[s] = "commit", ~Conflicts(s)',
           op'[s] = op[s], write'[s] = write[s], counted'[s] = counted[s]
    PROVE  StillRight(s)'
<1> DEFINE c == [user |-> op[r].user, counted |-> counted[r]]
<1>0. /\ op[r].user \in Users
      /\ StillRight(r)
      /\ row' \in [Users -> Table!Row \cup {Nil}]
      /\ row \in [Users -> Table!Row \cup {Nil}]
      /\ row' = [row EXCEPT ![op[r].user] = write[r]]
  BY ApplyFacts DEF Apply, IInv, TypeOK
<1>1. rivals'[s] = rivals[s] \cup {c}
  BY DEF Apply, Others
<1>2. ~Conflicts(s)
  BY <1>1 DEF Conflicts
<1>3. StillRight(s)
  BY <1>2 DEF IInv, OpenTransactions
<1>4. op[r].user # op[s].user /\ ~(counted[r] /\ counted[s])
  <2>1. c \in rivals'[s]
    BY <1>1
  <2>2. c.user # op'[s].user /\ ~(c.counted /\ counted'[s])
    BY <2>1 DEF Conflicts
  <2>3. QED
    BY <2>2
<1>5. op[s].user \in Users
  BY OperationOfKind DEF IInv, Received
<1>6. row'[op[s].user] = row[op[s].user]
  BY <1>0, <1>4, <1>5
<1>7. ASSUME counted[s]
      PROVE  \E v \in ActiveSuperAdmins' : v # op[s].user
  <2>1. PICK v \in ActiveSuperAdmins : v # op[s].user
    BY <1>3, <1>7 DEF StillRight
  <2>2. v \in ActiveSuperAdmins'
    <3>1. CASE v = op[r].user
      <4>1. ~Demotes(op[r], row[op[r].user])
        BY <1>0, <1>4, <1>7 DEF StillRight
      <4>2. Table!IsActiveSuperAdmin(write[r])
        BY <1>0, <2>1, <3>1, <4>1 DEF StillRight, Demotes, ActiveSuperAdmins
      <4>3. QED
        BY <1>0, <3>1, <4>2 DEF ActiveSuperAdmins
    <3>2. CASE v # op[r].user
      BY <1>0, <2>1, <3>2 DEF ActiveSuperAdmins
    <3>3. QED
      BY <3>1, <3>2
  <2>3. QED
    BY <2>1, <2>2
<1>8. QED
  BY <1>3, <1>6, <1>7 DEF StillRight

\* A commit keeps the invariant, whatever becomes of the request that commits.
LEMMA ApplyInvariant ==
    ASSUME IInv, NEW r \in Requests, Apply(r), TypeOK',
           Received', pc'[r] # "commit",
           \A s \in Requests \ {r} :
               /\ pc'[s] = pc[s] /\ op'[s] = op[s]
               /\ write'[s] = write[s] /\ counted'[s] = counted[s]
    PROVE  IInv'
<1>1. OpenTransactions'
  <2>1. SUFFICES ASSUME NEW s \in Requests, pc'[s] = "commit", ~Conflicts(s)'
                 PROVE  StillRight(s)'
    BY DEF OpenTransactions
  <2>2. s # r /\ pc[s] = "commit"
    BY <2>1
  <2>3. QED
    BY <2>1, <2>2, ApplyKeepsOpen
<1>2. QED
  BY <1>1, ApplyKeepsSuperAdmin DEF IInv

\* The retention check leaves another active SUPER_ADMIN.
LEMMA BeginIsRight ==
    ASSUME IInv, NEW r \in Requests, Begin(r)
    PROVE  StillRight(r)' /\ write'[r] \in Table!Row
<1> DEFINE x == row[op[r].user]
<1>1. op[r] \in Operation /\ op[r].user \in Users /\ x \in Table!Row \cup {Nil}
  BY OperationOfKind DEF IInv, TypeOK, Received, Begin
<1>2. /\ write'[r] = Result(op[r], x) /\ counted'[r] = Demotes(op[r], x)
      /\ op' = op /\ row' = row
  BY DEF Begin, IInv, TypeOK
<1>3. Result(op[r], x) \in Table!Row
  BY <1>1, ResultIsRow DEF Begin
<1>4. ASSUME Demotes(op[r], x)
      PROVE  \E v \in ActiveSuperAdmins : v # op[r].user
  <2>1. ~(Cardinality(ActiveSuperAdmins) <= 1)
    BY <1>4 DEF Begin, RetentionHolds
  <2>2. IsFiniteSet(ActiveSuperAdmins)
    BY AdminAssumption, FS_Subset DEF ActiveSuperAdmins
  <2>3. QED
    BY <2>1, <2>2, AnotherOne
<1>5. QED
  BY <1>2, <1>3, <1>4 DEF StillRight, Begin, ActiveSuperAdmins

\* A step of r that leaves the table alone, and r without an open transaction,
\* keeps what the others have decided.
LEMMA QuietInvariant ==
    ASSUME IInv, NEW r \in Requests, row' = row, TypeOK', Received',
           pc'[r] = "commit" => StillRight(r)',
           \A s \in Requests \ {r} :
               /\ pc'[s] = pc[s] /\ op'[s] = op[s] /\ write'[s] = write[s]
               /\ counted'[s] = counted[s] /\ rivals'[s] = rivals[s]
    PROVE  IInv'
<1>1. OpenTransactions'
  <2>1. SUFFICES ASSUME NEW s \in Requests \ {r}, pc'[s] = "commit", ~Conflicts(s)'
                 PROVE  StillRight(s)'
    BY DEF OpenTransactions
  <2>2. StillRight(s)
    BY <2>1 DEF IInv, OpenTransactions, Conflicts
  <2>3. QED
    BY <2>2 DEF StillRight, ActiveSuperAdmins
<1>2. QED
  BY <1>1 DEF IInv, SuperAdminRemains, ActiveSuperAdmins

\* The rivals that a commit leaves behind are well typed.
LEMMA OthersType ==
    ASSUME TypeOK, NEW r \in Requests, op[r] \in Operation
    PROVE  Others(r) \in [Requests -> SUBSET Commit]
<1>1. [user |-> op[r].user, counted |-> counted[r]] \in Commit
  BY OperationOfKind DEF Commit, TypeOK
<1>2. QED
  BY <1>1 DEF Others, TypeOK

\* Every step keeps the invariant.
LEMMA StepInvariant == IInv /\ [Next]_adminVars => IInv'
<1>1. SUFFICES ASSUME IInv, [Next]_adminVars PROVE IInv'
  OBVIOUS
<1>2. CASE UNCHANGED adminVars
  BY <1>1, <1>2
     DEF adminVars, reqVars, IInv, TypeOK, Received, OpenTransactions, Conflicts,
         StillRight, ActiveSuperAdmins, SuperAdminRemains
<1>3. ASSUME NEW r \in Requests, NEW o \in Operation, Receive(r, o)
      PROVE  IInv'
  <2>1. TypeOK'
    BY <1>1, <1>3, AdminAssumption DEF IInv, TypeOK, Receive, Steps
  <2>2. Received' /\ pc'[r] # "commit"
    BY <1>1, <1>3 DEF IInv, TypeOK, Received, Receive
  <2>3. QED
    BY <1>1, <1>3, <2>1, <2>2, QuietInvariant DEF Receive, IInv, TypeOK
<1>4. ASSUME NEW r \in Requests, Begin(r) PROVE IInv'
  <2>1. StillRight(r)' /\ write'[r] \in Table!Row
    BY <1>1, <1>4, BeginIsRight
  <2>2. counted'[r] \in BOOLEAN
    BY <1>1, <1>4 DEF Begin, IInv, TypeOK, Demotes, Table!IsActiveSuperAdmin
  <2>3. TypeOK'
    BY <1>1, <1>4, <2>1, <2>2 DEF IInv, TypeOK, Begin, Steps
  <2>4. Received'
    BY <1>1, <1>4 DEF IInv, TypeOK, Received, Begin
  <2>5. QED
    BY <1>1, <1>4, <2>1, <2>3, <2>4, QuietInvariant DEF Begin, IInv, TypeOK
<1>5. ASSUME NEW r \in Requests, Idle(r), UNCHANGED row PROVE IInv'
  BY <1>1, <1>5, IdleInvariant
<1>6. ASSUME NEW r \in Requests, CommitTx(r) PROVE IInv'
  <2>1. op[r] \in Operation /\ Apply(r) /\ row' \in [Users -> Table!Row \cup {Nil}]
    BY <1>1, <1>6, ApplyFacts DEF CommitTx
  <2>2. TypeOK'
    BY <1>1, <1>6, <2>1, OthersType, AdminAssumption DEF IInv, TypeOK, CommitTx, Apply, Close, Steps
  <2>3. Received' /\ pc'[r] # "commit"
    BY <1>1, <1>6, <2>1 DEF IInv, TypeOK, Received, CommitTx
  <2>4. QED
    BY <1>1, <1>6, <2>1, <2>2, <2>3, ApplyInvariant DEF IInv, TypeOK, CommitTx, Close
<1>7. ASSUME NEW r \in Requests, Retry(r) PROVE IInv'
  <2>1. attempt[r] \in 0 .. RetryLimit /\ attempt[r] + 1 \in 0 .. RetryLimit
    BY <1>1, <1>7, AdminAssumption DEF Retry, IInv, TypeOK
  <2>2. TypeOK'
    BY <1>1, <1>7, <2>1 DEF IInv, TypeOK, Retry, Rollback, Close, Steps
  <2>3. Received' /\ pc'[r] # "commit"
    BY <1>1, <1>7 DEF IInv, TypeOK, Received, Retry
  <2>4. QED
    BY <1>1, <1>7, <2>2, <2>3, QuietInvariant DEF Retry, Rollback, Close, IInv, TypeOK
<1>8. ASSUME NEW r \in Requests, EvictAbilities(r) \/ EvictSession(r) PROVE IInv'
  <2>1. TypeOK'
    BY <1>1, <1>8 DEF IInv, TypeOK, EvictAbilities, EvictSession, Steps
  <2>2. Received' /\ pc'[r] # "commit"
    BY <1>1, <1>8 DEF IInv, TypeOK, Received, EvictAbilities, EvictSession
  <2>3. QED
    BY <1>1, <1>8, <2>1, <2>2, QuietInvariant
       DEF EvictAbilities, EvictSession, IInv, TypeOK
<1>9. QED
  BY <1>1, <1>2, <1>3, <1>4, <1>5, <1>6, <1>7, <1>8
     DEF Next, RequestStep, Progress, TxStep, Refuse, GiveUp, Answer, Crash

\* The invariant holds of every behaviour.
LEMMA Invariant == SafeSpec => []IInv
  BY InitInvariant, StepInvariant, PTL DEF SafeSpec

------------------------------------------------------------------------------
\* Every variable has its type, and no request starts more than RetryLimit
\* transactions (users.service.ts:355-367).
THEOREM TypeCorrect == SafeSpec => []TypeOK
<1>1. IInv => TypeOK
  BY DEF IInv
<1>2. QED
  BY <1>1, Invariant, PTL

\* An active SUPER_ADMIN remains, for any number of accounts and of requests
\* (ensureSuperAdminRetention, users.service.ts:398-429).
THEOREM Retention == SafeSpec => []SuperAdminRemains
<1>1. IInv => SuperAdminRemains
  BY DEF IInv
<1>2. QED
  BY <1>1, Invariant, PTL

\* A commit is an operation of UserTable on the table as it is.
LEMMA ApplyImplements ==
    ASSUME IInv, NEW r \in Requests, Apply(r)
    PROVE  Table!Next
<1> DEFINE u == op[r].user
           x == row[u]
<1>1. /\ op[r] \in Operation /\ u \in Users /\ StillRight(r)
      /\ row' \in [Users -> Table!Row \cup {Nil}]
      /\ row \in [Users -> Table!Row \cup {Nil}]
      /\ row' = [row EXCEPT ![u] = write[r]]
  BY ApplyFacts DEF Apply, IInv, TypeOK
<1>2. Table!Put(u, Result(op[r], x))
  <2>1. PICK v \in Users : Table!IsActiveSuperAdmin(row'[v])
    BY ApplyKeepsSuperAdmin DEF SuperAdminRemains, ActiveSuperAdmins
  <2>2. row'[v] = IF v = u THEN write[r] ELSE row[v]
    BY <1>1
  <2>3. QED
    BY <1>1, <2>1, <2>2 DEF Table!Put, StillRight
<1>3. ~Refused(op[r], x)
  BY <1>1 DEF StillRight
<1>4. CASE op[r].kind = "create"
  <2>1. op[r].role \in Roles /\ Result(op[r], x) = Table!NewRow(op[r].role)
    BY <1>1, <1>4, OperationOfKind, ResultOfKind
  <2>2. Table!Create(u, op[r].role)
    BY <1>2, <1>3, <1>4, <2>1 DEF Refused, Table!Create
  <2>3. QED
    BY <1>1, <2>1, <2>2 DEF Table!Next
<1>5. CASE op[r].kind = "update"
  <2>1. op[r].change \in Table!Change /\ Result(op[r], x) = Table!Changed(x, op[r].change)
    BY <1>1, <1>5, OperationOfKind, ResultOfKind
  <2>2. Table!Update(u, op[r].change)
    BY <1>2, <1>3, <1>5, <2>1 DEF Refused, Table!Update
  <2>3. QED
    BY <1>1, <2>1, <2>2 DEF Table!Next
<1>6. CASE op[r].kind = "remove"
  <2>1. Result(op[r], x) = Table!Removed(x)
    BY <1>1, <1>6, ResultOfKind
  <2>2. Table!Remove(u)
    BY <1>2, <1>3, <1>6, <2>1 DEF Refused, Table!Remove
  <2>3. QED
    BY <1>1, <2>2 DEF Table!Next
<1>7. CASE op[r].kind = "restore"
  <2>1. Result(op[r], x) = Table!Restored(x)
    BY <1>1, <1>7, ResultOfKind
  <2>2. Table!Restore(u)
    BY <1>2, <1>3, <1>7, <2>1 DEF Refused, Table!Restore
  <2>3. QED
    BY <1>1, <2>2 DEF Table!Next
<1>8. QED
  BY <1>1, <1>4, <1>5, <1>6, <1>7, OperationOfKind

\* Every step is an operation of UserTable, or leaves the table alone.
LEMMA StepImplements == IInv /\ [Next]_adminVars => [Table!Next]_row
<1>1. SUFFICES ASSUME IInv, Next PROVE Table!Next \/ row' = row
  BY DEF adminVars
<1>2. ASSUME NEW r \in Requests, Apply(r) PROVE Table!Next
  BY <1>1, <1>2, ApplyImplements
<1>3. QED
  BY <1>1, <1>2
     DEF Next, RequestStep, Progress, TxStep, Receive, Begin, Refuse, CommitTx,
         Retry, GiveUp, EvictAbilities, EvictSession, Answer, Crash

\* The service implements UserTable, for any number of accounts and of requests
\* (withSerializableTransaction, users.service.ts:352-370).
THEOREM Refinement == SafeSpec => OperationsAreAtomic
<1>1. Init => Table!Init
  BY DEF Init
<1>2. QED
  BY <1>1, StepImplements, Invariant, PTL DEF SafeSpec, OperationsAreAtomic, Table!Spec
==============================================================================
