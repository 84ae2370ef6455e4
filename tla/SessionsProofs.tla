--------------------------- MODULE SessionsProofs ---------------------------
(***************************************************************************)
(* Proofs about Sessions and Judgements, for any number of administrators  *)
(* and protected requests: type correctness, the cause of every outdated   *)
(* session, and what the requests are judged by.                           *)
(*                                                                         *)
(* What a commit does to a cached session depends on a decision taken on   *)
(* the transaction's snapshot.  Needless says why that is sound: while the *)
(* transaction may still commit, an operation that evicts nothing writes   *)
(* the row that is there, or a first one.                                  *)
(***************************************************************************)
EXTENDS Judgements, TLAPS

Received == \A r \in Requests : pc[r] # "idle" => op[r] \in Admin!Operation

Needless ==
    \A r \in Requests :
        (pc[r] = "commit" /\ ~Admin!Evicts(op[r]) /\ ~Admin!Conflicts(r))
            => row[op[r].user] \in {Nil, write[r]}

\* A protected request that has started names an account, and one that is past the
\* session cache works with a usable row.
Carries ==
    \A v \in Calls :
        /\ at[v] # "idle" => bearer[v] \in Users
        /\ at[v] \in {"cache", "ability", "build"} => seen[v] \in UsableRow

\* Rules are cached under the role they were built for.
RulesMatchRole ==
    \A u \in Users, role \in Roles : ability[u][role] \in {Nil, role}

CacheTypes ==
    /\ session \in [Users -> Session \cup {Nil}]
    /\ ability \in [Users -> [Roles -> Roles \cup {Nil}]]
    /\ at \in [Calls -> CallSteps]
    /\ bearer \in [Calls -> Users \cup {Nil}]
    /\ seen \in [Calls -> UsableRow \cup {Nil}]

AdminInv == Admin!TypeOK /\ Received /\ Needless

CacheInv == CacheTypes /\ Carries /\ RulesMatchRole

IInv == AdminInv /\ CacheInv /\ OutdatedSessionHasACause

------------------------------------------------------------------------------
(* Operations. *)

\* What an operation asks for, case by case.
LEMMA OperationOfKind ==
    ASSUME NEW o \in Admin!Operation
    PROVE  /\ o.user \in Users
           /\ o.kind \in {"create", "update", "remove", "restore"}
           /\ o.kind = "create" => o.role \in Roles
           /\ o.kind = "update" => o.change \in Admin!Table!Change
  BY SessionAssumption DEF Admin!Operation, Admin!Table!Change

\* Result, case by case.
LEMMA ResultOfKind ==
    ASSUME NEW o \in Admin!Operation, NEW x
    PROVE  /\ o.kind = "create" => Admin!Result(o, x) = Admin!Table!NewRow(o.role)
           /\ o.kind = "update" => Admin!Result(o, x) = Admin!Table!Changed(x, o.change)
           /\ o.kind = "remove" => Admin!Result(o, x) = Admin!Table!Removed(x)
           /\ o.kind = "restore" => Admin!Result(o, x) = Admin!Table!Restored(x)
  BY Zenon DEF Admin!Result

\* An operation that is not refused makes a row of what it finds; one that evicts nothing
\* finds nothing, or makes of the row what it is.
LEMMA ResultFacts ==
    ASSUME NEW o \in Admin!Operation, NEW x \in Row \cup {Nil}, ~Admin!Refused(o, x)
    PROVE  /\ Admin!Result(o, x) \in Row
           /\ ~Admin!Evicts(o) => x \in {Nil, Admin!Result(o, x)}
<1> USE OperationOfKind, ResultOfKind
<1>1. CASE o.kind = "create"
  <2>1. x = Nil /\ o.role \in Roles /\ Admin!Result(o, x) = Admin!Table!NewRow(o.role)
    BY <1>1 DEF Admin!Refused
  <2>2. QED
    BY ONLY <2>1 DEF Admin!Table!NewRow, Row
<1>2. CASE o.kind = "update"
  <2>1. /\ x \in Row
        /\ o.change \in Admin!Table!Change
        /\ Admin!Result(o, x) = Admin!Table!Changed(x, o.change)
    BY <1>2 DEF Admin!Refused
  <2>2. Admin!Table!Changed(x, o.change) \in Row
    BY <2>1 DEF Admin!Table!Changed, Admin!Table!Change, Row
  <2>3. ASSUME o.change.role = Nil, o.change.isActive = Nil
        PROVE  Admin!Table!Changed(x, o.change) = x
    BY <2>1, <2>3 DEF Admin!Table!Changed, Row
  <2>4. QED
    BY <1>2, <2>1, <2>2, <2>3 DEF Admin!Evicts
<1>3. CASE o.kind = "remove"
  <2>1. x \in Row /\ Admin!Result(o, x) = Admin!Table!Removed(x) /\ Admin!Evicts(o)
    BY <1>3 DEF Admin!Refused, Admin!Evicts
  <2>2. QED
    BY ONLY <2>1 DEF Admin!Table!Removed, Row
<1>4. CASE o.kind = "restore"
  <2>1. x \in Row /\ Admin!Result(o, x) = Admin!Table!Restored(x) /\ Admin!Evicts(o)
    BY <1>4 DEF Admin!Refused, Admin!Evicts
  <2>2. QED
    BY ONLY <2>1 DEF Admin!Table!Restored, Row
<1>5. QED
  BY <1>1, <1>2, <1>3, <1>4

------------------------------------------------------------------------------
(* Administration. *)

\* A step of r that leaves the table alone keeps what the others have decided.
LEMMA QuietAdmin ==
    ASSUME AdminInv, NEW r \in Requests, row' = row, Admin!TypeOK', Received',
           (pc'[r] = "commit" /\ ~Admin!Evicts(op'[r])) => row[op'[r].user] \in {Nil, write'[r]},
           \A s \in Requests \ {r} :
               pc'[s] = pc[s] /\ op'[s] = op[s] /\ write'[s] = write[s]
                   /\ counted'[s] = counted[s] /\ rivals'[s] = rivals[s]
    PROVE  AdminInv'
<1>1. SUFFICES ASSUME NEW s \in Requests, pc'[s] = "commit",
                      ~Admin!Evicts(op'[s]), ~Admin!Conflicts(s)'
               PROVE  row[op'[s].user] \in {Nil, write'[s]}
  BY DEF AdminInv, Needless, Admin!Evicts
<1>2. CASE s # r
  BY <1>1, <1>2 DEF AdminInv, Needless, Admin!Conflicts
<1>3. QED
  BY <1>1, <1>2

\* A request that ends decides nothing for the others.
LEMMA IdleAdmin ==
    ASSUME AdminInv, NEW r \in Requests, Admin!Idle(r), UNCHANGED row
    PROVE  AdminInv'
<1>1. Admin!TypeOK'
  BY SessionAssumption
     DEF AdminInv, Admin!TypeOK, Admin!Idle, Admin!Rollback, Admin!Close, Admin!Steps
<1>2. Received' /\ pc'[r] # "commit"
  BY DEF AdminInv, Admin!TypeOK, Received, Admin!Idle
<1>3. QED
  BY <1>1, <1>2, QuietAdmin
     DEF AdminInv, Admin!TypeOK, Admin!Idle, Admin!Rollback, Admin!Close

\* A commit writes one row; whoever was about to write it conflicts from now on.
LEMMA CommitAdmin ==
    ASSUME AdminInv, NEW r \in Requests, Admin!CommitTx(r)
    PROVE  /\ AdminInv'
           /\ op[r].user \in Users
           /\ row' = [row EXCEPT ![op[r].user] = write[r]]
           /\ ~Admin!Evicts(op[r]) => row[op[r].user] \in {Nil, write[r]}
<1> USE DEF AdminInv
<1>1. op[r] \in Admin!Operation /\ op[r].user \in Users
  BY OperationOfKind DEF Admin!CommitTx, Admin!Apply, Received
<1>2. row' = [row EXCEPT ![op[r].user] = write[r]]
  BY DEF Admin!CommitTx, Admin!Apply
<1>3. ~Admin!Evicts(op[r]) => row[op[r].user] \in {Nil, write[r]}
  BY DEF Admin!CommitTx, Admin!Apply, Needless
<1>4. [user |-> op[r].user, counted |-> counted[r]] \in Admin!Commit
  BY <1>1 DEF Admin!Commit, Admin!TypeOK
<1>5. rivals' = Admin!Others(r) /\ Admin!Others(r) \in [Requests -> SUBSET Admin!Commit]
  BY <1>4 DEF Admin!CommitTx, Admin!Apply, Admin!Others, Admin!TypeOK
<1>6. Admin!TypeOK'
  <2>1. row' \in [Users -> Admin!Table!Row \cup {Nil}]
    BY <1>1, <1>2 DEF Admin!TypeOK
  <2>2. pc' \in [Requests -> Admin!Steps] /\ op' \in [Requests -> Admin!Operation \cup {Nil}]
    BY DEF Admin!TypeOK, Admin!CommitTx, Admin!Steps
  <2>3. attempt' \in [Requests -> 0 .. RetryLimit]
    BY SessionAssumption DEF Admin!TypeOK, Admin!CommitTx
  <2>4. /\ write' \in [Requests -> Admin!Table!Row \cup {Nil}]
        /\ counted' \in [Requests -> BOOLEAN]
    BY DEF Admin!TypeOK, Admin!CommitTx, Admin!Close
  <2>5. rivals' \in [Requests -> SUBSET Admin!Commit]
    BY <1>5
  <2>6. QED
    BY <2>1, <2>2, <2>3, <2>4, <2>5 DEF Admin!TypeOK
<1>7. Received'
  BY <1>1 DEF Received, Admin!TypeOK, Admin!CommitTx
<1>8. Needless'
  <2>1. SUFFICES ASSUME NEW s \in Requests, pc'[s] = "commit",
                        ~Admin!Evicts(op'[s]), ~Admin!Conflicts(s)'
                 PROVE  row'[op'[s].user] \in {Nil, write'[s]}
    BY DEF Needless, Admin!Evicts
  <2>2. s # r /\ pc[s] = "commit" /\ op'[s] = op[s]
         /\ write'[s] = write[s] /\ counted'[s] = counted[s]
    BY <2>1 DEF Admin!CommitTx, Admin!Close, Admin!TypeOK
  <2>3. rivals'[s] = rivals[s] \cup {[user |-> op[r].user, counted |-> counted[r]]}
    BY <1>5, <2>2 DEF Admin!Others
  <2>4. ~Admin!Conflicts(s) /\ op[s].user # op[r].user
    <3>1. ~(\E c \in rivals'[s] : c.user = op[s].user \/ (c.counted /\ counted[s]))
      BY <2>1, <2>2 DEF Admin!Conflicts
    <3>2. [user |-> op[r].user, counted |-> counted[r]].user # op[s].user
      BY <2>3, <3>1
    <3>3. QED
      BY <2>3, <3>1, <3>2 DEF Admin!Conflicts
  <2>5. op[s].user \in Users
    BY <2>2, OperationOfKind DEF Received
  <2>6. row[op[s].user] \in {Nil, write[s]}
    BY <2>1, <2>2, <2>4 DEF Needless
  <2>7. QED
    BY <1>2, <2>2, <2>4, <2>5, <2>6 DEF Admin!TypeOK
<1>9. QED
  BY <1>1, <1>2, <1>3, <1>6, <1>7, <1>8

\* Every other step of an administrator's request leaves the table alone.
LEMMA AdminStepKeeps ==
    ASSUME AdminInv, NEW r \in Requests, Admin!RequestStep(r)
    PROVE  AdminInv'
<1> USE DEF AdminInv
<1>1. ASSUME NEW o \in Admin!Operation, Admin!Receive(r, o)
      PROVE  AdminInv'
  <2>1. Admin!TypeOK'
    BY <1>1, SessionAssumption DEF Admin!TypeOK, Admin!Receive, Admin!Steps
  <2>2. Received' /\ pc'[r] # "commit"
    BY <1>1 DEF Admin!TypeOK, Received, Admin!Receive
  <2>3. QED
    BY <1>1, <2>1, <2>2, QuietAdmin DEF Admin!Receive, Admin!TypeOK
<1>2. ASSUME Admin!Begin(r)
      PROVE  AdminInv'
  <2>1. op[r] \in Admin!Operation /\ op[r].user \in Users
    BY <1>2, OperationOfKind DEF Admin!Begin, Received
  <2>2. /\ write'[r] = Admin!Result(op[r], row[op[r].user])
        /\ write'[r] \in Row
        /\ ~Admin!Evicts(op[r]) => row[op[r].user] \in {Nil, write'[r]}
    BY <1>2, <2>1, ResultFacts DEF Admin!Begin, Admin!TypeOK, Row, Admin!Table!Row
  <2>3. counted'[r] \in BOOLEAN
    BY <1>2 DEF Admin!Begin, Admin!TypeOK, Admin!Demotes, Admin!Table!IsActiveSuperAdmin
  <2>4. Admin!TypeOK'
    BY <1>2, <2>2, <2>3 DEF Admin!TypeOK, Admin!Begin, Admin!Steps, Row, Admin!Table!Row
  <2>5. Received'
    BY <1>2 DEF Admin!TypeOK, Received, Admin!Begin
  <2>6. QED
    BY <1>2, <2>2, <2>4, <2>5, QuietAdmin DEF Admin!Begin, Admin!TypeOK
<1>3. ASSUME Admin!Retry(r)
      PROVE  AdminInv'
  <2>1. attempt[r] \in 0 .. RetryLimit /\ attempt[r] + 1 \in 0 .. RetryLimit
    BY <1>3, SessionAssumption DEF Admin!Retry, Admin!TypeOK
  <2>2. Admin!TypeOK'
    BY <1>3, <2>1 DEF Admin!TypeOK, Admin!Retry, Admin!Rollback, Admin!Close, Admin!Steps
  <2>3. Received' /\ pc'[r] # "commit"
    BY <1>3 DEF Admin!TypeOK, Received, Admin!Retry
  <2>4. QED
    BY <1>3, <2>2, <2>3, QuietAdmin
       DEF Admin!Retry, Admin!Rollback, Admin!Close, Admin!TypeOK
<1>4. ASSUME Admin!EvictAbilities(r) \/ Admin!EvictSession(r)
      PROVE  AdminInv'
  <2>1. Admin!TypeOK'
    BY <1>4 DEF Admin!TypeOK, Admin!EvictAbilities, Admin!EvictSession, Admin!Steps
  <2>2. Received' /\ pc'[r] # "commit"
    BY <1>4 DEF Admin!TypeOK, Received, Admin!EvictAbilities, Admin!EvictSession
  <2>3. QED
    BY <1>4, <2>1, <2>2, QuietAdmin
       DEF Admin!EvictAbilities, Admin!EvictSession, Admin!TypeOK
<1>5. QED
  BY <1>1, <1>2, <1>3, <1>4, IdleAdmin, CommitAdmin
     DEF Admin!RequestStep, Admin!Progress, Admin!TxStep, Admin!Refuse, Admin!GiveUp,
         Admin!Answer, Admin!Crash

\* What is left of a request's steps once AdminStep has named those that evict.
LEMMA AdminTxIsQuiet ==
    ASSUME AdminInv, NEW r \in Requests, NEW u \in Users,
           (\E o \in Admin!Operation : Admin!Receive(r, o)) \/ Admin!TxStep(r) \/ Admin!Answer(r)
    PROVE  /\ \A s \in Requests \ {r} : pc'[s] = pc[s] /\ op'[s] = op[s]
           /\ pc[r] \notin {"abilities", "session"}
           /\ \/ row[u] \in {Nil, row'[u]}
              \/ pc'[r] \in {"abilities", "session"} /\ op'[r].user = u
<1> USE DEF AdminInv, Admin!TypeOK
<1>1. CASE \E o \in Admin!Operation : Admin!Receive(r, o)
  BY <1>1 DEF Admin!Receive
<1>2. CASE Admin!Begin(r)
  BY <1>2 DEF Admin!Begin
<1>3. CASE Admin!Refuse(r) \/ Admin!GiveUp(r) \/ Admin!Answer(r)
  BY <1>3 DEF Admin!Refuse, Admin!GiveUp, Admin!Answer, Admin!Idle
<1>4. CASE Admin!Retry(r)
  BY <1>4 DEF Admin!Retry
<1>5. CASE Admin!CommitTx(r)
  <2>1. /\ row' = [row EXCEPT ![op[r].user] = write[r]]
        /\ op[r].user \in Users
        /\ ~Admin!Evicts(op[r]) => row[op[r].user] \in {Nil, write[r]}
    BY <1>5, CommitAdmin
  <2>2. pc[r] = "commit" /\ op' = op
    BY <1>5 DEF Admin!CommitTx, Admin!Apply
  <2>3. pc' = [pc EXCEPT ![r] = IF Admin!Evicts(op[r]) THEN "abilities" ELSE "audit"]
    BY <1>5 DEF Admin!CommitTx
  <2>4. CASE u = op[r].user
    BY <2>1, <2>2, <2>3, <2>4
  <2>5. CASE u # op[r].user
    BY <2>1, <2>2, <2>3, <2>5
  <2>6. QED
    BY <2>4, <2>5
<1>6. QED
  BY <1>1, <1>2, <1>3, <1>4, <1>5 DEF Admin!TxStep

------------------------------------------------------------------------------
(* The session cache. *)

\* A step of r keeps the cause of an outdated session, unless r's eviction was it; and it
\* outdates none without being a cause itself.
LEMMA AdminKeepsCause ==
    ASSUME CacheTypes, OutdatedSessionHasACause, NEW r \in Requests,
           \A s \in Requests \ {r} : pc'[s] = pc[s] /\ op'[s] = op[s],
           \A u \in Users :
               \/ session'[u] = Nil
               \/ session'[u].excused
               \/ pc'[r] \in {"abilities", "session"} /\ op'[r].user = u
               \/ /\ session'[u] = session[u]
                  /\ row[u] \in {Nil, row'[u]}
                  /\ ~(pc[r] \in {"abilities", "session"} /\ op[r].user = u)
    PROVE  OutdatedSessionHasACause'
<1>1. SUFFICES ASSUME NEW u \in Users, session'[u] # Nil, ~session'[u].excused,
                      session'[u].row # row'[u]
               PROVE  EvictionDue(u)'
  BY DEF OutdatedSessionHasACause
<1>2. CASE pc'[r] \in {"abilities", "session"} /\ op'[r].user = u
  BY <1>2 DEF EvictionDue
<1>3. CASE /\ session'[u] = session[u]
           /\ row[u] \in {Nil, row'[u]}
           /\ ~(pc[r] \in {"abilities", "session"} /\ op[r].user = u)
  <2>1. session[u].row # Nil
    BY <1>1, <1>3 DEF CacheTypes, Session, UsableRow, Usable
  <2>2. EvictionDue(u)
    BY <1>1, <1>3, <2>1 DEF OutdatedSessionHasACause
  <2>3. PICK s \in Requests : pc[s] \in {"abilities", "session"} /\ op[s].user = u
    BY <2>2 DEF EvictionDue
  <2>4. s # r
    BY <1>3, <2>3
  <2>5. QED
    BY <2>3, <2>4 DEF EvictionDue
<1>4. QED
  BY <1>1, <1>2, <1>3

\* A step that leaves the administrators alone keeps every cause.
LEMMA CallKeepsCause ==
    ASSUME OutdatedSessionHasACause, UNCHANGED adminVars,
           \A u \in Users :
               \/ session'[u] = Nil
               \/ session'[u].excused
               \/ session'[u].row = row[u]
               \/ /\ session[u] # Nil
                  /\ session'[u].row = session[u].row
                  /\ session'[u].excused = session[u].excused
    PROVE  OutdatedSessionHasACause'
  BY DEF OutdatedSessionHasACause, EvictionDue, adminVars

LEMMA CallKeepsAdmin ==
    ASSUME AdminInv, UNCHANGED adminVars
    PROVE  AdminInv'
  BY DEF AdminInv, adminVars, Admin!TypeOK, Received, Needless, Admin!Conflicts, Admin!Evicts

LEMMA ExcuseFacts ==
    ASSUME CacheTypes, NEW u \in Users, Excuse(u)
    PROVE  /\ session' \in [Users -> Session \cup {Nil}]
           /\ session'[u] = Nil \/ session'[u].excused
           /\ \A x \in Users \ {u} : session'[x] = session[x]
<1>1. CASE session[u] = Nil
  BY <1>1 DEF CacheTypes, Excuse
<1>2. CASE session[u] # Nil
  <2>1. session[u] \in Session
    BY <1>2 DEF CacheTypes
  <2>2. session' = [session EXCEPT ![u] = [session[u] EXCEPT !.excused = TRUE]]
    BY <1>2 DEF Excuse
  <2>3. /\ [session[u] EXCEPT !.excused = TRUE] \in Session
        /\ [session[u] EXCEPT !.excused = TRUE].excused
    BY <2>1 DEF Session
  <2>4. QED
    BY <2>2, <2>3 DEF CacheTypes
<1>3. QED
  BY <1>1, <1>2

\* Only abilities and sessions can be disturbed while the protected requests stand still.
LEMMA CallsStand ==
    ASSUME CacheInv, UNCHANGED callVars, session' \in [Users -> Session \cup {Nil}],
           \/ ability' = ability
           \/ \E u \in Users : ability' = [ability EXCEPT ![u] = [role \in Roles |-> Nil]]
    PROVE  CacheInv'
<1>1. CacheTypes'
  BY DEF CacheInv, CacheTypes, callVars
<1>2. Carries'
  BY DEF CacheInv, Carries, callVars
<1>3. RulesMatchRole'
  BY DEF CacheInv, CacheTypes, RulesMatchRole
<1>4. QED
  BY <1>1, <1>2, <1>3 DEF CacheInv

LEMMA AdminPreserves ==
    ASSUME IInv, NEW r \in Requests, AdminStep(r)
    PROVE  IInv'
<1> USE DEF IInv
<1>1. CASE AdminTx(r)
  <2>1. AdminInv'
    BY <1>1, AdminStepKeeps DEF AdminTx, Admin!RequestStep, Admin!Progress
  <2>2. session' = session /\ ability' = ability /\ UNCHANGED callVars
    BY <1>1 DEF AdminTx, cacheVars
  <2>3. CacheInv'
    BY <2>2, CallsStand DEF CacheInv, CacheTypes
  <2>4. /\ \A s \in Requests \ {r} : pc'[s] = pc[s] /\ op'[s] = op[s]
        /\ \A u \in Users :
               \/ pc'[r] \in {"abilities", "session"} /\ op'[r].user = u
               \/ /\ row[u] \in {Nil, row'[u]}
                  /\ ~(pc[r] \in {"abilities", "session"} /\ op[r].user = u)
    <3>1. \A s \in Requests \ {r} : pc'[s] = pc[s] /\ op'[s] = op[s]
      <4>1. CASE Users = {}
        BY <1>1, <4>1, OperationOfKind
           DEF AdminTx, AdminInv, Received, Admin!TypeOK, Admin!TxStep, Admin!Begin, Admin!Refuse,
               Admin!CommitTx, Admin!Apply, Admin!Retry, Admin!GiveUp, Admin!Answer,
               Admin!Receive, Admin!Idle
      <4>2. CASE Users # {}
        BY <1>1, <4>2, AdminTxIsQuiet DEF AdminTx
      <4>3. QED
        BY <4>1, <4>2
    <3>2. QED
      BY <1>1, <3>1, AdminTxIsQuiet DEF AdminTx
  <2>5. OutdatedSessionHasACause'
    BY <2>2, <2>4, AdminKeepsCause DEF CacheInv
  <2>6. QED
    BY <2>1, <2>3, <2>5
<1>2. CASE AdminCrash(r)
  <2>1. AdminInv'
    BY <1>2, AdminStepKeeps DEF AdminCrash, Admin!RequestStep
  <2>2. /\ op[r].user \in Users
        /\ \A s \in Requests \ {r} : pc'[s] = pc[s] /\ op'[s] = op[s]
        /\ row' = row
    BY <1>2, OperationOfKind
       DEF AdminCrash, Admin!Crash, Admin!Idle, AdminInv, Received, Admin!TypeOK
  <2>3. /\ session' \in [Users -> Session \cup {Nil}]
        /\ \A u \in Users :
               \/ session'[u] = Nil
               \/ session'[u].excused
               \/ /\ session'[u] = session[u]
                  /\ ~(pc[r] \in {"abilities", "session"} /\ op[r].user = u)
    <3>1. CASE pc[r] \in {"abilities", "session"}
      BY <1>2, <2>2, <3>1, ExcuseFacts DEF AdminCrash, CacheInv
    <3>2. CASE pc[r] \notin {"abilities", "session"}
      BY <1>2, <3>2 DEF AdminCrash, CacheInv, CacheTypes
    <3>3. QED
      BY <3>1, <3>2
  <2>4. CacheInv'
    BY <1>2, <2>3, CallsStand DEF AdminCrash
  <2>5. OutdatedSessionHasACause'
    BY <2>2, <2>3, AdminKeepsCause DEF CacheInv
  <2>6. QED
    BY <2>1, <2>4, <2>5
<1>3. CASE AdminEvictAbilities(r)
  <2>1. AdminInv'
    BY <1>3, AdminStepKeeps DEF AdminEvictAbilities, Admin!RequestStep, Admin!Progress
  <2>2. /\ op[r].user \in Users
        /\ pc[r] = "abilities"
        /\ pc' = [pc EXCEPT ![r] = "session"]
        /\ op' = op
        /\ row' = row
        /\ session' = session
    BY <1>3, OperationOfKind
       DEF AdminEvictAbilities, Admin!EvictAbilities, AdminInv, Received, Admin!TypeOK
  <2>3. CacheInv'
    BY <1>3, <2>2, CallsStand DEF AdminEvictAbilities, CacheInv, CacheTypes
  <2>4. OutdatedSessionHasACause'
    BY <2>2, AdminKeepsCause DEF CacheInv, AdminInv, Admin!TypeOK
  <2>5. QED
    BY <2>1, <2>3, <2>4
<1>4. CASE AdminEvictSession(r)
  <2>1. AdminInv'
    BY <1>4, AdminStepKeeps DEF AdminEvictSession, Admin!RequestStep, Admin!Progress
  <2>2. /\ op[r].user \in Users
        /\ \A s \in Requests \ {r} : pc'[s] = pc[s] /\ op'[s] = op[s]
        /\ row' = row
    BY <1>4, OperationOfKind
       DEF AdminEvictSession, Admin!EvictSession, AdminInv, Received, Admin!TypeOK
  <2>3. /\ session' \in [Users -> Session \cup {Nil}]
        /\ session'[op[r].user] = Nil \/ session'[op[r].user].excused
        /\ \A x \in Users \ {op[r].user} : session'[x] = session[x]
    <3>1. CASE session' = [session EXCEPT ![op[r].user] = Nil]
      BY <2>2, <3>1 DEF CacheInv, CacheTypes
    <3>2. CASE Excuse(op[r].user)
      BY <2>2, <3>2, ExcuseFacts DEF CacheInv
    <3>3. QED
      BY <1>4, <3>1, <3>2 DEF AdminEvictSession
  <2>4. CacheInv'
    BY <1>4, <2>3, CallsStand DEF AdminEvictSession
  <2>5. OutdatedSessionHasACause'
    BY <2>2, <2>3, AdminKeepsCause DEF CacheInv
  <2>6. QED
    BY <2>1, <2>4, <2>5
<1>5. QED
  BY <1>1, <1>2, <1>3, <1>4 DEF AdminStep

------------------------------------------------------------------------------
(* Protected requests, and time. *)

\* A request that goes on, with the account and the row it has, or ends.
LEMMA Moves ==
    ASSUME CacheTypes, Carries, NEW v \in Calls,
           \/ \E step \in CallSteps, x \in UsableRow \cup {Nil} :
                  /\ GoAt(v, step, x)
                  /\ at[v] # "idle"
                  /\ step \in {"cache", "ability", "build"} => x \in UsableRow
           \/ Finish(v)
    PROVE  /\ at' \in [Calls -> CallSteps]
           /\ bearer' \in [Calls -> Users \cup {Nil}]
           /\ seen' \in [Calls -> UsableRow \cup {Nil}]
           /\ Carries'
<1>1. CASE Finish(v)
  BY <1>1 DEF CacheTypes, Carries, Finish, CallSteps
<1>2. ASSUME NEW step \in CallSteps, NEW x \in UsableRow \cup {Nil}, GoAt(v, step, x),
             at[v] # "idle", step \in {"cache", "ability", "build"} => x \in UsableRow
      PROVE  /\ at' \in [Calls -> CallSteps]
             /\ bearer' \in [Calls -> Users \cup {Nil}]
             /\ seen' \in [Calls -> UsableRow \cup {Nil}]
             /\ Carries'
  BY <1>2 DEF CacheTypes, Carries, GoAt
<1>3. QED
  BY <1>1, <1>2

LEMMA CallPreserves ==
    ASSUME IInv, NEW v \in Calls, CallStep(v)
    PROVE  IInv'
<1> USE DEF IInv, CacheInv
<1> DEFINE Moved == /\ at' \in [Calls -> CallSteps]
                    /\ bearer' \in [Calls -> Users \cup {Nil}]
                    /\ seen' \in [Calls -> UsableRow \cup {Nil}]
                    /\ Carries'
<1>1. UNCHANGED adminVars
  BY DEF CallStep, Call, HitSession, MissSession, Load, CacheSession, Unguarded, HitAbility,
         MissAbility, CacheAbility
<1>2. ASSUME Moved, session' = session, ability' = ability
      PROVE  IInv'
  BY <1>1, <1>2, CallKeepsAdmin, CallKeepsCause
     DEF CacheTypes, RulesMatchRole, OutdatedSessionHasACause
<1>3. ASSUME NEW u \in Users, Call(v, u)
      PROVE  IInv'
  <2>1. Moved
    BY <1>3 DEF Call, CacheTypes, Carries, CallSteps
  <2>2. QED
    BY <1>2, <1>3, <2>1 DEF Call, cacheVars
<1>4. CASE HitSession(v)
  <2>1. bearer[v] \in Users /\ session[bearer[v]] \in Session
    BY <1>4 DEF HitSession, Carries, CacheTypes
  <2>2. session[bearer[v]].row \in UsableRow
    BY <2>1 DEF Session
  <2>3. Moved
    BY <1>4, <2>2, Moves DEF HitSession, CallSteps
  <2>4. QED
    BY <1>2, <1>4, <2>3 DEF HitSession, cacheVars
<1>5. CASE MissSession(v)
  <2>1. Moved
    BY <1>5, Moves DEF MissSession, CallSteps
  <2>2. QED
    BY <1>2, <1>5, <2>1 DEF MissSession, cacheVars
<1>6. CASE Load(v)
  <2>1. bearer[v] \in Users
    BY <1>6 DEF Load, Carries
  <2>2. Usable(row[bearer[v]]) => row[bearer[v]] \in UsableRow
    BY <2>1 DEF AdminInv, Admin!TypeOK, UsableRow, Usable, Row, Admin!Table!Row
  <2>3. Moved
    BY <1>6, <2>2, Moves DEF Load, CallSteps
  <2>4. QED
    BY <1>2, <1>6, <2>3 DEF Load, cacheVars
<1>7. CASE CacheSession(v)
  <2>1. bearer[v] \in Users /\ seen[v] \in UsableRow
    BY <1>7 DEF CacheSession, Carries
  <2>2. Moved
    BY <1>7, <2>1, Moves DEF CacheSession, CallSteps
  <2>3. CASE session' = session
    BY <1>2, <1>7, <2>2, <2>3 DEF CacheSession
  <2>4. CASE session' = [session EXCEPT ![bearer[v]] =
                 [row |-> seen[v], age |-> 0, excused |-> seen[v] # row[bearer[v]]]]
    <3> DEFINE entry == [row |-> seen[v], age |-> 0, excused |-> seen[v] # row[bearer[v]]]
    <3>1. /\ entry \in Session
          /\ entry.row = seen[v]
          /\ entry.excused = (seen[v] # row[bearer[v]])
      <4>1. 0 \in 0 .. SessionTTL - 1
        BY SessionAssumption
      <4>2. QED
        BY <2>1, <4>1 DEF Session
    <3> HIDE DEF entry
    <3>2. session' = [session EXCEPT ![bearer[v]] = entry]
      BY <2>4 DEF entry
    <3>3. session' \in [Users -> Session \cup {Nil}] /\ ability' = ability
      BY <1>7, <2>1, <3>1, <3>2 DEF CacheSession, CacheTypes
    <3>4. \A u \in Users \ {bearer[v]} : session'[u] = session[u]
      BY <3>2 DEF CacheTypes
    <3>5. session'[bearer[v]].excused \/ session'[bearer[v]].row = row[bearer[v]]
      BY <2>1, <3>1, <3>2 DEF CacheTypes
    <3>6. OutdatedSessionHasACause'
      BY <1>1, <3>4, <3>5, CallKeepsCause
    <3>7. QED
      BY <1>1, <2>2, <3>3, <3>6, CallKeepsAdmin DEF CacheTypes, RulesMatchRole
  <2>5. QED
    BY <1>7, <2>3, <2>4 DEF CacheSession
<1>8. CASE Unguarded(v) \/ HitAbility(v)
  <2>1. Moved
    BY <1>8, Moves DEF Unguarded, HitAbility
  <2>2. QED
    BY <1>2, <1>8, <2>1 DEF Unguarded, HitAbility, cacheVars
<1>9. CASE MissAbility(v)
  <2>1. seen[v] \in UsableRow
    BY <1>9 DEF MissAbility, Carries
  <2>2. Moved
    BY <1>9, <2>1, Moves DEF MissAbility, CallSteps
  <2>3. QED
    BY <1>2, <1>9, <2>2 DEF MissAbility, cacheVars
<1>10. CASE CacheAbility(v)
  <2>1. bearer[v] \in Users /\ seen[v] \in UsableRow /\ seen[v].role \in Roles
    BY <1>10 DEF CacheAbility, Carries, UsableRow, Row
  <2>2. Moved
    BY <1>10, Moves DEF CacheAbility
  <2>3. CASE ability' = ability
    BY <1>2, <1>10, <2>2, <2>3 DEF CacheAbility
  <2>4. CASE ability' = [ability EXCEPT ![bearer[v]][seen[v].role] = seen[v].role]
    <3>1. /\ ability' \in [Users -> [Roles -> Roles \cup {Nil}]]
          /\ RulesMatchRole'
      BY <2>1, <2>4 DEF CacheTypes, RulesMatchRole
    <3>2. session' = session
      BY <1>10 DEF CacheAbility
    <3>3. OutdatedSessionHasACause'
      BY <1>1, <3>2, CallKeepsCause DEF OutdatedSessionHasACause
    <3>4. QED
      BY <1>1, <2>2, <3>1, <3>2, <3>3, CallKeepsAdmin DEF CacheTypes
  <2>5. QED
    BY <1>10, <2>3, <2>4 DEF CacheAbility
<1>11. QED
  BY <1>3, <1>4, <1>5, <1>6, <1>7, <1>8, <1>9, <1>10 DEF CallStep

LEMMA TimePreserves ==
    ASSUME IInv, NEW u \in Users, SessionAges(u) \/ \E role \in Roles : AbilityExpires(u, role)
    PROVE  IInv'
<1> USE DEF IInv, CacheInv
<1>1. UNCHANGED adminVars /\ UNCHANGED callVars
  BY DEF SessionAges, AbilityExpires
<1>2. CASE SessionAges(u)
  <2>1. session[u] \in Session
    BY <1>2 DEF SessionAges, CacheTypes
  <2> DEFINE entry == [session[u] EXCEPT !.age = @ + 1]
  <2>2. session[u].age + 1 < SessionTTL => /\ entry \in Session
                                           /\ entry.row = session[u].row
                                           /\ entry.excused = session[u].excused
    BY <2>1, SessionAssumption DEF Session
  <2> HIDE DEF entry
  <2>3. \/ session' = [session EXCEPT ![u] = Nil]
        \/ session' = [session EXCEPT ![u] = entry] /\ session[u].age + 1 < SessionTTL
    BY <1>2 DEF SessionAges, entry
  <2>4. session' \in [Users -> Session \cup {Nil}] /\ ability' = ability
    BY <1>2, <2>2, <2>3 DEF SessionAges, CacheTypes
  <2>5. CacheInv'
    BY <1>1, <2>4, CallsStand
  <2>6. \A x \in Users :
            \/ session'[x] = Nil
            \/ session[x] # Nil /\ session'[x].row = session[x].row
                                /\ session'[x].excused = session[x].excused
    BY <1>2, <2>2, <2>3 DEF CacheTypes, SessionAges
  <2>7. QED
    BY <1>1, <2>5, <2>6, CallKeepsAdmin, CallKeepsCause
<1>3. ASSUME NEW role \in Roles, AbilityExpires(u, role)
      PROVE  IInv'
  <2>1. /\ ability' \in [Users -> [Roles -> Roles \cup {Nil}]]
        /\ RulesMatchRole'
        /\ session' = session
    BY <1>3 DEF AbilityExpires, CacheTypes, RulesMatchRole
  <2>2. CacheTypes' /\ Carries'
    BY <1>1, <2>1 DEF CacheTypes, Carries, callVars
  <2>3. OutdatedSessionHasACause'
    BY <1>1, <2>1, CallKeepsCause DEF OutdatedSessionHasACause
  <2>4. QED
    BY <1>1, <2>1, <2>2, <2>3, CallKeepsAdmin
<1>4. QED
  BY <1>2, <1>3

------------------------------------------------------------------------------
(* Theorems. *)

LEMMA InitHolds ==
    Init => IInv
<1>1. SUFFICES ASSUME Init PROVE IInv
  OBVIOUS
<1>2. Admin!TypeOK
  BY <1>1, SessionAssumption
     DEF Init, Admin!Init, Admin!Table!Init, Admin!TypeOK, Admin!Steps, Admin!Table!Row,
         Admin!Table!NewRow
<1>3. Received /\ Needless
  BY <1>1 DEF Init, Admin!Init, Received, Needless
<1>4. CacheInv /\ OutdatedSessionHasACause
  BY <1>1
     DEF Init, CacheInv, CacheTypes, Carries, RulesMatchRole, OutdatedSessionHasACause, CallSteps
<1>5. QED
  BY <1>2, <1>3, <1>4 DEF IInv, AdminInv

LEMMA StepPreserves ==
    IInv /\ [Next]_vars => IInv'
<1>1. SUFFICES ASSUME IInv, [Next]_vars PROVE IInv'
  OBVIOUS
<1>2. CASE UNCHANGED vars
  <2>1. UNCHANGED adminVars /\ UNCHANGED callVars /\ session' = session /\ ability' = ability
    BY <1>2 DEF vars, cacheVars
  <2>2. QED
    BY <1>1, <2>1, CallKeepsAdmin, CallKeepsCause, CallsStand
       DEF IInv, CacheInv, CacheTypes, OutdatedSessionHasACause
<1>3. QED
  BY <1>1, <1>2, AdminPreserves, CallPreserves, TimePreserves DEF Next

LEMMA Invariance ==
    SafeSpec => []IInv
  BY InitHolds, StepPreserves, PTL DEF SafeSpec

\* Every variable of the caches and of the users table has its type, for any number of
\* accounts, administrators and protected requests.
THEOREM TypeCorrect ==
    SafeSpec => []TypeOK
<1>1. IInv => TypeOK
  BY DEF IInv, AdminInv, CacheInv, CacheTypes, TypeOK
<1>2. QED
  BY <1>1, Invariance, PTL

\* No operation of UsersService forgets the eviction of a session it outdates
\* (users.service.ts:216, :286 and :331), for any number of administrators at once.
THEOREM CauseOfOutdatedSession ==
    SafeSpec => []OutdatedSessionHasACause
<1>1. IInv => OutdatedSessionHasACause
  BY DEF IInv
<1>2. QED
  BY <1>1, Invariance, PTL

------------------------------------------------------------------------------
(* Judgements. *)

\* From the moment it has a session, a request that is not overtaken works with the row.
InTime ==
    \A v \in Calls \ overtaken :
        at[v] \in {"cache", "ability", "build"} => seen[v] = row[bearer[v]]

\* A step of v's own request leaves it with the row, or with a cached session that no cause
\* has outdated.
LEMMA OwnStepInTime ==
    ASSUME IInv, InTime, NEW v \in Calls \ overtaken, CallStep(v), ~TakesOutdated(v),
           at'[v] \in {"cache", "ability", "build"}
    PROVE  seen'[v] = row'[bearer'[v]]
<1> USE DEF IInv, CacheInv, CacheTypes
<1>1. row' = row
  BY DEF CallStep, Call, HitSession, MissSession, Load, CacheSession, Unguarded, HitAbility,
         MissAbility, CacheAbility, adminVars
<1>2. CASE HitSession(v)
  <2>1. GoAt(v, "ability", session[bearer[v]].row)
    BY <1>2 DEF HitSession, Finish
  <2>2. bearer[v] \in Users /\ session[bearer[v]] # Nil /\ bearer' = bearer
    BY <1>2, <2>1 DEF HitSession, Carries, GoAt
  <2>3. ~session[bearer[v]].excused /\ ~EvictionDue(bearer[v])
    BY <1>2, <2>1 DEF HitSession, GoAt, TakesOutdated
  <2>4. session[bearer[v]].row = row[bearer[v]]
    BY <2>2, <2>3 DEF OutdatedSessionHasACause
  <2>5. QED
    BY <1>1, <2>1, <2>2, <2>4 DEF GoAt
<1>3. CASE Load(v)
  BY <1>1, <1>3 DEF Load, GoAt, Finish
<1>4. CASE CacheSession(v) \/ MissAbility(v)
  BY <1>1, <1>4 DEF CacheSession, MissAbility, GoAt, InTime
<1>5. CASE (\E u \in Users : Call(v, u)) \/ MissSession(v) \/ Unguarded(v) \/ HitAbility(v)
               \/ CacheAbility(v)
  BY <1>5 DEF Call, MissSession, Unguarded, HitAbility, CacheAbility, GoAt, Finish
<1>6. QED
  BY <1>2, <1>3, <1>4, <1>5 DEF CallStep

\* A step of anything else leaves v's request as it is.
LEMMA OtherStepsStand ==
    ASSUME Next, NEW v \in Calls, ~CallStep(v), at \in [Calls -> CallSteps],
           bearer \in [Calls -> Users \cup {Nil}], seen \in [Calls -> UsableRow \cup {Nil}]
    PROVE  at'[v] = at[v] /\ bearer'[v] = bearer[v] /\ seen'[v] = seen[v]
<1>1. ASSUME NEW r \in Requests, AdminStep(r)
      PROVE  UNCHANGED callVars
  BY <1>1 DEF AdminStep, AdminTx, AdminCrash, AdminEvictAbilities, AdminEvictSession
<1>2. ASSUME NEW w \in Calls, CallStep(w)
      PROVE  w # v /\ at'[v] = at[v] /\ bearer'[v] = bearer[v] /\ seen'[v] = seen[v]
  BY <1>2 DEF CallStep, Call, HitSession, MissSession, Load, CacheSession, Unguarded,
              HitAbility, MissAbility, CacheAbility, GoAt, Finish
<1>3. ASSUME NEW u \in Users, SessionAges(u) \/ \E role \in Roles : AbilityExpires(u, role)
      PROVE  UNCHANGED callVars
  BY <1>3 DEF SessionAges, AbilityExpires
<1>4. QED
  BY <1>1, <1>2, <1>3 DEF Next, callVars

LEMMA InTimeStep ==
    IInv /\ InTime /\ [JudgementsNext]_judgeVars => InTime'
<1>1. SUFFICES ASSUME IInv, InTime, [JudgementsNext]_judgeVars, NEW v \in Calls \ overtaken',
                      at'[v] \in {"cache", "ability", "build"}
               PROVE  seen'[v] = row'[bearer'[v]]
  BY DEF InTime
<1>2. CASE UNCHANGED judgeVars
  BY <1>1, <1>2 DEF judgeVars, vars, adminVars, callVars, InTime
<1>3. CASE JudgementsNext
  <2>1. Next /\ v \notin overtaken /\ ~ChangedBeside(v) /\ ~TakesOutdated(v)
    BY <1>1, <1>3 DEF JudgementsNext, Overtaken
  <2>2. CASE CallStep(v)
    BY <1>1, <2>1, <2>2, OwnStepInTime
  <2>3. CASE ~CallStep(v)
    <3>1. at'[v] = at[v] /\ bearer'[v] = bearer[v] /\ seen'[v] = seen[v]
      BY <1>1, <2>1, <2>3, OtherStepsStand DEF IInv, CacheInv, CacheTypes
    <3>2. row'[bearer[v]] = row[bearer[v]]
      BY <1>1, <2>1, <3>1 DEF ChangedBeside
    <3>3. QED
      BY <1>1, <2>1, <3>1, <3>2 DEF InTime
  <2>4. QED
    BY <2>2, <2>3
<1>4. QED
  BY <1>1, <1>2, <1>3

\* A request that no change of its account has overtaken is judged by the account as it
\* stands and by the rules of its role (jwt.strategy.ts:27-30 and
\* casl-ability.factory.ts:129-130), for any number of administrators and of requests that
\* fill the caches meanwhile.
THEOREM JudgedFairly ==
    JudgementsSafeSpec => []JudgedAsItStands
<1>1. JudgementsInit => Init /\ InTime
  BY DEF JudgementsInit, Init, InTime
<1>2. [JudgementsNext]_judgeVars => [Next]_vars
  BY DEF JudgementsNext, judgeVars
<1>3. JudgementsSafeSpec => []IInv
  BY <1>1, <1>2, InitHolds, StepPreserves, PTL DEF JudgementsSafeSpec
<1>4. JudgementsSafeSpec => []InTime
  BY <1>1, <1>3, InTimeStep, PTL DEF JudgementsSafeSpec
<1>5. IInv /\ InTime => JudgedAsItStands
  <2>1. SUFFICES ASSUME IInv, InTime, NEW v \in Calls \ overtaken, at[v] \in {"ability", "build"}
                 PROVE  /\ seen[v] = row[bearer[v]]
                        /\ ability[bearer[v]][seen[v].role] \in {Nil, row[bearer[v]].role}
    BY DEF JudgedAsItStands
  <2>2. seen[v] = row[bearer[v]]
    BY <2>1 DEF InTime
  <2>3. bearer[v] \in Users /\ seen[v].role \in Roles
    BY <2>1 DEF IInv, CacheInv, Carries, UsableRow, Row
  <2>4. ability[bearer[v]][seen[v].role] \in {Nil, seen[v].role}
    BY <2>1, <2>3 DEF IInv, CacheInv, RulesMatchRole
  <2>5. QED
    BY <2>2, <2>4
<1>6. QED
  BY <1>3, <1>4, <1>5, PTL
=============================================================================
