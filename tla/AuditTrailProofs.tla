-------------------------- MODULE AuditTrailProofs --------------------------
(***************************************************************************)
(* Proofs about AuditTrail, for any number of events, workers and attempts *)
(* and with every failure it models: an entry is written once, a job that  *)
(* counts as completed has one, and no job is given up early.              *)
(*                                                                         *)
(* The first two do not look at time or at the count of attempts: an entry *)
(* is unique because one step, with its auditId as primary key, writes it, *)
(* however often and by however many workers it is tried.  The last is     *)
(* about nothing else: what a job has waited and has still to wait adds up,*)
(* and only the worker that holds its lock changes that.                   *)
(***************************************************************************)
EXTENDS AuditTrail, WellFoundedInduction, TLAPS

LogTypes ==
    /\ pc \in [Events -> Steps]
    /\ committed \subseteq Events
    /\ entries \in [Events -> {0, 1}]
    /\ job \in [Events -> JobStates]
    /\ work \in [Workers -> Work \cup {Nil}]

\* A request calls the service its event calls for, once, and after its commit; an event
\* that is logged at once has no entry before.
Called ==
    \A e \in Events :
        /\ pc[e] = "running" => e \notin committed
        /\ pc[e] \in {"sync", "add"} => e \in committed
        /\ pc[e] = "sync" => e \in Security
        /\ pc[e] = "add" => e \notin Security
        /\ e \in Security /\ pc[e] \in {"running", "sync"} => entries[e] = 0

\* Only committed events have jobs; a completed one has its entry.
Enqueued ==
    \A e \in Events :
        /\ job[e] # "none" => e \in committed \ Security
        /\ job[e] = "completed" => entries[e] = 1

\* A worker handles a job of a committed event, and reports success for one that has its
\* entry.
Handled ==
    \A w \in Workers :
        work[w] # Nil =>
            /\ work[w].event \in committed
            /\ work[w].step = "complete" => entries[work[w].event] = 1

IInv == LogTypes /\ Called /\ Enqueued /\ Handled

------------------------------------------------------------------------------
LEMMA WorkOf ==
    ASSUME IInv, NEW w \in Workers, work[w] # Nil
    PROVE  /\ work[w] \in Work
           /\ work[w].event \in committed \ Security
           /\ work[w].event \in Events
  BY DEF IInv, LogTypes, Handled, Work

\* Jobs change hands, wait and fail without a trace in the log.
LEMMA JobsOnly ==
    ASSUME IInv, UNCHANGED <<pc, committed, entries>>,
           job' \in [Events -> JobStates],
           \A e \in Events :
               /\ job'[e] # "none" => e \in committed \ Security
               /\ job'[e] = "completed" => entries[e] = 1,
           work' \in [Workers -> Work \cup {Nil}],
           \A w \in Workers :
               work'[w] # Nil =>
                   /\ work'[w].event \in committed
                   /\ work'[w].step = "complete" => entries[work'[w].event] = 1
    PROVE  IInv'
  BY DEF IInv, LogTypes, Called, Enqueued, Handled

\* A job is added for an event that has been committed and is not logged at once.
LEMMA AddKeeps ==
    ASSUME IInv, NEW e \in Events, pc[e] = "add", Add(e),
           pc' = pc \/ pc' = [pc EXCEPT ![e] = "over"]
    PROVE  IInv'
<1>1. job' \in [Events -> JobStates]
  BY DEF IInv, LogTypes, Add, JobStates
<1>2. LogTypes'
  BY <1>1 DEF IInv, LogTypes, Add, Steps
<1>3. Called'
  BY DEF IInv, LogTypes, Called, Add
<1>4. Enqueued'
  BY DEF IInv, LogTypes, Called, Enqueued, Add
<1>5. Handled'
  BY DEF IInv, LogTypes, Handled, Add
<1>6. QED
  BY <1>2, <1>3, <1>4, <1>5 DEF IInv

LEMMA RequestPreserves ==
    ASSUME IInv, NEW e \in Events, RequestStep(e)
    PROVE  IInv'
<1>1. CASE Commit(e)
  <2>1. /\ pc[e] = "running"
        /\ committed' = committed \cup {e}
        /\ pc' = [pc EXCEPT ![e] = IF e \in Security THEN "sync" ELSE "add"]
        /\ UNCHANGED <<entries, job, work>>
    BY <1>1 DEF Commit, jobVars
  <2>2. LogTypes'
    BY <2>1 DEF IInv, LogTypes, Steps
  <2>3. Called'
    BY <2>1 DEF IInv, LogTypes, Called
  <2>4. Enqueued' /\ Handled'
    BY <2>1 DEF IInv, Enqueued, Handled
  <2>5. QED
    BY <2>2, <2>3, <2>4 DEF IInv
<1>2. CASE LogSync(e)
  <2>1. /\ pc[e] = "sync"
        /\ pc' = [pc EXCEPT ![e] = "over"]
        /\ UNCHANGED <<committed, job, work>>
        /\ entries' = entries \/ entries' = [entries EXCEPT ![e] = @ + 1]
    BY <1>2 DEF LogSync, jobVars, Enter
  <2>2. e \in Security /\ entries[e] = 0
    BY <2>1 DEF IInv, Called
  <2>3. LogTypes'
    BY <2>1, <2>2 DEF IInv, LogTypes, Steps
  <2>4. Called'
    BY <2>1, <2>2 DEF IInv, LogTypes, Called
  <2>5. Enqueued'
    BY <2>1, <2>2 DEF IInv, LogTypes, Enqueued
  <2>6. Handled'
    BY <2>1, <2>2, WorkOf DEF IInv, LogTypes, Handled
  <2>7. QED
    BY <2>3, <2>4, <2>5, <2>6 DEF IInv
<1>3. ASSUME pc' = [pc EXCEPT ![e] = "over"], UNCHANGED <<committed, entries, job, work>>
      PROVE  IInv'
  BY <1>3 DEF IInv, LogTypes, Called, Enqueued, Handled, Steps
<1>4. CASE LogAsync(e)
  BY <1>3, <1>4, AddKeeps DEF LogAsync, jobVars
<1>5. CASE AddUnanswered(e)
  BY <1>5, AddKeeps DEF AddUnanswered
<1>6. CASE Crash(e)
  BY <1>3, <1>6 DEF Crash, jobVars
<1>7. QED
  BY <1>1, <1>2, <1>4, <1>5, <1>6 DEF RequestStep

LEMMA WorkerPreserves ==
    ASSUME IInv, NEW w \in Workers, WorkerStep(w) \/ WorkerDies(w)
    PROVE  IInv'
<1>1. work[w] # Nil
  BY DEF WorkerStep, WorkerDies, Insert, Complete, Fail, Report
<1>2. /\ work[w] \in Work
      /\ work[w].event \in committed \ Security
      /\ work[w].event \in Events
  BY <1>1, WorkOf
<1> DEFINE e == work[w].event
<1>3. CASE Insert(w)
  <2>1. UNCHANGED <<pc, committed, job>> /\ work[w].step = "insert"
    BY <1>3 DEF Insert, jobVars
  <2>2. PICK step \in {"complete", "fail"} :
            /\ work' = [work EXCEPT ![w].step = step]
            /\ \/ entries[e] = 0 /\ entries' = [entries EXCEPT ![e] = 1]
               \/ entries[e] > 0 /\ entries' = entries
               \/ step = "fail" /\ entries' = entries
    BY <1>2, <1>3 DEF Insert, Goto, Enter, IInv, LogTypes
  <2>3. [work[w] EXCEPT !.step = step] \in Work
    BY <1>2 DEF Work
  <2>4. work' = [work EXCEPT ![w] = [work[w] EXCEPT !.step = step]]
    BY <2>2
  <2>5. LogTypes'
    BY <1>2, <2>1, <2>2, <2>3, <2>4 DEF IInv, LogTypes
  <2>6. \A x \in Events : entries[x] = 1 => entries'[x] = 1
    BY <1>2, <2>2 DEF IInv, LogTypes
  <2>7. step = "complete" => entries'[e] = 1
    BY <1>2, <2>2 DEF IInv, LogTypes
  <2>8. Called'
    BY <1>2, <2>1, <2>2 DEF IInv, LogTypes, Called
  <2>9. Enqueued'
    BY <2>1, <2>6 DEF IInv, Enqueued
  <2>10. Handled'
    <3>1. SUFFICES ASSUME NEW v \in Workers, work'[v] # Nil
                   PROVE  /\ work'[v].event \in committed
                          /\ work'[v].step = "complete" => entries'[work'[v].event] = 1
      BY <2>1 DEF Handled
    <3>2. CASE v = w
      <4>1. work'[v] = [work[w] EXCEPT !.step = step]
        BY <2>4, <3>2 DEF IInv, LogTypes
      <4>2. work'[v].event = e /\ work'[v].step = step
        BY <1>2, <4>1 DEF Work
      <4>3. QED
        BY <1>2, <2>7, <4>2
    <3>3. CASE v # w
      <4>1. work'[v] = work[v] /\ work[v] # Nil
        BY <2>4, <3>1, <3>3 DEF IInv, LogTypes
      <4>2. QED
        BY <2>6, <4>1, WorkOf DEF IInv, Handled
    <3>4. QED
      BY <3>2, <3>3
  <2>11. QED
    BY <2>5, <2>8, <2>9, <2>10 DEF IInv
<1>4. ASSUME work' = [work EXCEPT ![w] = Nil], UNCHANGED <<pc, committed, entries>>,
             \/ job' = job
             \/ \E state \in {"delayed", "failed"} : job' = [job EXCEPT ![e] = state]
             \/ job' = [job EXCEPT ![e] = "completed"] /\ entries[e] = 1
      PROVE  IInv'
  <2>1. job' \in [Events -> JobStates]
    BY <1>4 DEF IInv, LogTypes, JobStates
  <2>2. \A x \in Events :
            /\ job'[x] # "none" => x \in committed \ Security
            /\ job'[x] = "completed" => entries[x] = 1
    BY <1>2, <1>4 DEF IInv, LogTypes, Enqueued
  <2>3. /\ work' \in [Workers -> Work \cup {Nil}]
        /\ \A v \in Workers : work'[v] # Nil => work'[v] = work[v]
    BY <1>4 DEF IInv, LogTypes
  <2>4. QED
    BY <1>4, <2>1, <2>2, <2>3, JobsOnly DEF IInv, Handled
<1>5. CASE Complete(w)
  <2>1. work[w].step = "complete" /\ entries[e] = 1
    BY <1>1, <1>5 DEF Complete, Report, IInv, Handled
  <2>2. QED
    BY <1>4, <1>5, <2>1 DEF Complete, Report
<1>6. CASE Fail(w)
  BY <1>4, <1>6 DEF Fail, Report, TryLater, GiveUp
<1>7. CASE WorkerDies(w)
  BY <1>4, <1>7 DEF WorkerDies, jobVars
<1>8. QED
  BY <1>3, <1>5, <1>6, <1>7 DEF WorkerStep

LEMMA QueuePreserves ==
    ASSUME IInv, NEW e \in Events,
           Stall(e) \/ Due(e) \/ Remove(e) \/ \E w \in Workers : Take(w, e)
    PROVE  IInv'
<1>1. job[e] # "none" /\ UNCHANGED <<pc, committed, entries>>
  BY DEF Stall, Due, Remove, Take
<1>2. e \in committed \ Security
  BY <1>1 DEF IInv, Enqueued
<1>3. \E state \in JobStates \ {"completed"} : job' = [job EXCEPT ![e] = state]
  BY DEF Stall, GiveUp, Due, Remove, Take, JobStates
<1>4. /\ job' \in [Events -> JobStates]
      /\ \A x \in Events :
             /\ job'[x] # "none" => x \in committed \ Security
             /\ job'[x] = "completed" => entries[x] = 1
  BY <1>2, <1>3 DEF IInv, LogTypes, Enqueued
<1>5. CASE Due(e) \/ Remove(e)
  BY <1>1, <1>4, <1>5, JobsOnly DEF Due, Remove, IInv, LogTypes, Handled
<1>6. CASE Stall(e)
  <2>1. \A w \in Workers : work'[w] \in {work[w], [work[w] EXCEPT !.locked = FALSE]}
    BY <1>6 DEF Stall
  <2>2. \A w \in Workers :
            work[w] # Nil => /\ [work[w] EXCEPT !.locked = FALSE] \in Work
                             /\ [work[w] EXCEPT !.locked = FALSE].event = work[w].event
                             /\ [work[w] EXCEPT !.locked = FALSE].step = work[w].step
    BY WorkOf DEF Work
  <2>3. \A w \in Workers : work[w] = Nil => work'[w] = Nil
    BY <1>6 DEF Stall
  <2>4. work' \in [Workers -> Work \cup {Nil}]
    <3>1. work' = [w \in Workers |->
              IF work[w] # Nil /\ work[w].event = e THEN [work[w] EXCEPT !.locked = FALSE]
              ELSE work[w]]
      BY <1>6 DEF Stall
    <3>2. QED
      BY <2>2, <3>1 DEF IInv, LogTypes
  <2>5. \A w \in Workers :
            work'[w] # Nil => /\ work[w] # Nil
                              /\ work'[w].event = work[w].event
                              /\ work'[w].step = work[w].step
    BY <2>1, <2>2, <2>3
  <2>6. QED
    BY <1>1, <1>4, <2>4, <2>5, JobsOnly DEF IInv, Handled
<1>7. ASSUME NEW w \in Workers, Take(w, e)
      PROVE  IInv'
  <2> DEFINE new == [event |-> e, step |-> "insert", locked |-> TRUE]
  <2>1. new \in Work /\ new.event = e /\ new.step = "insert"
    BY <1>2 DEF Work
  <2>2. work' = [work EXCEPT ![w] = new]
    BY <1>7 DEF Take
  <2> HIDE DEF new
  <2>3. /\ work' \in [Workers -> Work \cup {Nil}]
        /\ \A v \in Workers : v # w => work'[v] = work[v]
        /\ work'[w] = new
    BY <2>1, <2>2 DEF IInv, LogTypes
  <2>4. \A v \in Workers :
            work'[v] # Nil =>
                /\ work'[v].event \in committed
                /\ work'[v].step = "complete" => entries[work'[v].event] = 1
    BY <1>2, <2>1, <2>3 DEF IInv, Handled
  <2>5. QED
    BY <1>1, <1>4, <2>3, <2>4, JobsOnly
<1>8. QED
  BY <1>5, <1>6, <1>7

LEMMA InitHolds ==
    Init => IInv
  BY DEF Init, Log!Init, IInv, LogTypes, Called, Enqueued, Handled, Steps, JobStates

LEMMA StepPreserves ==
    IInv /\ [Next]_vars => IInv'
<1>1. SUFFICES ASSUME IInv, [Next]_vars PROVE IInv'
  OBVIOUS
<1>2. CASE Tick \/ UNCHANGED vars
  BY <1>1, <1>2, JobsOnly DEF Tick, vars, jobVars, IInv, LogTypes, Enqueued, Handled
<1>3. QED
  BY <1>1, <1>2, RequestPreserves, WorkerPreserves, QueuePreserves DEF Next

LEMMA Invariance ==
    Spec => []IInv
  BY InitHolds, StepPreserves, PTL DEF Spec

------------------------------------------------------------------------------
\* A job counts as completed only when its entry is there, also if the worker that reports
\* it has lost its lock to another one before (audit.processor.ts:43-50).
THEOREM CompletedJobs ==
    Spec => []CompletedIsEntered
<1>1. IInv => CompletedIsEntered
  BY DEF IInv, Enqueued, CompletedIsEntered
<1>2. QED
  BY <1>1, Invariance, PTL

\* AuditTrail implements AuditLog: however jobs are sent again, stall and are retried, a
\* committed operation is entered once at most, and nothing is entered that was not
\* committed (audit.service.ts:26-29, audit.processor.ts:12-16).
THEOREM Refinement ==
    Spec => EnteredOnce
<1>1. Init => Log!Init
  BY DEF Init
<1>2. IInv /\ [Next]_vars => [Log!Next]_(Log!vars)
  <2>1. SUFFICES ASSUME IInv, [Next]_vars PROVE [Log!Next]_(Log!vars)
    OBVIOUS
  <2>2. ASSUME UNCHANGED <<committed, entries>> PROVE UNCHANGED Log!vars
    BY <2>2 DEF Log!vars
  <2>3. ASSUME NEW e \in Events, Commit(e) PROVE Log!Next
    BY <2>1, <2>3 DEF Commit, IInv, Called, Log!Next, Log!Commit
  <2>4. ASSUME NEW e \in Events, LogSync(e) PROVE Log!Next \/ UNCHANGED Log!vars
    <3>1. entries[e] = 0 /\ e \in committed /\ committed' = committed
      BY <2>1, <2>4 DEF LogSync, IInv, Called
    <3>2. entries' = [entries EXCEPT ![e] = 1] \/ entries' = entries
      BY <2>4, <3>1 DEF LogSync, Enter
    <3>3. QED
      BY <2>2, <3>1, <3>2 DEF Log!Next, Log!Enter
  <2>5. ASSUME NEW w \in Workers, Insert(w) PROVE Log!Next \/ UNCHANGED Log!vars
    <3>1. work[w].event \in committed /\ work[w].event \in Events /\ committed' = committed
      BY <2>1, <2>5, WorkOf DEF Insert
    <3>2. \/ /\ entries[work[w].event] = 0
             /\ entries' = [entries EXCEPT ![work[w].event] = 1]
          \/ entries' = entries
      BY <2>5 DEF Insert, Enter
    <3>3. QED
      BY <2>2, <3>1, <3>2 DEF Log!Next, Log!Enter
  <2>6. QED
    BY <2>1, <2>2, <2>3, <2>4, <2>5
       DEF Next, vars, RequestStep, WorkerStep, LogAsync, AddUnanswered, Add, Crash, Stall, Due,
           Remove, WorkerDies, Take, Tick, Complete, Fail, Report
<1>3. QED
  BY <1>1, <1>2, Invariance, PTL DEF Spec, EnteredOnce, Log!Spec

------------------------------------------------------------------------------
(* What the recursion of Doubled comes to. *)

\* Induction, with a set where other theorems of induction have a predicate.
LEMMA SetInduction ==
    ASSUME NEW S, 0 \in S, \A n \in Nat : n \in S => n + 1 \in S
    PROVE  Nat \subseteq S
<1> DEFINE Rest == Nat \ S
           Less == OpToRel(<, Nat)
<1>1. SUFFICES ASSUME Rest # {} PROVE FALSE
  OBVIOUS
<1>2. PICK x \in Rest : \A y \in Rest : ~(<<y, x>> \in Less)
  <2>1. IsWellFoundedOn(Less, Nat)
    BY NatLessThanWellFounded
  <2>2. Rest \subseteq Nat
    OBVIOUS
  <2> HIDE DEF Rest, Less
  <2>3. QED
    BY <1>1, <2>1, <2>2, WFMin
<1>3. x \in Nat \ {0}
  OBVIOUS
<1>4. x - 1 \in Rest
  <2>1. x - 1 \in Nat /\ (x - 1) + 1 = x
    BY <1>3
  <2>2. QED
    BY <2>1
<1>5. <<x - 1, x>> \in Less
  BY <1>3 DEF OpToRel
<1>6. QED
  BY <1>2, <1>4, <1>5

\* h doubles Delay up to n times.
UpTo(h, n) ==
    /\ h \in [0 .. n -> Nat]
    /\ \A i \in 0 .. n : h[i] = IF i = 0 THEN Delay ELSE 2 * h[i - 1]

LEMMA UpToExists ==
    \A n \in Nat : \E h : UpTo(h, n)
<1> DEFINE S == {n \in Nat : \E h : UpTo(h, n)}
<1>1. 0 \in S
  <2>1. UpTo([i \in 0 .. 0 |-> Delay], 0)
    BY AuditAssumption DEF UpTo
  <2>2. QED
    BY <2>1
<1>2. ASSUME NEW n \in Nat, n \in S
      PROVE  n + 1 \in S
  <2>1. PICK h : UpTo(h, n)
    BY <1>2
  <2> DEFINE g == [i \in 0 .. n + 1 |-> IF i = n + 1 THEN 2 * h[n] ELSE h[i]]
  <2>2. \A i \in 0 .. n : h[i] \in Nat
    BY <2>1 DEF UpTo
  <2>3. g \in [0 .. n + 1 -> Nat]
    BY <2>2
  <2>4. ASSUME NEW i \in 0 .. n + 1
        PROVE  g[i] = IF i = 0 THEN Delay ELSE 2 * g[i - 1]
    <3>1. CASE i = n + 1
      BY <3>1
    <3>2. CASE i # n + 1
      <4>1. i \in 0 .. n
        BY <3>2
      <4>2. h[i] = IF i = 0 THEN Delay ELSE 2 * h[i - 1]
        BY <2>1, <4>1 DEF UpTo
      <4>3. i # 0 => i - 1 \in 0 .. n + 1 /\ i - 1 # n + 1
        BY <4>1
      <4>4. QED
        BY <3>2, <4>2, <4>3
    <3>3. QED
      BY <3>1, <3>2
  <2>5. UpTo(g, n + 1)
    BY <2>3, <2>4 DEF UpTo
  <2>6. QED
    BY <2>5
<1> HIDE DEF S
<1>3. Nat \subseteq S
  BY <1>1, <1>2, SetInduction
<1>4. QED
  BY <1>3 DEF S

\* There is but one way to do it.
LEMMA UpToAgree ==
    ASSUME NEW m \in Nat, NEW n \in Nat, NEW g, NEW h, UpTo(g, m), UpTo(h, n)
    PROVE  \A i \in Nat : i <= m /\ i <= n => g[i] = h[i]
<1> DEFINE S == {i \in Nat : i <= m /\ i <= n => g[i] = h[i]}
<1>1. 0 \in S
  BY DEF UpTo
<1>2. ASSUME NEW i \in Nat, i \in S
      PROVE  i + 1 \in S
  <2>1. SUFFICES ASSUME i + 1 <= m, i + 1 <= n PROVE g[i + 1] = h[i + 1]
    OBVIOUS
  <2>2. g[i] = h[i]
    BY <1>2, <2>1
  <2>3. /\ i + 1 \in 0 .. m /\ i + 1 \in 0 .. n
        /\ i + 1 # 0 /\ (i + 1) - 1 = i
    BY <2>1
  <2>4. QED
    BY <2>2, <2>3 DEF UpTo
<1> HIDE DEF S
<1>3. Nat \subseteq S
  BY <1>1, <1>2, SetInduction
<1>4. QED
  BY <1>3 DEF S

\* The recursive definition has the function it asks for.
LEMMA DoubledIs ==
    Doubled = [n \in Nat |-> IF n = 0 THEN Delay ELSE 2 * Doubled[n - 1]]
<1> DEFINE h(n) == CHOOSE f : UpTo(f, n)
           all == [n \in Nat |-> h(n)[n]]
<1>1. \A n \in Nat : UpTo(h(n), n)
  BY UpToExists
<1> HIDE DEF h
<1>2. ASSUME NEW n \in Nat
      PROVE  all[n] = IF n = 0 THEN Delay ELSE 2 * all[n - 1]
  <2>1. UpTo(h(n), n)
    BY <1>1
  <2>2. CASE n = 0
    BY <2>1, <2>2 DEF UpTo
  <2>3. CASE n # 0
    <3>1. n - 1 \in Nat /\ n - 1 \in 0 .. n /\ n \in 0 .. n
      BY <2>3
    <3>2. h(n)[n - 1] = h(n - 1)[n - 1]
      BY <1>1, <2>1, <3>1, UpToAgree
    <3>3. h(n)[n] = 2 * h(n)[n - 1]
      BY <2>1, <2>3, <3>1 DEF UpTo
    <3>4. QED
      BY <2>3, <3>1, <3>2, <3>3
  <2>4. QED
    BY <2>2, <2>3
<1>3. all = [n \in Nat |-> IF n = 0 THEN Delay ELSE 2 * all[n - 1]]
  BY <1>2
<1> HIDE DEF all
<1>4. QED
  BY <1>3 DEF Doubled

LEMMA DoubledType ==
    /\ Doubled[0] = Delay
    /\ \A n \in Nat : Doubled[n] \in Nat /\ Doubled[n + 1] = 2 * Doubled[n]
<1>1. Doubled[0] = Delay
  BY DoubledIs
<1>2. \A n \in Nat : Doubled[n + 1] = 2 * Doubled[n]
  <2>1. \A n \in Nat : n + 1 \in Nat /\ n + 1 # 0 /\ (n + 1) - 1 = n
    OBVIOUS
  <2>2. QED
    BY <2>1, DoubledIs
<1> DEFINE S == {n \in Nat : Doubled[n] \in Nat}
<1>3. 0 \in S /\ \A n \in Nat : n \in S => n + 1 \in S
  BY <1>1, <1>2, AuditAssumption
<1> HIDE DEF S
<1>4. Nat \subseteq S
  BY <1>3, SetInduction
<1>5. QED
  BY <1>1, <1>2, <1>4 DEF S

\* A later wait is no shorter.
LEMMA DoubledGrows ==
    ASSUME NEW m \in Nat, NEW n \in Nat, m <= n
    PROVE  Doubled[m] <= Doubled[n]
<1> DEFINE S == {i \in Nat : Doubled[m] <= Doubled[m + i]}
<1>1. 0 \in S
  <2>1. m + 0 = m /\ Doubled[m] \in Nat
    BY DoubledType
  <2>2. QED
    BY <2>1
<1>2. ASSUME NEW i \in Nat, i \in S
      PROVE  i + 1 \in S
  <2>1. /\ m + (i + 1) = (m + i) + 1 /\ m + i \in Nat
        /\ Doubled[m] <= Doubled[m + i]
    BY <1>2
  <2>2. /\ Doubled[m] \in Nat /\ Doubled[m + i] \in Nat
        /\ Doubled[(m + i) + 1] = 2 * Doubled[m + i]
    BY <2>1, DoubledType
  <2>3. QED
    BY <2>1, <2>2
<1> HIDE DEF S
<1>3. Nat \subseteq S
  BY <1>1, <1>2, SetInduction
<1>4. n - m \in Nat /\ m + (n - m) = n
  OBVIOUS
<1>5. QED
  BY <1>3, <1>4 DEF S

------------------------------------------------------------------------------
(* Attempts, stalls and time. *)

\* A job that is still to be tried has attempts and stalls left and has been tried for as
\* long as its waits took, or will have been when it is due; one that has failed for good
\* had a reason; a job begins with nothing against it.
JobOk(e) ==
    /\ job[e] \in Pending => made[e] < Attempts /\ stalled[e] <= MaxStalled
    /\ job[e] \in {"none", "removed"} => made[e] = 0 /\ stalled[e] = 0
    /\ job[e] \in {"waiting", "active"} => elapsed[e] >= Doubled[made[e]] - Delay
    /\ job[e] = "delayed" => elapsed[e] + wait[e] >= Doubled[made[e]] - Delay
    /\ job[e] = "failed" => stalled[e] > MaxStalled \/ elapsed[e] >= Patience

JobTypes ==
    /\ made \in [Events -> 0 .. Attempts]
    /\ stalled \in [Events -> 0 .. MaxStalled + 1]
    /\ wait \in [Events -> Nat]
    /\ elapsed \in [Events -> 0 .. Patience]
    /\ lost \subseteq Events

\* The lock of a job: only an active job has one, and one worker at most holds it.
Holds(w, e) == work[w] # Nil /\ work[w].event = e /\ work[w].locked

Locks ==
    \A e \in Events, w \in Workers :
        Holds(w, e) => job[e] = "active" /\ \A v \in Workers : Holds(v, e) => v = w

JobInv == JobTypes /\ (\A e \in Events : JobOk(e)) /\ Locks

LEMMA PatienceType ==
    Patience \in Nat /\ \A n \in Nat : n < Attempts => Doubled[n] - Delay <= Patience
<1>1. Attempts - 1 \in Nat /\ Delay \in Nat
  BY AuditAssumption
<1>2. ASSUME NEW n \in Nat, n < Attempts
      PROVE  Doubled[n] \in Nat /\ Doubled[n] <= Doubled[Attempts - 1]
  <2>1. n <= Attempts - 1
    BY <1>1, <1>2, AuditAssumption
  <2>2. QED
    BY <1>1, <2>1, DoubledType, DoubledGrows
<1>3. Doubled[0] = Delay /\ 0 < Attempts /\ Doubled[Attempts - 1] \in Nat
  BY <1>1, DoubledType, AuditAssumption
<1>4. QED
  BY <1>1, <1>2, <1>3 DEF Patience

\* A step that leaves the jobs and the locks alone.
LEMMA JobsKept ==
    ASSUME JobInv, UNCHANGED jobVars, lost' \subseteq Events,
           \A w \in Workers, e \in Events : Holds(w, e)' => Holds(w, e)
    PROVE  JobInv'
  BY DEF JobInv, JobTypes, JobOk, Locks, jobVars

\* A step that changes one job, and gives its lock to nobody.
LEMMA OneJob ==
    ASSUME JobInv, NEW e \in Events, JobTypes', JobOk(e)',
           \A x \in Events \ {e} :
               /\ job'[x] = job[x] /\ made'[x] = made[x] /\ stalled'[x] = stalled[x]
               /\ wait'[x] = wait[x] /\ elapsed'[x] = elapsed[x],
           \A w \in Workers, x \in Events : Holds(w, x)' => Holds(w, x),
           \/ job'[e] = job[e]
           \/ \A w \in Workers : ~Holds(w, e)'
    PROVE  JobInv'
<1>1. \A x \in Events : JobOk(x)'
  BY DEF JobInv, JobOk
<1>2. Locks'
  BY DEF JobInv, Locks
<1>3. QED
  BY <1>1, <1>2 DEF JobInv

LEMMA RequestKeepsJobs ==
    ASSUME IInv, JobInv, NEW e \in Events, RequestStep(e)
    PROVE  JobInv'
<1>1. CASE UNCHANGED <<jobVars, work>> /\ lost' \subseteq lost \cup {e}
  BY <1>1, JobsKept DEF JobInv, JobTypes, Holds
<1>2. CASE Add(e) /\ UNCHANGED lost
  <2>1. /\ UNCHANGED <<made, stalled, wait, elapsed, work, lost>>
        /\ job' = [job EXCEPT ![e] = IF job[e] \in {"none", "removed"} THEN "waiting" ELSE job[e]]
        /\ job \in [Events -> JobStates]
    BY <1>2 DEF Add, IInv, LogTypes
  <2>2. JobTypes'
    BY <2>1 DEF JobInv, JobTypes
  <2>3. CASE job[e] \in {"none", "removed"}
    <3>1. job'[e] = "waiting" /\ made'[e] = 0 /\ stalled'[e] = 0 /\ elapsed'[e] \in Nat
      BY <2>1, <2>3, PatienceType DEF JobInv, JobOk, JobTypes
    <3>2. JobOk(e)'
      BY <3>1, DoubledType, AuditAssumption DEF JobOk, Pending
    <3>3. \A w \in Workers : ~Holds(w, e)'
      BY <2>1, <2>3 DEF JobInv, Locks, Holds
    <3>4. QED
      BY <2>1, <2>2, <3>2, <3>3, OneJob DEF Holds
  <2>4. CASE job[e] \notin {"none", "removed"}
    BY <2>1, <2>4, JobsKept DEF jobVars, JobInv, JobTypes, Holds
  <2>5. QED
    BY <2>3, <2>4
<1>3. QED
  BY <1>1, <1>2
     DEF RequestStep, Commit, LogSync, LogAsync, AddUnanswered, Crash, Add

LEMMA WorkerKeepsJobs ==
    ASSUME IInv, JobInv, NEW w \in Workers, WorkerStep(w) \/ WorkerDies(w)
    PROVE  JobInv'
<1>1. work[w] # Nil
  BY DEF WorkerStep, WorkerDies, Insert, Complete, Fail, Report
<1> PICK e \in Events : e = work[w].event
  BY <1>1, WorkOf
<1>2. /\ work[w] \in Work /\ e = work[w].event
      /\ work \in [Workers -> Work \cup {Nil}]
      /\ job \in [Events -> JobStates]
  BY <1>1, WorkOf DEF IInv, LogTypes
<1>3. ASSUME work' = [work EXCEPT ![w] = Nil]
      PROVE  \A v \in Workers, x \in Events : Holds(v, x)' => Holds(v, x) /\ v # w
  BY <1>2, <1>3 DEF Holds
<1>4. CASE Insert(w)
  <2>1. PICK step \in {"complete", "fail"} : work' = [work EXCEPT ![w].step = step]
    BY <1>4 DEF Insert, Goto
  <2>2. \A v \in Workers \ {w} : work'[v] = work[v]
    BY <1>2, <2>1
  <2>3. work'[w].event = e /\ work'[w].locked = work[w].locked
    BY <1>2, <2>1 DEF Work
  <2>4. \A v \in Workers, x \in Events : Holds(v, x)' => Holds(v, x)
    BY <1>1, <2>2, <2>3 DEF Holds
  <2>5. QED
    BY <1>4, <2>4, JobsKept DEF Insert, JobInv, JobTypes
<1>5. CASE UNCHANGED <<jobVars, lost>> /\ work' = [work EXCEPT ![w] = Nil]
  BY <1>3, <1>5, JobsKept DEF JobInv, JobTypes
<1>6. ASSUME work[w].locked, job'[e] # "active", work' = [work EXCEPT ![w] = Nil]
      PROVE  \A v \in Workers : ~Holds(v, e)'
  BY <1>1, <1>2, <1>3, <1>6 DEF JobInv, Locks, Holds
<1>7. ASSUME work[w].locked
      PROVE  job[e] = "active"
  BY <1>1, <1>2, <1>7 DEF JobInv, Locks, Holds
<1>8. CASE Complete(w)
  <2>1. CASE work[w].locked
    <3>1. /\ job' = [job EXCEPT ![e] = "completed"]
          /\ work' = [work EXCEPT ![w] = Nil]
          /\ UNCHANGED <<made, stalled, wait, elapsed, lost>>
      BY <1>2, <1>8, <2>1 DEF Complete, Report
    <3>2. JobOk(e)'
      BY <1>2, <3>1 DEF JobOk, Pending
    <3>3. JobTypes'
      BY <3>1 DEF JobInv, JobTypes
    <3>4. QED
      BY <1>2, <1>3, <1>6, <2>1, <3>1, <3>2, <3>3, OneJob
  <2>2. CASE ~work[w].locked
    BY <1>5, <1>8, <2>2 DEF Complete, Report, jobVars
  <2>3. QED
    BY <2>1, <2>2
<1>9. CASE Fail(w)
  <2>1. CASE work[w].locked
    <3>1. /\ work' = [work EXCEPT ![w] = Nil]
          /\ made' = [made EXCEPT ![e] = made[e] + 1]
          /\ UNCHANGED <<stalled, elapsed>>
          /\ IF made[e] + 1 < Attempts THEN TryLater(e) ELSE GiveUp(e)
      BY <1>2, <1>9, <2>1 DEF Fail, Report
    <3>2. /\ made[e] \in Nat /\ made[e] < Attempts /\ stalled[e] <= MaxStalled
          /\ elapsed[e] \in Nat /\ elapsed[e] >= Doubled[made[e]] - Delay
          /\ Delay \in Nat
      BY <1>2, <1>7, <2>1, PatienceType, AuditAssumption DEF JobInv, JobTypes, JobOk, Pending
    <3>3. made' \in [Events -> 0 .. Attempts] /\ made'[e] = made[e] + 1
      BY <1>2, <3>1, <3>2, AuditAssumption DEF JobInv, JobTypes
    <3>4. Doubled[made[e]] \in Nat /\ Doubled[made[e] + 1] = 2 * Doubled[made[e]]
      BY <3>2, DoubledType
    <3>5. CASE made[e] + 1 < Attempts
      <4>1. /\ job' = [job EXCEPT ![e] = "delayed"]
            /\ wait' = [wait EXCEPT ![e] = Doubled[made[e]]]
            /\ UNCHANGED lost
        BY <3>1, <3>2, <3>5 DEF TryLater, Backoff
      <4>2. JobTypes'
        BY <3>1, <3>3, <3>4, <4>1 DEF JobInv, JobTypes
      <4>3. job'[e] = "delayed" /\ wait'[e] = Doubled[made[e]]
        BY <1>2, <4>1 DEF JobInv, JobTypes
      <4>4. elapsed[e] + Doubled[made[e]] >= Doubled[made[e] + 1] - Delay
        BY <3>2, <3>4
      <4>5. JobOk(e)'
        BY <3>1, <3>2, <3>3, <3>5, <4>3, <4>4 DEF JobOk
      <4>6. QED
        BY <1>2, <1>3, <1>6, <2>1, <3>1, <4>1, <4>2, <4>3, <4>5, OneJob DEF JobInv, JobTypes
    <3>6. CASE ~(made[e] + 1 < Attempts)
      <4>1. /\ job' = [job EXCEPT ![e] = "failed"]
            /\ lost' = lost \cup {e}
            /\ UNCHANGED wait
        BY <3>1, <3>6 DEF GiveUp
      <4>2. JobTypes'
        BY <1>2, <3>1, <3>3, <4>1 DEF JobInv, JobTypes
      <4>3. made[e] = Attempts - 1
        BY <3>2, <3>6, AuditAssumption
      <4>4. elapsed[e] >= Patience
        BY <3>2, <4>3 DEF Patience
      <4>5. JobOk(e)'
        BY <1>2, <3>1, <4>1, <4>4 DEF JobOk, Pending
      <4>6. QED
        BY <1>2, <1>3, <1>6, <2>1, <3>1, <4>1, <4>2, <4>5, OneJob DEF JobInv, JobTypes
    <3>7. QED
      BY <3>5, <3>6
  <2>2. CASE ~work[w].locked
    BY <1>5, <1>9, <2>2 DEF Fail, Report, jobVars
  <2>3. QED
    BY <2>1, <2>2
<1>10. CASE WorkerDies(w)
  BY <1>5, <1>10 DEF WorkerDies
<1>11. QED
  BY <1>4, <1>8, <1>9, <1>10 DEF WorkerStep

LEMMA QueueKeepsJobs ==
    ASSUME IInv, JobInv, NEW e \in Events,
           Stall(e) \/ Due(e) \/ Remove(e) \/ \E w \in Workers : Take(w, e)
    PROVE  JobInv'
<1>1. job \in [Events -> JobStates] /\ work \in [Workers -> Work \cup {Nil}]
  BY DEF IInv, LogTypes
<1>2. /\ made[e] \in Nat /\ wait[e] \in Nat /\ elapsed[e] \in Nat /\ stalled[e] \in Nat
      /\ Doubled[made[e]] \in Nat /\ Doubled[0] = Delay /\ Delay \in Nat /\ MaxStalled \in Nat
  BY PatienceType, DoubledType, AuditAssumption DEF JobInv, JobTypes
<1>3. CASE Stall(e)
  <2>1. /\ job[e] = "active"
        /\ stalled' = [stalled EXCEPT ![e] = stalled[e] + 1]
        /\ UNCHANGED <<made, elapsed>>
        /\ \A w \in Workers : work'[w] = IF work[w] # Nil /\ work[w].event = e
                                        THEN [work[w] EXCEPT !.locked = FALSE] ELSE work[w]
    BY <1>3 DEF Stall
  <2>2. stalled[e] <= MaxStalled /\ made[e] < Attempts /\ elapsed[e] >= Doubled[made[e]] - Delay
    BY <2>1 DEF JobInv, JobOk, Pending
  <2>3. ASSUME NEW w \in Workers, NEW x \in Events, Holds(w, x)'
        PROVE  Holds(w, x) /\ x # e
    <3>1. CASE work[w] # Nil /\ work[w].event = e
      <4>1. work'[w].locked = FALSE
        BY <2>1, <3>1, WorkOf DEF Work
      <4>2. QED
        BY <2>3, <4>1 DEF Holds
    <3>2. CASE ~(work[w] # Nil /\ work[w].event = e)
      BY <2>1, <2>3, <3>2 DEF Holds
    <3>3. QED
      BY <3>1, <3>2
  <2>4. stalled' \in [Events -> 0 .. MaxStalled + 1] /\ stalled'[e] = stalled[e] + 1
    BY <1>2, <2>1, <2>2 DEF JobInv, JobTypes
  <2>5. CASE stalled[e] < MaxStalled
    <3>1. job' = [job EXCEPT ![e] = "waiting"] /\ UNCHANGED <<wait, lost>>
      BY <1>3, <2>5 DEF Stall
    <3>2. JobTypes'
      BY <2>1, <2>4, <3>1 DEF JobInv, JobTypes
    <3>3. JobOk(e)'
      BY <1>1, <1>2, <2>1, <2>2, <2>4, <2>5, <3>1 DEF JobOk
    <3>4. QED
      BY <2>1, <2>3, <3>1, <3>2, <3>3, OneJob
  <2>6. CASE ~(stalled[e] < MaxStalled)
    <3>1. job' = [job EXCEPT ![e] = "failed"] /\ lost' = lost \cup {e} /\ UNCHANGED wait
      BY <1>3, <2>6 DEF Stall, GiveUp
    <3>2. JobTypes'
      BY <2>1, <2>4, <3>1 DEF JobInv, JobTypes
    <3>3. JobOk(e)'
      BY <1>1, <1>2, <2>4, <2>6, <3>1 DEF JobOk, Pending
    <3>4. QED
      BY <2>1, <2>3, <3>1, <3>2, <3>3, OneJob
  <2>7. QED
    BY <2>5, <2>6
<1>4. CASE Due(e)
  <2>1. /\ job[e] = "delayed" /\ wait[e] = 0
        /\ job' = [job EXCEPT ![e] = "waiting"]
        /\ UNCHANGED <<made, stalled, wait, elapsed, work, lost>>
    BY <1>4 DEF Due
  <2>2. JobTypes'
    BY <2>1 DEF JobInv, JobTypes
  <2>3. JobOk(e)'
    BY <1>1, <1>2, <2>1 DEF JobInv, JobOk, Pending
  <2>4. \A w \in Workers : ~Holds(w, e)
    BY <2>1 DEF JobInv, Locks
  <2>5. QED
    BY <2>1, <2>2, <2>3, <2>4, OneJob DEF Holds
<1>5. CASE Remove(e)
  <2>1. /\ job[e] \in {"completed", "failed"}
        /\ job' = [job EXCEPT ![e] = "removed"]
        /\ made' = [made EXCEPT ![e] = 0]
        /\ stalled' = [stalled EXCEPT ![e] = 0]
        /\ elapsed' = [elapsed EXCEPT ![e] = 0]
        /\ UNCHANGED <<wait, work, lost>>
    BY <1>5 DEF Remove
  <2>2. JobTypes'
    BY <1>2, <2>1, PatienceType, AuditAssumption DEF JobInv, JobTypes
  <2>3. JobOk(e)'
    BY <1>1, <2>1 DEF JobInv, JobTypes, JobOk, Pending
  <2>4. \A w \in Workers : ~Holds(w, e)
    BY <2>1 DEF JobInv, Locks
  <2>5. QED
    BY <2>1, <2>2, <2>3, <2>4, OneJob DEF Holds
<1>6. ASSUME NEW w \in Workers, Take(w, e)
      PROVE  JobInv'
  <2>1. /\ job[e] = "waiting"
        /\ job' = [job EXCEPT ![e] = "active"]
        /\ UNCHANGED <<made, stalled, wait, elapsed, lost>>
        /\ \A v \in Workers \ {w} : work'[v] = work[v]
        /\ work'[w].event = e
    BY <1>1, <1>6 DEF Take
  <2>2. JobTypes'
    BY <2>1 DEF JobInv, JobTypes
  <2>3. \A x \in Events : JobOk(x)'
    BY <1>1, <2>1 DEF JobInv, JobOk, Pending
  <2>4. \A v \in Workers : ~Holds(v, e)
    BY <2>1 DEF JobInv, Locks
  <2>5. \A v \in Workers, x \in Events :
            Holds(v, x)' => (v = w /\ x = e) \/ (Holds(v, x) /\ v # w /\ x # e)
    BY <2>1, <2>4 DEF Holds
  <2>6. Locks'
    BY <1>1, <2>1, <2>5 DEF JobInv, Locks
  <2>7. QED
    BY <2>2, <2>3, <2>6 DEF JobInv
<1>7. QED
  BY <1>3, <1>4, <1>5, <1>6

\* A tick brings a delayed job nearer to its time, and adds to what it has waited, unless
\* that is Patience already.
LEMMA TickKeepsJobs ==
    ASSUME IInv, JobInv, Tick
    PROVE  JobInv'
<1>1. ASSUME NEW e \in Events
      PROVE  /\ wait'[e] = IF wait[e] > 0 THEN wait[e] - 1 ELSE 0
             /\ elapsed'[e] = IF Ages(e) THEN elapsed[e] + 1 ELSE elapsed[e]
             /\ wait[e] \in Nat /\ elapsed[e] \in 0 .. Patience
             /\ made[e] \in 0 .. Attempts
  BY DEF Tick, JobInv, JobTypes
<1>2. /\ Patience \in Nat /\ Delay \in Nat
      /\ \A n \in Nat : n < Attempts => Doubled[n] - Delay <= Patience
      /\ Doubled[0] = Delay /\ \A n \in Nat : Doubled[n] \in Nat
  BY PatienceType, DoubledType, AuditAssumption
<1>3. ASSUME NEW e \in Events
      PROVE  wait'[e] \in Nat /\ elapsed'[e] \in 0 .. Patience /\ elapsed'[e] >= elapsed[e]
  BY <1>1, <1>2 DEF Ages
<1>4. JobTypes'
  <2>1. /\ wait' = [e \in Events |-> wait'[e]]
        /\ elapsed' = [e \in Events |-> elapsed'[e]]
    BY DEF Tick
  <2>2. QED
    BY <1>3, <2>1 DEF Tick, JobInv, JobTypes
<1>5. ASSUME NEW e \in Events
      PROVE  JobOk(e)'
  <2>1. UNCHANGED <<job, made, stalled>> /\ JobOk(e)
    BY DEF Tick, JobInv
  <2>2. CASE job[e] = "delayed"
    <3>1. made[e] < Attempts /\ made[e] \in Nat /\ elapsed[e] + wait[e] >= Doubled[made[e]] - Delay
      BY <1>1, <2>1, <2>2, AuditAssumption DEF JobOk, Pending
    <3>2. Doubled[made[e]] \in Nat /\ Doubled[made[e]] - Delay <= Patience
      BY <1>2, <3>1
    <3>3. CASE Ages(e) \/ wait[e] = 0
      <4>1. elapsed'[e] + wait'[e] >= elapsed[e] + wait[e]
        BY <1>1, <1>2, <3>3
      <4>2. QED
        BY <1>1, <1>2, <1>3, <2>1, <2>2, <3>1, <3>2, <4>1 DEF JobOk
    <3>4. CASE ~Ages(e) /\ made[e] = 0
      BY <1>1, <1>2, <1>3, <2>1, <2>2, <3>1, <3>4 DEF JobOk
    <3>5. CASE ~Ages(e) /\ made[e] # 0
      <4>1. elapsed[e] = Patience
        BY <1>1, <1>2, <2>2, <3>5 DEF Ages, Pending
      <4>2. QED
        BY <1>1, <1>2, <1>3, <2>1, <2>2, <3>1, <3>2, <4>1 DEF JobOk
    <3>6. QED
      BY <3>3, <3>4, <3>5
  <2>3. CASE job[e] # "delayed"
    <3>1. Doubled[made[e]] \in Nat
      BY <1>1, <1>2, AuditAssumption
    <3>2. QED
      BY <1>1, <1>2, <1>3, <2>1, <2>3, <3>1 DEF JobOk
  <2>4. QED
    BY <2>2, <2>3
<1>6. Locks'
  BY DEF Tick, JobInv, Locks, Holds
<1>7. QED
  BY <1>4, <1>5, <1>6 DEF JobInv

LEMMA JobsInit ==
    Init => JobInv
<1>1. SUFFICES ASSUME Init PROVE JobInv
  OBVIOUS
<1>2. /\ 0 \in 0 .. Attempts /\ 0 \in 0 .. MaxStalled + 1 /\ 0 \in 0 .. Patience
  BY PatienceType, AuditAssumption
<1>3. JobTypes
  BY <1>1, <1>2 DEF Init, JobTypes
<1>4. \A e \in Events : JobOk(e)
  BY <1>1 DEF Init, JobOk, Pending
<1>5. Locks
  BY <1>1 DEF Init, Locks, Holds
<1>6. QED
  BY <1>3, <1>4, <1>5 DEF JobInv

LEMMA JobsStep ==
    IInv /\ JobInv /\ [Next]_vars => JobInv'
<1>1. SUFFICES ASSUME IInv, JobInv, [Next]_vars PROVE JobInv'
  OBVIOUS
<1>2. CASE UNCHANGED vars
  BY <1>1, <1>2, JobsKept DEF vars, JobInv, JobTypes, Holds
<1>3. QED
  BY <1>1, <1>2, RequestKeepsJobs, WorkerKeepsJobs, QueueKeepsJobs, TickKeepsJobs DEF Next

LEMMA JobInvariance ==
    Spec => []JobInv
  BY JobsInit, JobsStep, Invariance, PTL DEF Spec

\* Every variable has its type, and a job is tried Attempts times at most, whatever the
\* attempts, the delay and the stalls (audit.service.ts:79-80).
THEOREM TypeCorrect ==
    Spec => []TypeOK
<1>1. IInv /\ JobInv => TypeOK
  BY DEF IInv, LogTypes, JobInv, JobTypes, TypeOK
<1>2. QED
  BY <1>1, Invariance, JobInvariance, PTL

\* However attempts, stalls and workers that lost their lock interleave, a job that has not
\* stalled too often is not given up before its waits have added up: whatever the number of
\* attempts and the delay, an outage shorter than Patience loses no entry of a job
\* (audit.service.ts:79-80).
THEOREM PatienceBeforeFailure ==
    Spec => []FailsOnlyAfterPatience
<1>1. JobInv => FailsOnlyAfterPatience
  BY DEF JobInv, JobOk, FailsOnlyAfterPatience
<1>2. QED
  BY <1>1, JobInvariance, PTL
=============================================================================
