----------------------------- MODULE AuditTrail -----------------------------
(***************************************************************************)
(* From a committed operation to its entry in audit_logs: logSync inserts  *)
(* it at once, logAsync enqueues a BullMQ job whose processor does, and is *)
(* retried when it fails.                                                  *)
(*                                                                         *)
(* BullMQ and Redis are external.  What the code relies on: a job with an  *)
(* id in use is not added again; a job is handed to one worker; a job whose*)
(* worker does not renew its lock is handed to another one, once, while the*)
(* first may still be at it.                                               *)
(***************************************************************************)
EXTENDS Naturals

CONSTANTS
    Events,      \* operations that are to be logged
    Security,    \* those that are logged by logSync: changes of a role
    Workers,     \* jobs being processed at the same time
    Attempts,    \* attempts
    Delay,       \* backoff.delay, in ticks
    MaxStalled,  \* BullMQ's maxStalledCount
    Faults,      \* whether commands are lost, sent again or fail, and processes die
    Nil

ASSUME AuditAssumption ==
    /\ Security \subseteq Events
    /\ Attempts \in Nat \ {0}
    /\ Delay \in Nat
    /\ MaxStalled \in Nat
    /\ Faults \in BOOLEAN
    /\ Nil \notin Events

VARIABLES
    pc,         \* the step the request behind each event is at
    committed,  \* the events whose operation has been committed
    entries,    \* how many entries of audit_logs are about each event
    job,        \* the state of the job audit-{auditId}
    made,       \* how many of its attempts have failed
    stalled,    \* how often it has stalled
    wait,       \* ticks until a delayed job is due
    elapsed,    \* ticks since its first attempt failed, up to Patience (history)
    work,       \* what each worker is doing
    lost        \* the events an audit call or a job has failed for (history)

jobVars == <<job, made, stalled, wait, elapsed>>
vars == <<pc, committed, entries, jobVars, work, lost>>

Steps == {"running", "sync", "add", "over"}

\* removed: the job is finished, and BullMQ has dropped it (removeOnComplete, removeOnFail).
JobStates == {"none", "waiting", "active", "delayed", "completed", "failed", "removed"}

Pending == {"waiting", "active", "delayed"}

\* locked: the job has not been taken from this worker.
Work == [event : Events \ Security, step : {"insert", "complete", "fail"}, locked : BOOLEAN]

\* Variant: backoff.type is fixed.
FixedBackoff(n) == Delay

\* Delay, doubled n times.
Doubled[n \in Nat] == IF n = 0 THEN Delay ELSE 2 * Doubled[n - 1]

\* The wait after the n-th failed attempt: backoff.type is exponential.
Backoff(n) == Doubled[n - 1]

\* How long a job goes on trying after its first attempt failed: the sum of the waits.
Patience == Doubled[Attempts - 1] - Delay

Log == INSTANCE AuditLog

Init ==
    /\ Log!Init
    /\ pc = [e \in Events |-> "running"]
    /\ job = [e \in Events |-> "none"]
    /\ made = [e \in Events |-> 0]
    /\ stalled = [e \in Events |-> 0]
    /\ wait = [e \in Events |-> 0]
    /\ elapsed = [e \in Events |-> 0]
    /\ work = [w \in Workers |-> Nil]
    /\ lost = {}

------------------------------------------------------------------------------
(* The request. *)

\* The operation commits; only then does its audit call begin.
Commit(e) ==
    /\ pc[e] = "running"
    /\ committed' = committed \cup {e}
    /\ pc' = [pc EXCEPT ![e] = IF e \in Security THEN "sync" ELSE "add"]
    /\ UNCHANGED <<entries, jobVars, work, lost>>

\* An entry about e, under an id of its own.
Enter(e) == entries' = [entries EXCEPT ![e] = @ + 1]

\* logSync: the caller swallows the error of a failing INSERT.
LogSync(e) ==
    /\ pc[e] = "sync"
    /\ pc' = [pc EXCEPT ![e] = "over"]
    /\ \/ Enter(e) /\ UNCHANGED lost
       \/ Faults /\ lost' = lost \cup {e} /\ UNCHANGED entries
    /\ UNCHANGED <<committed, jobVars, work>>

\* A job whose id is in use is not added again.
Add(e) ==
    /\ job' = [job EXCEPT ![e] = IF @ \in {"none", "removed"} THEN "waiting" ELSE @]
    /\ UNCHANGED <<committed, entries, made, stalled, wait, elapsed, work>>

\* logAsync swallows the error of a job that cannot be added.
LogAsync(e) ==
    /\ pc[e] = "add"
    /\ pc' = [pc EXCEPT ![e] = "over"]
    /\ \/ Add(e) /\ UNCHANGED lost
       \/ /\ Faults
          /\ lost' = lost \cup {e}
          /\ UNCHANGED <<committed, entries, jobVars, work>>

\* The job is added, the connection drops before the answer, and the command will be
\* sent again.
AddUnanswered(e) ==
    /\ Faults
    /\ pc[e] = "add"
    /\ Add(e)
    /\ UNCHANGED <<pc, lost>>

\* The process dies, before its commit or between the commit and the audit call.
Crash(e) ==
    /\ Faults
    /\ pc[e] # "over"
    /\ pc' = [pc EXCEPT ![e] = "over"]
    /\ lost' = lost \cup {e}
    /\ UNCHANGED <<committed, entries, jobVars, work>>

------------------------------------------------------------------------------
(* BullMQ and its workers. *)

Take(w, e) ==
    /\ work[w] = Nil
    /\ job[e] = "waiting"
    /\ job' = [job EXCEPT ![e] = "active"]
    /\ work' = [work EXCEPT ![w] = [event |-> e, step |-> "insert", locked |-> TRUE]]
    /\ UNCHANGED <<pc, committed, entries, made, stalled, wait, elapsed, lost>>

\* The processor's INSERT ends, for the processor, in this step.
Goto(w, step) == work' = [work EXCEPT ![w].step = step]

\* Variant: the entry gets an id of its own instead of the auditId.
InsertAnew(w) ==
    /\ work[w] # Nil /\ work[w].step = "insert"
    /\ \/ /\ Enter(work[w].event)
          /\ \E step \in IF Faults THEN {"complete", "fail"} ELSE {"complete"} : Goto(w, step)
       \/ /\ Faults
          /\ Goto(w, "fail")
          /\ UNCHANGED entries
    /\ UNCHANGED <<pc, committed, jobVars, lost>>

\* Variant: every error of the INSERT is taken for a duplicate.
InsertSwallowing(w) ==
    /\ work[w] # Nil /\ work[w].step = "insert"
    /\ Goto(w, "complete")
    /\ \/ entries[work[w].event] = 0 /\ Enter(work[w].event)
       \/ (Faults \/ entries[work[w].event] > 0) /\ UNCHANGED entries
    /\ UNCHANGED <<pc, committed, jobVars, lost>>

\* The auditId is the entry's primary key: if it is there already the INSERT fails with
\* P2002, which counts as success.  Any other error is thrown, also when the entry has
\* been written and only the answer was lost.
Insert(w) ==
    /\ work[w] # Nil /\ work[w].step = "insert"
    /\ \/ /\ entries[work[w].event] = 0
          /\ Enter(work[w].event)
          /\ \E step \in IF Faults THEN {"complete", "fail"} ELSE {"complete"} : Goto(w, step)
       \/ /\ entries[work[w].event] > 0
          /\ Goto(w, "complete")
          /\ UNCHANGED entries
       \/ /\ Faults
          /\ Goto(w, "fail")
          /\ UNCHANGED entries
    /\ UNCHANGED <<pc, committed, jobVars, lost>>

\* A worker that has lost its lock reports in vain.
Report(w, step) ==
    /\ work[w] # Nil /\ work[w].step = step
    /\ work' = [work EXCEPT ![w] = Nil]
    /\ UNCHANGED <<pc, committed, entries, stalled>>

Complete(w) ==
    /\ Report(w, "complete")
    /\ job' = IF work[w].locked THEN [job EXCEPT ![work[w].event] = "completed"] ELSE job
    /\ UNCHANGED <<made, wait, elapsed, lost>>

\* The job, whose attempt has failed, is tried again later.
TryLater(e) ==
    /\ job' = [job EXCEPT ![e] = "delayed"]
    /\ wait' = [wait EXCEPT ![e] = Backoff(made[e] + 1)]
    /\ UNCHANGED lost

GiveUp(e) ==
    /\ job' = [job EXCEPT ![e] = "failed"]
    /\ lost' = lost \cup {e}
    /\ UNCHANGED wait

\* Variant: attempts is not limited.
FailForever(w) ==
    /\ Report(w, "fail")
    /\ LET e == work[w].event
       IN  IF work[w].locked THEN TryLater(e) ELSE UNCHANGED <<job, wait, lost>>
    /\ UNCHANGED <<made, elapsed>>

\* Variant: one attempt too many.
FailOnceMore(w) ==
    /\ Report(w, "fail")
    /\ LET e == work[w].event
       IN  IF work[w].locked
           THEN /\ made' = [made EXCEPT ![e] = @ + 1]
                /\ IF made[e] < Attempts THEN TryLater(e) ELSE GiveUp(e)
           ELSE UNCHANGED <<job, made, wait, lost>>
    /\ UNCHANGED elapsed

Fail(w) ==
    /\ Report(w, "fail")
    /\ LET e == work[w].event
       IN  IF work[w].locked
           THEN /\ made' = [made EXCEPT ![e] = @ + 1]
                /\ IF made[e] + 1 < Attempts THEN TryLater(e) ELSE GiveUp(e)
           ELSE UNCHANGED <<job, made, wait, lost>>
    /\ UNCHANGED elapsed

\* The worker's process dies; its job stays active until its lock has run out.
WorkerDies(w) ==
    /\ Faults
    /\ work[w] # Nil
    /\ work' = [work EXCEPT ![w] = Nil]
    /\ UNCHANGED <<pc, committed, entries, jobVars, lost>>

\* The lock has run out, because the worker has died or its event loop was held up.
Stall(e) ==
    /\ Faults
    /\ job[e] = "active"
    /\ stalled' = [stalled EXCEPT ![e] = @ + 1]
    /\ work' = [w \in Workers |->
          IF work[w] # Nil /\ work[w].event = e THEN [work[w] EXCEPT !.locked = FALSE]
          ELSE work[w]]
    /\ IF stalled[e] < MaxStalled
       THEN job' = [job EXCEPT ![e] = "waiting"] /\ UNCHANGED <<wait, lost>>
       ELSE GiveUp(e)
    /\ UNCHANGED <<pc, committed, entries, made, elapsed>>

Due(e) ==
    /\ job[e] = "delayed"
    /\ wait[e] = 0
    /\ job' = [job EXCEPT ![e] = "waiting"]
    /\ UNCHANGED <<pc, committed, entries, made, stalled, wait, elapsed, work, lost>>

\* removeOnComplete and removeOnFail: the id is free again.
Remove(e) ==
    /\ job[e] \in {"completed", "failed"}
    /\ job' = [job EXCEPT ![e] = "removed"]
    /\ made' = [made EXCEPT ![e] = 0]
    /\ stalled' = [stalled EXCEPT ![e] = 0]
    /\ elapsed' = [elapsed EXCEPT ![e] = 0]
    /\ UNCHANGED <<pc, committed, entries, wait, work, lost>>

Ages(e) == job[e] \in Pending /\ made[e] > 0 /\ elapsed[e] < Patience

Tick ==
    /\ \E e \in Events : wait[e] > 0 \/ Ages(e)
    /\ wait' = [e \in Events |-> IF wait[e] > 0 THEN wait[e] - 1 ELSE 0]
    /\ elapsed' = [e \in Events |-> IF Ages(e) THEN elapsed[e] + 1 ELSE elapsed[e]]
    /\ UNCHANGED <<pc, committed, entries, job, made, stalled, work, lost>>

RequestStep(e) == Commit(e) \/ LogSync(e) \/ LogAsync(e) \/ AddUnanswered(e) \/ Crash(e)

WorkerStep(w) == Insert(w) \/ Complete(w) \/ Fail(w)

Next ==
    \/ \E e \in Events : RequestStep(e) \/ Stall(e) \/ Due(e) \/ Remove(e)
    \/ \E w \in Workers : WorkerStep(w) \/ WorkerDies(w) \/ \E e \in Events : Take(w, e)
    \/ Tick

\* Requests and workers run on; BullMQ hands jobs out in order, wakes those that are
\* due and notices stalled ones; time passes.
Fairness ==
    /\ \A e \in Events :
          /\ WF_vars(LogSync(e) \/ LogAsync(e))
          /\ SF_vars(\E w \in Workers : Take(w, e))
          /\ WF_vars(Due(e))
          /\ WF_vars(Stall(e))
    /\ \A w \in Workers : WF_vars(WorkerStep(w))
    /\ WF_vars(Tick)

Spec == Init /\ [][Next]_vars /\ Fairness

------------------------------------------------------------------------------
(* Properties. *)

\* Every variable has its type, and a job is tried Attempts times at most.
TypeOK ==
    /\ pc \in [Events -> Steps]
    /\ committed \subseteq Events
    /\ entries \in [Events -> Nat]
    /\ job \in [Events -> JobStates]
    /\ made \in [Events -> 0 .. Attempts]
    /\ stalled \in [Events -> 0 .. MaxStalled + 1]
    /\ wait \in [Events -> Nat]
    /\ elapsed \in [Events -> 0 .. Patience]
    /\ work \in [Workers -> Work \cup {Nil}]
    /\ lost \subseteq Events

\* Whatever is sent again, stalls or is retried, every committed operation is entered at
\* most once, what is entered stays, and nothing else is entered: AuditTrail implements
\* AuditLog (audit.service.ts:26-29, audit.processor.ts:12-16).
EnteredOnce == Log!Spec

\* A job counts as completed only when its entry is there, also if the worker that
\* reports it has written nothing itself (audit.processor.ts:43-50).
CompletedIsEntered == \A e \in Events : job[e] = "completed" => entries[e] = 1

\* A job fails only if it has stalled too often, or if it was still failing when Patience
\* had passed since its first failure: the database may be away for less than that
\* (audit.service.ts:79-80).
FailsOnlyAfterPatience ==
    \A e \in Events : job[e] = "failed" => stalled[e] > MaxStalled \/ elapsed[e] >= Patience

\* Every committed operation is entered in the end, unless its audit call failed, its
\* process died before the call was done, or its job has failed (audit.service.ts:72-90).
EveryCommitIsEntered ==
    \A e \in Events : e \in committed ~> entries[e] = 1 \/ e \in lost
==============================================================================
