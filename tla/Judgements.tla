----------------------------- MODULE Judgements -----------------------------
(***************************************************************************)
(* What protected requests are judged by.  validate works with a session   *)
(* it has read some steps ago, or that another request cached, and         *)
(* createForUser with rules that were built for a role some requests ago.  *)
(* This module adds to Sessions the history of the requests that a change  *)
(* of their account has overtaken on that way, and nothing else.           *)
(***************************************************************************)
EXTENDS Sessions

VARIABLE overtaken    \* history: the requests that may judge by an outdated account

judgeVars == <<vars, overtaken>>

\* The account of v is changed while v is in progress.
ChangedBeside(v) ==
    /\ at[v] # "idle"
    /\ row'[bearer[v]] # row[bearer[v]]

\* v takes a session that was cached late or has missed its eviction, or whose eviction is
\* still on its way.
TakesOutdated(v) ==
    /\ at[v] = "session" /\ at'[v] = "ability"
    /\ session[bearer[v]].excused \/ EvictionDue(bearer[v])

\* A request that has ended is forgotten.
Overtaken ==
    {v \in Calls :
        /\ v \in overtaken \/ ChangedBeside(v) \/ TakesOutdated(v)
        /\ at'[v] # "idle"}

JudgementsInit == Init /\ overtaken = {}

JudgementsNext == Next /\ overtaken' = Overtaken

JudgementsSafeSpec == JudgementsInit /\ [][JudgementsNext]_judgeVars

JudgementsSpec == JudgementsSafeSpec /\ Fairness

------------------------------------------------------------------------------
(* Properties. *)

\* A request that no change of its account has overtaken is judged by the account as it
\* stands: its session is the account's row, and the rules cached for it, if any, are those
\* of the account's role, whoever cached them, however long ago and whatever roles the
\* account had since (jwt.strategy.ts:27-30, casl-ability.factory.ts:73-80 and :129-130).
JudgedAsItStands ==
    \A v \in Calls \ overtaken :
        at[v] \in {"ability", "build"} =>
            /\ seen[v] = row[bearer[v]]
            /\ ability[bearer[v]][seen[v].role] \in {Nil, row[bearer[v]].role}
==============================================================================
