---------------------------- MODULE GuardsProofs ----------------------------
(***************************************************************************)
(* Proofs about Guards, for all limits and windows and any number of       *)
(* requests of the client at once: the types, how a block and the count    *)
(* behind it end, how much a throttler lets pass, and who is served and    *)
(* who is refused which route.                                             *)
(***************************************************************************)
EXTENDS Guards, TLAPS

\* Every counter is there, and has a time to live as long as it counts.
Counters ==
    /\ hits \in [Throttlers -> Nat]
    /\ left \in [Throttlers -> Nat]
    /\ block \in [Throttlers -> Nat]
    /\ letIn = [t \in Throttlers |-> letIn[t]]
    /\ \A t \in Throttlers : left[t] = 0 => hits[t] = 0

\* What was let in before the window is less than the limit, and what was let in since is
\* counted; as far back as the tick after the window's first hit it is less than the count.
Quota ==
    \A t \in Throttlers : \A age \in Ages(t) :
        /\ letIn[t][age] <= LimitOf(t) - 1 + hits[t]
        /\ letIn[t][age] <= 2 * LimitOf(t) - 1
        /\ hits[t] > 0 /\ age < Ttl[t] - left[t] =>
               letIn[t][age] < hits[t] /\ letIn[t][age] < LimitOf(t)

\* Nothing counts in a throttler the route skips.
Counted ==
    /\ \A t \in Throttlers : hits[t] > 0 => t \in Counting
    /\ \A r \in Requests : todo[r] \subseteq Counting

\* What the guards behind a request have made sure of.
Checked ==
    \A r \in Requests :
        /\ pc[r] \in {"policies", "handler", "forbidden"} =>
               IF route.isPublic THEN who[r] = Nobody ELSE who[r] # Nobody
        /\ pc[r] = "handler" => Entitled(r)
        /\ pc[r] = "forbidden" => ~Entitled(r)

IInv == TypeOK /\ Counters /\ BlockOutlivesCount /\ Quota /\ Counted /\ Checked

------------------------------------------------------------------------------
LEMMA Limits ==
    ASSUME NEW t \in Throttlers
    PROVE  /\ LimitOf(t) \in Nat \ {0}
           /\ Ttl[t] \in Nat \ {0}
           /\ 0 \in Ages(t)
  BY GuardAssumption DEF LimitOf, Ages

\* What the storage holds, and the history, apart from the requests.
StoreInv ==
    /\ Counters
    /\ \A t \in Throttlers :
          /\ hits[t] \in 0 .. LimitOf(t) + 1
          /\ left[t] \in 0 .. Ttl[t]
          /\ block[t] \in 0 .. Ttl[t]
          /\ letIn[t] \in [Ages(t) -> Nat]
    /\ BlockOutlivesCount

LEMMA StoreKept ==
    ASSUME StoreInv, UNCHANGED <<route, storeVars, letIn>>
    PROVE  StoreInv'
  BY DEF StoreInv, Counters, BlockOutlivesCount, LimitOf, storeVars

\* The script counts only where no block is; a hit that exceeds the limit leaves a block
\* with a full TTL, which no counter outlives.
LEMMA IncrementKeeps ==
    ASSUME StoreInv, NEW t \in Throttlers, Increment(t), UNCHANGED route,
           \/ letIn' = letIn
           \/ letIn' = [letIn EXCEPT ![t] = [age \in Ages(t) |-> letIn[t][age] + 1]]
    PROVE  StoreInv'
<1> USE DEF StoreInv, Counters
<1>1. \A x \in Throttlers : LimitOf(x)' = LimitOf(x)
  BY DEF LimitOf
<1>2. /\ letIn' = [x \in Throttlers |-> letIn'[x]]
      /\ \A x \in Throttlers : letIn'[x] \in [Ages(x) -> Nat]
  BY Limits
<1>3. CASE block[t] > 0
  <2>1. UNCHANGED <<hits, left, block>>
    BY <1>3 DEF Increment, storeVars
  <2>2. QED
    BY <1>1, <1>2, <2>1 DEF BlockOutlivesCount
<1>4. CASE ~(block[t] > 0)
  <2>1. /\ hits' = [hits EXCEPT ![t] = hits[t] + 1]
        /\ left' = [left EXCEPT ![t] = IF hits[t] = 0 THEN Ttl[t] ELSE left[t]]
        /\ block' = [block EXCEPT ![t] = IF hits[t] + 1 > LimitOf(t) THEN Ttl[t] ELSE block[t]]
    BY <1>4 DEF Increment, Count, Exceeds
  <2>2. \A x \in Throttlers \ {t} :
            hits'[x] = hits[x] /\ left'[x] = left[x] /\ block'[x] = block[x]
    BY <2>1
  <2>3. hits[t] <= LimitOf(t)
    BY <1>4, Limits DEF BlockOutlivesCount
  <2>4. /\ hits' \in [Throttlers -> Nat]
        /\ left' \in [Throttlers -> Nat]
        /\ block' \in [Throttlers -> Nat]
    BY <2>1, Limits
  <2>5. /\ hits'[t] \in 1 .. LimitOf(t) + 1
        /\ left'[t] \in 1 .. Ttl[t]
        /\ block'[t] \in 0 .. Ttl[t]
        /\ hits'[t] > LimitOf(t) => block'[t] = Ttl[t]
    BY <2>1, <2>3, Limits
  <2>6. BlockOutlivesCount'
    BY <1>1, <2>2, <2>5, Limits DEF BlockOutlivesCount
  <2>7. ASSUME NEW x \in Throttlers
        PROVE  /\ hits'[x] \in 0 .. LimitOf(x) + 1
               /\ left'[x] \in 0 .. Ttl[x]
               /\ block'[x] \in 0 .. Ttl[x]
               /\ left'[x] = 0 => hits'[x] = 0
    <3>1. CASE x = t
      BY <2>5, <3>1, Limits
    <3>2. CASE x # t
      BY <2>2, <3>2
    <3>3. QED
      BY <3>1, <3>2
  <2>8. QED
    BY <1>1, <1>2, <2>4, <2>6, <2>7
<1>5. QED
  BY <1>3, <1>4

\* A counter that is still there has at least as long to live as its TTL said, and the
\* block at least as long as the counter.
LEMMA TickKeeps ==
    ASSUME StoreInv, Tick
    PROVE  StoreInv'
<1>1. /\ hits \in [Throttlers -> Nat]
      /\ left \in [Throttlers -> Nat]
      /\ block \in [Throttlers -> Nat]
  BY DEF StoreInv, Counters
<1>2. /\ hits' = [t \in Throttlers |-> IF left[t] <= 1 THEN 0 ELSE hits[t]]
      /\ left' = [t \in Throttlers |-> IF left[t] = 0 THEN 0 ELSE left[t] - 1]
      /\ block' = [t \in Throttlers |-> IF block[t] = 0 THEN 0 ELSE block[t] - 1]
  BY DEF Tick
<1>3. /\ hits' \in [Throttlers -> Nat]
      /\ left' \in [Throttlers -> Nat]
      /\ block' \in [Throttlers -> Nat]
  <2>1. \A t \in Throttlers : left[t] # 0 => left[t] - 1 \in Nat
    BY ONLY <1>1
  <2>2. \A t \in Throttlers : block[t] # 0 => block[t] - 1 \in Nat
    BY ONLY <1>1
  <2>3. QED
    BY ONLY <1>1, <1>2, <2>1, <2>2
<1>4. \A t \in Throttlers :
          /\ LimitOf(t)' = LimitOf(t)
          /\ hits'[t] = IF left[t] <= 1 THEN 0 ELSE hits[t]
          /\ left'[t] = IF left[t] = 0 THEN 0 ELSE left[t] - 1
          /\ block'[t] = IF block[t] = 0 THEN 0 ELSE block[t] - 1
  BY <1>2 DEF Tick, LimitOf
<1>5. ASSUME NEW t \in Throttlers
      PROVE  /\ hits'[t] \in 0 .. LimitOf(t)' + 1
             /\ left'[t] \in 0 .. Ttl[t]
             /\ block'[t] \in 0 .. Ttl[t]
             /\ left'[t] = 0 => hits'[t] = 0
             /\ hits'[t] > LimitOf(t)' => block'[t] > 0 /\ block'[t] >= left'[t]
  <2>1. /\ hits[t] \in 0 .. LimitOf(t) + 1
        /\ left[t] \in 0 .. Ttl[t]
        /\ block[t] \in 0 .. Ttl[t]
        /\ hits[t] > LimitOf(t) => block[t] > 0 /\ block[t] >= left[t]
    BY DEF StoreInv, BlockOutlivesCount
  <2>2. QED
    BY <1>4, <2>1, Limits
<1>6. /\ letIn' = [t \in Throttlers |-> letIn'[t]]
      /\ \A t \in Throttlers : letIn'[t] \in [Ages(t) -> Nat]
  <2> DEFINE aged(t) == [age \in Ages(t) |-> IF age = 0 THEN 0 ELSE letIn[t][age - 1]]
  <2>1. letIn' = [t \in Throttlers |-> aged(t)]
    BY DEF Tick
  <2>2. ASSUME NEW t \in Throttlers
        PROVE  aged(t) \in [Ages(t) -> Nat]
    <3>1. \A age \in Ages(t) : age # 0 => letIn[t][age - 1] \in Nat
      <4>1. letIn[t] \in [Ages(t) -> Nat]
        BY DEF StoreInv
      <4>2. \A age \in Ages(t) : age # 0 => age - 1 \in Ages(t)
        BY Limits DEF Ages
      <4>3. QED
        BY ONLY <4>1, <4>2
    <3>2. QED
      BY ONLY <3>1
  <2> HIDE DEF aged
  <2>3. QED
    BY ONLY <2>1, <2>2
<1>7. QED
  BY <1>3, <1>5, <1>6 DEF StoreInv, Counters, BlockOutlivesCount

\* What the quota says of one age of one throttler, before and after a hit.
LEMMA QuotaOfHit ==
    ASSUME NEW limit \in Nat \ {0}, NEW ttl \in Nat, NEW age \in 0 .. ttl - 1,
           NEW h \in Nat, NEW l \in Nat, NEW n \in Nat, NEW m \in Nat,
           n <= limit - 1 + h, n <= 2 * limit - 1,
           h > 0 /\ age < ttl - l => n < h /\ n < limit,
           m = n \/ (h + 1 <= limit /\ m = n + 1)
    PROVE  /\ m <= limit - 1 + h + 1
           /\ m <= 2 * limit - 1
           /\ age < ttl - (IF h = 0 THEN ttl ELSE l) => m < h + 1 /\ m < limit
  OBVIOUS

\* A hit that is counted, and let in only if the limit allows it.
LEMMA IncrementKeepsQuota ==
    ASSUME StoreInv, Quota, NEW t \in Throttlers, Increment(t), UNCHANGED route,
           \/ letIn' = letIn
           \/ /\ Passes(t)
              /\ letIn' = [letIn EXCEPT ![t] = [age \in Ages(t) |-> letIn[t][age] + 1]]
    PROVE  Quota'
<1>1. \A x \in Throttlers : LimitOf(x)' = LimitOf(x)
  BY DEF LimitOf
<1>2. CASE block[t] > 0
  <2>1. UNCHANGED <<hits, left, letIn>>
    BY <1>2 DEF Increment, storeVars, Passes
  <2>2. QED
    BY <1>1, <2>1 DEF Quota
<1>3. CASE ~(block[t] > 0)
  <2>1. /\ hits' = [hits EXCEPT ![t] = hits[t] + 1]
        /\ left' = [left EXCEPT ![t] = IF hits[t] = 0 THEN Ttl[t] ELSE left[t]]
    BY <1>3 DEF Increment, Count
  <2>2. ASSUME NEW x \in Throttlers, x # t
        PROVE  /\ letIn'[x] = letIn[x]
               /\ hits'[x] = hits[x] /\ left'[x] = left[x]
    BY <2>1, <2>2 DEF StoreInv, Counters
  <2>3. ASSUME NEW age \in Ages(t)
        PROVE  /\ letIn'[t][age] <= LimitOf(t) - 1 + hits'[t]
               /\ letIn'[t][age] <= 2 * LimitOf(t) - 1
               /\ hits'[t] > 0 /\ age < Ttl[t] - left'[t] =>
                      letIn'[t][age] < hits'[t] /\ letIn'[t][age] < LimitOf(t)
    <3>1. /\ hits'[t] = hits[t] + 1
          /\ left'[t] = IF hits[t] = 0 THEN Ttl[t] ELSE left[t]
          /\ hits[t] \in Nat /\ left[t] \in Nat
      BY <2>1 DEF StoreInv, Counters
    <3>2. letIn[t] \in [Ages(t) -> Nat]
      BY DEF StoreInv
    <3>3. \/ letIn'[t][age] = letIn[t][age]
          \/ hits[t] + 1 <= LimitOf(t) /\ letIn'[t][age] = letIn[t][age] + 1
      <4>1. CASE letIn' = letIn
        BY <4>1
      <4>2. CASE /\ Passes(t)
                 /\ letIn' = [letIn EXCEPT ![t] = [a \in Ages(t) |-> letIn[t][a] + 1]]
        <5>1. hits[t] + 1 <= LimitOf(t)
          BY <3>1, <4>2, Limits DEF Passes, Exceeds
        <5>2. letIn'[t] = [a \in Ages(t) |-> letIn[t][a] + 1]
          BY <4>2 DEF StoreInv, Counters
        <5>3. QED
          BY <2>3, <5>1, <5>2
      <4>3. QED
        BY <4>1, <4>2
    <3>4. /\ letIn[t][age] <= LimitOf(t) - 1 + hits[t]
          /\ letIn[t][age] <= 2 * LimitOf(t) - 1
          /\ hits[t] > 0 /\ age < Ttl[t] - left[t] =>
                 letIn[t][age] < hits[t] /\ letIn[t][age] < LimitOf(t)
      BY <2>3 DEF Quota
    <3>5. letIn[t][age] \in Nat
      BY <2>3, <3>2
    <3>6. LimitOf(t) \in Nat \ {0} /\ Ttl[t] \in Nat /\ age \in 0 .. Ttl[t] - 1
      BY <2>3, Limits DEF Ages
    <3>7. /\ letIn'[t][age] <= LimitOf(t) - 1 + hits[t] + 1
          /\ letIn'[t][age] <= 2 * LimitOf(t) - 1
          /\ age < Ttl[t] - (IF hits[t] = 0 THEN Ttl[t] ELSE left[t]) =>
                 letIn'[t][age] < hits[t] + 1 /\ letIn'[t][age] < LimitOf(t)
      BY ONLY <3>1, <3>3, <3>4, <3>5, <3>6, QuotaOfHit
    <3>8. QED
      BY ONLY <3>1, <3>6, <3>7
  <2>4. QED
    BY <1>1, <2>2, <2>3 DEF Quota
<1>4. QED
  BY <1>2, <1>3

\* When a window ends, all that is left of it is younger than its first hit.
LEMMA TickKeepsQuota ==
    ASSUME StoreInv, Quota, Tick
    PROVE  Quota'
<1>1. SUFFICES ASSUME NEW t \in Throttlers, NEW age \in Ages(t)
               PROVE  /\ letIn'[t][age] <= LimitOf(t) - 1 + hits'[t]
                      /\ letIn'[t][age] <= 2 * LimitOf(t) - 1
                      /\ hits'[t] > 0 /\ age < Ttl[t] - left'[t] =>
                             letIn'[t][age] < hits'[t] /\ letIn'[t][age] < LimitOf(t)
  <2>1. \A x \in Throttlers : LimitOf(x)' = LimitOf(x)
    BY DEF Tick, LimitOf
  <2>2. QED
    BY <1>1, <2>1 DEF Quota
<1>2. /\ hits'[t] = IF left[t] <= 1 THEN 0 ELSE hits[t]
      /\ left'[t] = IF left[t] = 0 THEN 0 ELSE left[t] - 1
  BY DEF Tick
<1>3. age \in Ages(t)
  BY <1>1
<1>4. letIn'[t][age] = IF age = 0 THEN 0 ELSE letIn[t][age - 1]
  BY <1>3 DEF Tick
<1>5. /\ hits[t] \in Nat /\ left[t] \in 0 .. Ttl[t]
      /\ left[t] = 0 => hits[t] = 0
  BY DEF StoreInv, Counters
<1>6. CASE age = 0
  BY <1>2, <1>4, <1>5, <1>6, Limits
<1>7. CASE age # 0
  <2>1. age - 1 \in Nat /\ age - 1 < Ttl[t] /\ age - 1 \in Ages(t)
    BY <1>1, <1>7, Limits DEF Ages
  <2>2. letIn[t][age - 1] \in Nat
    BY <2>1 DEF StoreInv
  <2>3. /\ letIn[t][age - 1] <= LimitOf(t) - 1 + hits[t]
        /\ letIn[t][age - 1] <= 2 * LimitOf(t) - 1
        /\ hits[t] > 0 /\ age - 1 < Ttl[t] - left[t] => letIn[t][age - 1] < hits[t]
        /\ hits[t] > 0 /\ age - 1 < Ttl[t] - left[t] => letIn[t][age - 1] < LimitOf(t)
    BY <2>1 DEF Quota
  <2>4. letIn'[t][age] = letIn[t][age - 1]
    BY <1>4, <1>7
  <2>5. QED
    BY <1>1, <1>2, <1>5, <1>7, <2>2, <2>3, <2>4, Limits DEF Ages
<1>8. QED
  BY <1>6, <1>7

------------------------------------------------------------------------------
RequestTypes ==
    /\ route \in Routes
    /\ pc \in [Requests -> Steps]
    /\ who \in [Requests -> Roles \cup {Nobody}]
    /\ todo \in [Requests -> SUBSET Throttlers]

\* The invariant, by what its conjuncts are about.
LEMMA Parts ==
    IInv <=> StoreInv /\ Quota /\ RequestTypes /\ Counted /\ Checked
  BY DEF IInv, TypeOK, StoreInv, RequestTypes

\* A request that has got nowhere near the policies: what has been checked of the others
\* is still so.
LEMMA CheckedKept ==
    ASSUME Checked, RequestTypes, NEW r \in Requests, UNCHANGED route,
           \A q \in Requests \ {r} : pc'[q] = pc[q] /\ who'[q] = who[q],
           pc'[r] \notin {"policies", "handler", "forbidden"}
    PROVE  Checked'
  BY DEF Checked, Entitled

\* What a hit adds is counted by a throttler the request had still to pass.
LEMMA IncrementKeepsCounted ==
    ASSUME StoreInv, Counted, NEW r \in Requests, NEW t \in todo[r], t \in Throttlers,
           Increment(t), UNCHANGED route,
           \A q \in Requests : todo'[q] \subseteq todo[q]
    PROVE  Counted'
<1>1. \A x \in Throttlers \ {t} : hits'[x] = hits[x]
  BY DEF Increment, Count, storeVars, StoreInv, Counters
<1>2. QED
  BY <1>1 DEF Counted, Counting

LEMMA RequestPreserves ==
    ASSUME StoreInv, Quota, RequestTypes, Counted, Checked, NEW r \in Requests, RequestStep(r)
    PROVE  StoreInv' /\ Quota' /\ RequestTypes' /\ Counted' /\ Checked'
<1>1. ASSUME UNCHANGED <<route, storeVars, letIn>>
      PROVE  StoreInv' /\ Quota'
  BY <1>1, StoreKept DEF Quota, LimitOf, storeVars
<1>2. ASSUME NEW role \in Roles \cup {Nobody}, Receive(r, role)
      PROVE  StoreInv' /\ Quota' /\ RequestTypes' /\ Counted' /\ Checked'
  <2>1. RequestTypes'
    BY <1>2 DEF Receive, Counting, RequestTypes, Steps
  <2>2. Counted'
    BY <1>2 DEF Receive, Counted, Counting, storeVars, RequestTypes
  <2>3. Checked'
    BY <1>2, CheckedKept DEF Receive, RequestTypes
  <2>4. QED
    BY <1>1, <1>2, <2>1, <2>2, <2>3 DEF Receive
<1>3. ASSUME NEW t \in Throttlers, Throttle(r, t)
      PROVE  StoreInv' /\ Quota' /\ RequestTypes' /\ Counted' /\ Checked'
  <2>1. StoreInv' /\ Quota'
    BY <1>3, IncrementKeeps, IncrementKeepsQuota DEF Throttle
  <2>2. RequestTypes'
    BY <1>3 DEF Throttle, RequestTypes, Steps
  <2>3. \A q \in Requests : todo'[q] \subseteq todo[q]
    BY <1>3 DEF Throttle, RequestTypes
  <2>4. Counted'
    BY <1>3, <2>3, IncrementKeepsCounted DEF Throttle
  <2>5. Checked'
    BY <1>3, CheckedKept DEF Throttle, RequestTypes
  <2>6. QED
    BY <2>1, <2>2, <2>4, <2>5
<1>4. ASSUME NEW t \in Throttlers, ThrottleUnanswered(r, t)
      PROVE  StoreInv' /\ Quota' /\ RequestTypes' /\ Counted' /\ Checked'
  <2>1. StoreInv' /\ Quota'
    BY <1>4, IncrementKeeps, IncrementKeepsQuota DEF ThrottleUnanswered
  <2>2. RequestTypes'
    BY <1>4 DEF ThrottleUnanswered, RequestTypes
  <2>3. Counted'
    BY <1>4, IncrementKeepsCounted DEF ThrottleUnanswered
  <2>4. Checked'
    BY <1>4, CheckedKept DEF ThrottleUnanswered
  <2>5. QED
    BY <2>1, <2>2, <2>3, <2>4
<1>5. CASE Throttled(r)
  <2>1. RequestTypes' /\ Counted'
    BY <1>5 DEF Throttled, Goto, RequestTypes, Steps, Counted, Counting, storeVars
  <2>2. Checked'
    BY <1>5, CheckedKept DEF Throttled, Goto, RequestTypes
  <2>3. QED
    BY <1>1, <1>5, <2>1, <2>2 DEF Throttled, Goto
<1>6. CASE Authenticate(r)
  <2>1. RequestTypes' /\ Counted'
    BY <1>6 DEF Authenticate, RequestTypes, Steps, Counted, Counting, storeVars
  <2>2. \A q \in Requests \ {r} : pc'[q] = pc[q] /\ who'[q] = who[q]
    BY <1>6 DEF Authenticate, RequestTypes
  <2>3. /\ pc'[r] = IF route.isPublic \/ who[r] # Nobody THEN "policies" ELSE "unauthorized"
        /\ who'[r] = IF route.isPublic THEN Nobody ELSE who[r]
        /\ route' = route
    BY <1>6 DEF Authenticate, RequestTypes
  <2>4. Checked'
    BY <2>2, <2>3 DEF Checked, Entitled
  <2>5. QED
    BY <1>1, <1>6, <2>1, <2>4 DEF Authenticate
<1>7. CASE CheckPolicies(r)
  <2>1. RequestTypes' /\ Counted'
    BY <1>7 DEF CheckPolicies, Goto, RequestTypes, Steps, Counted, Counting, storeVars
  <2>2. /\ \A q \in Requests \ {r} : pc'[q] = pc[q]
        /\ pc[r] = "policies"
        /\ pc'[r] = IF Entitled(r) THEN "handler" ELSE "forbidden"
        /\ UNCHANGED <<route, who>>
    BY <1>7 DEF CheckPolicies, Goto, RequestTypes
  <2>3. Checked'
    BY <2>2 DEF Checked, Entitled
  <2>4. QED
    BY <1>1, <1>7, <2>1, <2>3 DEF CheckPolicies, Goto
<1>8. CASE Answer(r)
  <2>1. RequestTypes' /\ Counted'
    BY <1>8 DEF Answer, RequestTypes, Steps, Counted, Counting, storeVars
  <2>2. Checked'
    BY <1>8, CheckedKept DEF Answer, RequestTypes
  <2>3. QED
    BY <1>1, <1>8, <2>1, <2>2 DEF Answer
<1>9. QED
  BY <1>2, <1>3, <1>4, <1>5, <1>6, <1>7, <1>8 DEF RequestStep

LEMMA InitHolds ==
    Init => IInv
<1>1. SUFFICES ASSUME Init PROVE StoreInv /\ Quota /\ RequestTypes /\ Counted /\ Checked
  BY Parts
<1>2. RequestTypes
  BY <1>1 DEF Init, RequestTypes, Steps
<1>3. StoreInv
  BY <1>1, Limits DEF Init, StoreInv, Counters, BlockOutlivesCount
<1>4. Quota
  BY <1>1, Limits DEF Init, Quota
<1>5. Counted /\ Checked
  BY <1>1 DEF Init, Counted, Checked
<1>6. QED
  BY <1>2, <1>3, <1>4, <1>5

LEMMA StepPreserves ==
    IInv /\ [Next]_vars => IInv'
<1>1. SUFFICES ASSUME StoreInv, Quota, RequestTypes, Counted, Checked, [Next]_vars
               PROVE  StoreInv' /\ Quota' /\ RequestTypes' /\ Counted' /\ Checked'
  <2>1. StoreInv' /\ Quota' /\ RequestTypes' /\ Counted' /\ Checked' => IInv'
    BY DEF IInv, TypeOK, StoreInv, RequestTypes
  <2>2. QED
    BY <1>1, <2>1, Parts
<1>2. CASE UNCHANGED vars
  BY <1>1, <1>2, StoreKept
     DEF vars, RequestTypes, Quota, LimitOf, storeVars, Counted, Counting, Checked, Entitled
<1>3. CASE Tick
  <2>1. RequestTypes' /\ Checked'
    BY <1>1, <1>3 DEF Tick, RequestTypes, Checked, Entitled
  <2>2. Counted'
    BY <1>1, <1>3 DEF Tick, Counted, Counting
  <2>3. QED
    BY <1>1, <1>3, <2>1, <2>2, TickKeeps, TickKeepsQuota
<1>4. QED
  BY <1>1, <1>2, <1>3, RequestPreserves DEF Next

LEMMA Invariance ==
    Spec => []IInv
  BY InitHolds, StepPreserves, PTL DEF Spec

------------------------------------------------------------------------------
(* The routes and the rules. *)

\* The search's own limit changes nothing else about it.
LEMMA SearchHas ==
    ASSUME NEW x \in SearchRoutes
    PROVE  /\ x.controller = "news" /\ x.handler = "search" /\ x.changes = FALSE
           /\ x.isPublic = FALSE /\ x.asks = {<<"read", "NewsArticle">>} /\ x.skips = {"login"}
<1>1. PICK y \in Protected("news", {"search"}, FALSE, "read", "NewsArticle") :
          x = [y EXCEPT !.strict = TRUE]
  BY DEF SearchRoutes
<1>2. y \in [controller : {"news"}, handler : {"search"}, changes : {FALSE}, isPublic : {FALSE},
             asks : {{<<"read", "NewsArticle">>}}, skips : {{"login"}}, strict : {FALSE}]
  BY <1>1 DEF Protected, Handlers
<1>3. QED
  BY <1>1, <1>2

\* A route that is not public, whichever way one looks at it, and asks for one action on
\* one subject.
Asking(x, controller, changes, action, subject) ==
    /\ x.controller = controller
    /\ x.changes = changes
    /\ x.asks = {<<action, subject>>}
    /\ x.isPublic = FALSE
    /\ x.handler \notin {"login", "refresh", "logout"}

\* The routes by what they ask for.
LEMMA RouteTable ==
    ASSUME NEW x \in Routes
    PROVE  \/ x.asks = {} /\ DocumentedPublic(x)
           \/ x.asks = {} /\ x.controller = "auth" /\ x.isPublic = FALSE
           \/ \E changes \in BOOLEAN : Asking(x, "users", changes, "manage", "User")
           \/ Asking(x, "pages", FALSE, "read", "Page")
           \/ \E action \in {"create", "update", "publish", "archive"} :
                  Asking(x, "pages", TRUE, action, "Page")
           \/ Asking(x, "news", FALSE, "read", "NewsArticle")
           \/ Asking(x, "news", FALSE, "update", "NewsArticle") /\ x.handler = "getAdBannerCode"
           \/ \E action \in {"create", "update", "delete", "publish", "archive"} :
                  Asking(x, "news", TRUE, action, "NewsArticle")
           \/ Asking(x, "media", TRUE, "create", "MediaAsset")
           \/ Asking(x, "audit", FALSE, "manage", "AuditLog")
<1>1. CASE x \in AppRoutes
  BY <1>1 DEF Handlers, AppRoutes, DocumentedPublic
<1>2. CASE x \in CappedAuthRoutes
  BY <1>2 DEF Handlers, CappedAuthRoutes, DocumentedPublic
<1>3. CASE x \in OtherAuthRoutes
  BY <1>3 DEF Handlers, OtherAuthRoutes, DocumentedPublic
<1>4. CASE x \in UserRoutes
  BY <1>4 DEF Protected, Handlers, UserRoutes, Asking
<1>5. CASE x \in PageRoutes
  BY <1>5 DEF Protected, Handlers, PageRoutes, Asking
<1>6. CASE x \in SearchRoutes
  BY <1>6, SearchHas DEF Asking
<1>7. CASE x \in ArticleRoutes
  BY <1>7 DEF Protected, Handlers, ArticleRoutes, Asking
<1>8. CASE x \in CardRoutes
  BY <1>8 DEF Protected, Handlers, CardRoutes, Asking
<1>9. CASE x \in MediaRoutes
  BY <1>9 DEF Protected, Handlers, MediaRoutes, Asking
<1>10. CASE x \in AuditRoutes
  BY <1>10 DEF Protected, Handlers, AuditRoutes, Asking
<1>11. CASE x \in PortalRoutes
  BY <1>11 DEF Handlers, PortalRoutes, DocumentedPublic
<1>12. QED
  BY <1>1, <1>2, <1>3, <1>4, <1>5, <1>6, <1>7, <1>8, <1>9, <1>10, <1>11 DEF Routes

\* Only these are not exempt from the login throttler.
LEMMA Unskipped ==
    ASSUME NEW x \in Routes, "login" \notin x.skips
    PROVE  x \in CappedAuthRoutes \cup AppRoutes
<1>1. x \notin OtherAuthRoutes
  BY DEF Handlers, OtherAuthRoutes
<1>2. x \notin UserRoutes
  BY DEF Protected, Handlers, UserRoutes
<1>3. x \notin PageRoutes
  BY DEF Protected, Handlers, PageRoutes
<1>4. x \notin SearchRoutes
  BY SearchHas
<1>5. x \notin ArticleRoutes
  BY DEF Protected, Handlers, ArticleRoutes
<1>6. x \notin CardRoutes
  BY DEF Protected, Handlers, CardRoutes
<1>7. x \notin MediaRoutes
  BY DEF Protected, Handlers, MediaRoutes
<1>8. x \notin AuditRoutes
  BY DEF Protected, Handlers, AuditRoutes
<1>9. x \notin PortalRoutes
  BY DEF Handlers, PortalRoutes
<1>10. QED
  BY <1>1, <1>2, <1>3, <1>4, <1>5, <1>6, <1>7, <1>8, <1>9 DEF Routes

LEMMA SuperAdminCan ==
    ASSUME NEW action, NEW subject
    PROVE  Can(SuperAdmin, action, subject)
<1>1. <<"manage", "all">> \in Rules(SuperAdmin)
  BY RolesAssumption DEF Rules
<1>2. QED
  BY <1>1 DEF Can

LEMMA ContentManagerCan ==
    ASSUME NEW action, NEW subject
    PROVE  Can(ContentManager, action, subject) <=>
               \/ subject \in {"NewsArticle", "Page", "PageSection", "Rubric"}
               \/ action = "create" /\ subject = "MediaAsset"
               \/ action = "read" /\ subject \in {"User", "Company", "AuditLog"}
<1>1. Rules(ContentManager) =
          ({"manage"} \X {"NewsArticle", "Page", "PageSection", "Rubric"})
              \cup {<<"create", "MediaAsset">>}
              \cup ({"read"} \X {"User", "Company", "AuditLog"})
  BY RolesAssumption DEF Rules
<1>2. \A rule \in Rules(ContentManager) :
          \/ rule[1] = "manage" /\ rule[2] \in {"NewsArticle", "Page", "PageSection", "Rubric"}
          \/ rule[1] = "create" /\ rule[2] = "MediaAsset"
          \/ rule[1] = "read" /\ rule[2] \in {"User", "Company", "AuditLog"}
  BY <1>1
<1>3. /\ \A s \in {"NewsArticle", "Page", "PageSection", "Rubric"} :
            <<"manage", s>> \in Rules(ContentManager)
      /\ <<"create", "MediaAsset">> \in Rules(ContentManager)
      /\ \A s \in {"User", "Company", "AuditLog"} : <<"read", s>> \in Rules(ContentManager)
  BY <1>1
<1>4. QED
  BY <1>2, <1>3 DEF Can

LEMMA SalesManagerCan ==
    ASSUME NEW action, NEW subject
    PROVE  Can(SalesManager, action, subject) <=>
               \/ subject \in {"Company", "Purchase"}
               \/ action = "read" /\ subject \in {"NewsArticle", "Page", "Rubric", "User"}
<1>1. Rules(SalesManager) =
          ({"manage"} \X {"Company", "Purchase"})
              \cup ({"read"} \X {"NewsArticle", "Page", "Rubric", "User"})
  BY RolesAssumption DEF Rules
<1>2. \A rule \in Rules(SalesManager) :
          \/ rule[1] = "manage" /\ rule[2] \in {"Company", "Purchase"}
          \/ rule[1] = "read" /\ rule[2] \in {"NewsArticle", "Page", "Rubric", "User"}
  BY <1>1
<1>3. /\ \A s \in {"Company", "Purchase"} : <<"manage", s>> \in Rules(SalesManager)
      /\ \A s \in {"NewsArticle", "Page", "Rubric", "User"} :
            <<"read", s>> \in Rules(SalesManager)
  BY <1>1
<1>4. QED
  BY <1>2, <1>3 DEF Can

\* What the routes ask for, with the subject the README knows their controller by.
Row(x, action, subject) ==
    /\ x.asks = {<<action, subject>>}
    /\ Subject[x.controller] = subject
    /\ \/ x.controller = "users" /\ subject = "User" /\ action = "manage"
       \/ /\ x.controller \in {"pages", "news"} /\ subject \in {"Page", "NewsArticle"}
          /\ \/ x.changes = FALSE /\ action = "read"
             \/ x.changes = FALSE /\ x.handler = "getAdBannerCode"
             \/ x.changes = TRUE /\ action # "read"
       \/ /\ x.controller = "media" /\ subject = "MediaAsset"
          /\ x.changes = TRUE /\ action = "create"
       \/ x.controller = "audit" /\ subject = "AuditLog" /\ action = "manage"

\* A route that asks at all asks for one thing, and is not public.
LEMMA Asked ==
    ASSUME NEW x \in Routes, x.asks # {}
    PROVE  /\ ~DocumentedPublic(x) /\ x.controller # "auth"
           /\ \E action, subject : Row(x, action, subject)
<1>1. /\ Subject["users"] = "User" /\ Subject["pages"] = "Page"
      /\ Subject["news"] = "NewsArticle" /\ Subject["media"] = "MediaAsset"
      /\ Subject["audit"] = "AuditLog"
  BY DEF Subject
<1>2. ASSUME NEW controller, NEW changes, NEW action, NEW subject,
             Asking(x, controller, changes, action, subject),
             controller \in {"users", "pages", "news", "media", "audit"}
      PROVE  ~DocumentedPublic(x) /\ x.controller # "auth"
  BY <1>2 DEF Asking, DocumentedPublic
<1>3. QED
  <2>1. CASE \E changes \in BOOLEAN : Asking(x, "users", changes, "manage", "User")
    BY <1>1, <1>2, <2>1 DEF Asking, Row
  <2>2. CASE \/ Asking(x, "pages", FALSE, "read", "Page")
             \/ \E action \in {"create", "update", "publish", "archive"} :
                    Asking(x, "pages", TRUE, action, "Page")
    BY <1>1, <1>2, <2>2 DEF Asking, Row
  <2>3. CASE \/ Asking(x, "news", FALSE, "read", "NewsArticle")
             \/ Asking(x, "news", FALSE, "update", "NewsArticle") /\ x.handler = "getAdBannerCode"
             \/ \E action \in {"create", "update", "delete", "publish", "archive"} :
                    Asking(x, "news", TRUE, action, "NewsArticle")
    BY <1>1, <1>2, <2>3 DEF Asking, Row
  <2>4. CASE Asking(x, "media", TRUE, "create", "MediaAsset")
    BY <1>1, <1>2, <2>4 DEF Asking, Row
  <2>5. CASE Asking(x, "audit", FALSE, "manage", "AuditLog")
    BY <1>1, <1>2, <2>5 DEF Asking, Row
  <2>6. QED
    BY <2>1, <2>2, <2>3, <2>4, <2>5, RouteTable

\* The rules grant no more than the README's tables.
LEMMA GrantedIsDocumented ==
    ASSUME NEW x \in Routes, NEW role \in Roles, x.asks # {},
           \A ask \in x.asks : Can(role, ask[1], ask[2])
    PROVE  Documented(role, x)
<1>1. PICK action, subject : Row(x, action, subject)
  BY Asked
<1>2. Can(role, action, subject)
  BY <1>1 DEF Row
<1>3. CASE role = SuperAdmin
  BY <1>3 DEF Documented
<1>4. CASE role = ContentManager
  <2>1. Managed[role] = {"Page", "NewsArticle", "Rubric", "MediaAsset"}
    BY <1>4 DEF Managed
  <2>2. /\ ~(subject = "User" /\ action = "manage")
        /\ ~(subject = "AuditLog" /\ action = "manage")
    BY <1>2, <1>4, ContentManagerCan
  <2>3. x.controller # "users" /\ subject \in {"Page", "NewsArticle", "MediaAsset"}
    BY <1>1, <2>2 DEF Row
  <2>4. subject = Subject[x.controller]
    BY <1>1 DEF Row
  <2>5. QED
    BY <2>1, <2>3, <2>4 DEF Documented
<1>5. CASE role = SalesManager
  <2>1. Readable[role] = {"Page", "NewsArticle", "User", "AuditLog"}
    BY <1>5, RolesAssumption DEF Readable
  <2>2. action = "read" /\ subject \in {"NewsArticle", "Page", "Rubric", "User"}
    BY <1>1, <1>2, <1>5, SalesManagerCan DEF Row
  <2>3. Subject[x.controller] \in Readable[role] /\ ~x.changes /\ x.controller # "users"
    BY <1>1, <2>1, <2>2 DEF Row
  <2>4. QED
    BY <2>3 DEF Documented
<1>6. QED
  BY <1>3, <1>4, <1>5 DEF Roles

\* Nor less, but for what the code is stricter about.
LEMMA DocumentedIsGranted ==
    ASSUME NEW x \in Routes, NEW role \in Roles, x.asks # {},
           Documented(role, x), ~StricterThanDocumented(x)
    PROVE  \A ask \in x.asks : Can(role, ask[1], ask[2])
<1>1. PICK action, subject : Row(x, action, subject)
  BY Asked
<1>2. SUFFICES Can(role, action, subject)
  BY <1>1 DEF Row
<1>3. CASE role = SuperAdmin
  BY <1>3, SuperAdminCan
<1>4. role # SuperAdmin =>
          /\ x.controller # "users"
          /\ \/ subject \in Managed[role]
             \/ ~x.changes /\ subject \in Readable[role]
  BY <1>1, Asked DEF Documented, Row
<1>5. CASE role = ContentManager
  <2>1. x.controller # "users" /\ x.controller # "audit"
    BY <1>4, <1>5, RolesAssumption DEF StricterThanDocumented
  <2>2. subject \in {"NewsArticle", "Page"} \/ (action = "create" /\ subject = "MediaAsset")
    BY <1>1, <2>1 DEF Row
  <2>3. QED
    BY <1>5, <2>2, ContentManagerCan
<1>6. CASE role = SalesManager
  <2>1. /\ Managed[role] = {"Company", "Purchase"}
        /\ Readable[role] = {"Page", "NewsArticle", "User", "AuditLog"}
    BY <1>6, RolesAssumption DEF Managed, Readable
  <2>2. action = "read" /\ subject \in {"NewsArticle", "Page"}
    BY <1>1, <1>4, <1>6, <2>1, RolesAssumption DEF Row, StricterThanDocumented
  <2>3. QED
    BY <1>6, <2>2, SalesManagerCan
<1>7. QED
  BY <1>3, <1>5, <1>6 DEF Roles

------------------------------------------------------------------------------
\* No counter goes further than one hit beyond its limit, whatever the limits, the windows
\* and the number of requests at once (throttler-storage.ts:33-37).
THEOREM TypeCorrect ==
    Spec => []TypeOK
<1>1. IInv => TypeOK
  BY DEF IInv
<1>2. QED
  BY <1>1, Invariance, PTL

\* No client finds the count that blocked it still there when its block ends, whatever the
\* limits and the windows (throttler-storage.ts:45-48).
THEOREM BlockEndsLast ==
    Spec => []BlockOutlivesCount
<1>1. IInv => BlockOutlivesCount
  BY DEF IInv
<1>2. QED
  BY <1>1, Invariance, PTL

\* In the time of one window a throttler lets less than twice its limit pass, whatever the
\* limits, the windows, the route, the requests at once and the answers that are lost
\* (throttler-storage.ts:39-48).
THEOREM LessThanTwice ==
    Spec => []LessThanTwiceTheLimit
<1>1. IInv => LessThanTwiceTheLimit
  <2>1. SUFFICES ASSUME IInv, NEW t \in Throttlers
                 PROVE  letIn[t][Ttl[t] - 1] < 2 * LimitOf(t)
    BY DEF LessThanTwiceTheLimit
  <2>2. Ttl[t] - 1 \in Ages(t)
    BY Limits DEF Ages
  <2>3. letIn[t][Ttl[t] - 1] <= 2 * LimitOf(t) - 1 /\ letIn[t][Ttl[t] - 1] \in Nat
    BY <2>1, <2>2 DEF IInv, Quota, TypeOK
  <2>4. QED
    BY <2>3, Limits
<1>2. QED
  BY <1>1, Invariance, PTL

\* Whatever its limit, the login throttler counts nothing but login, refresh and the two
\* routes of the application (app.module.ts:199-201, app.controller.ts:28 and :43).
THEOREM LoginCapsOnlyThese ==
    Spec => []LoginCapsNothingElse
<1>1. IInv => LoginCapsNothingElse
  BY Unskipped DEF IInv, TypeOK, Counted, Counting, LoginCapsNothingElse, Throttlers
<1>2. QED
  BY <1>1, Invariance, PTL

\* Every route, for every role: nobody gets past the guards whom the README keeps out
\* (README.md:455-545 and :569-572).
THEOREM Served ==
    Spec => []ServedAsDocumented
<1>1. IInv => ServedAsDocumented
  <2>1. SUFFICES ASSUME IInv, NEW r \in Requests, pc[r] = "handler"
                 PROVE  \/ DocumentedPublic(route)
                        \/ who[r] # Nobody /\ Documented(who[r], route)
    BY DEF ServedAsDocumented
  <2>2. /\ IF route.isPublic THEN who[r] = Nobody ELSE who[r] # Nobody
        /\ Entitled(r)
        /\ route \in Routes
        /\ who[r] \in Roles \cup {Nobody}
    BY <2>1 DEF IInv, Checked, TypeOK
  <2>3. CASE route.asks = {}
    BY <2>2, <2>3, RouteTable DEF Asking, Documented
  <2>4. CASE route.asks # {}
    BY <2>2, <2>4, GrantedIsDocumented DEF Entitled
  <2>5. QED
    BY <2>3, <2>4
<1>2. QED
  BY <1>1, Invariance, PTL

\* And nobody is kept out whom the README lets in, the audit log and the banner code apart
\* (casl-ability.factory.ts:140-180).
THEOREM Refused ==
    Spec => []RefusedAsDocumented
<1>1. IInv => RefusedAsDocumented
  <2>1. SUFFICES ASSUME IInv, NEW r \in Requests, pc[r] = "forbidden",
                        Documented(who[r], route), ~StricterThanDocumented(route)
                 PROVE  FALSE
    BY DEF RefusedAsDocumented
  <2>2. /\ IF route.isPublic THEN who[r] = Nobody ELSE who[r] # Nobody
        /\ ~Entitled(r)
        /\ route \in Routes
        /\ who[r] \in Roles \cup {Nobody}
    BY <2>1 DEF IInv, Checked, TypeOK
  <2>3. route.asks # {}
    BY <2>2 DEF Entitled
  <2>4. route.isPublic = FALSE
    BY <2>2, <2>3, RouteTable DEF Asking
  <2>5. QED
    BY <2>1, <2>2, <2>3, <2>4, DocumentedIsGranted DEF Entitled
<1>2. QED
  BY <1>1, Invariance, PTL
=============================================================================
