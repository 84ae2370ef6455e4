---------------------------- MODULE CardsProofs ----------------------------
(***************************************************************************)
(* Proofs about Cards: what is published is what the cards say, unless an  *)
(* edit was under way while it was compiled; the positions of the cards    *)
(* have no gap, and card edits implement CardList.                         *)
(***************************************************************************)
EXTENDS Cards, FiniteSetTheorems, FunctionTheorems, SequenceTheorems, TLAPS

------------------------------------------------------------------------------
(* The inductive invariant. *)

\* While the article shows what its cards say no edit is between its checks and its
\* commit.
NoEditOpen ==
    status = "PUBLISHED" /\ ~raced => \A r \in Requests : pc[r] # "commit"

IInv ==
    /\ pc \in [Requests -> Steps]
    /\ PublishedBodyHasACause
    /\ NoEditOpen

LEMMA InitInvariant == Init => IInv
  BY DEF Init, IInv, PublishedBodyHasACause, NoEditOpen, Steps

------------------------------------------------------------------------------
\* A step that changes neither the cards nor the article, and opens no transaction.
LEMMA Bystander ==
    ASSUME IInv, UNCHANGED <<cards, article>>, NEW r \in Requests,
           NEW step \in Steps, step # "commit", pc' = [pc EXCEPT ![r] = step]
    PROVE  IInv'
<1>1. pc' \in [Requests -> Steps] /\ \A s \in Requests : pc'[s] = "commit" => pc[s] = "commit"
  BY DEF IInv
<1>2. PublishedBodyHasACause'
  BY DEF IInv, PublishedBodyHasACause, article
<1>3. NoEditOpen'
  BY <1>1 DEF IInv, NoEditOpen, article
<1>4. QED
  BY <1>1, <1>2, <1>3 DEF IInv

\* While an edit is open, or the article not published, nothing is claimed.
LEMMA Vacuous ==
    ASSUME pc' \in [Requests -> Steps], ~(status' = "PUBLISHED" /\ ~raced')
    PROVE  IInv'
  BY DEF IInv, PublishedBodyHasACause, NoEditOpen

\* Every step keeps the invariant.
LEMMA StepKeepsInvariant == IInv /\ [Next]_vars => IInv'
<1>1. SUFFICES ASSUME IInv, [Next]_vars PROVE IInv'
  OBVIOUS
<1> USE <1>1
<1>2. CASE UNCHANGED vars
  BY <1>2 DEF vars, article, IInv, PublishedBodyHasACause, NoEditOpen
<1>3. ASSUME NEW r \in Requests, NEW o \in Operations, Receive(r, o)
      PROVE  IInv'
  <2>1. (IF o.kind \in Edits THEN "begin" ELSE "find") \in Steps \ {"commit"}
    BY DEF Steps
  <2>2. QED
    BY <1>3, <2>1, Bystander DEF Receive, article
<1>4. ASSUME NEW r \in Requests, Begin(r)
      PROVE  IInv'
  BY <1>4, Vacuous DEF Begin, Allowed, IInv, Steps, article
<1>5. ASSUME NEW r \in Requests, CommitTx(r)
      PROVE  IInv'
  <2>1. ~(status = "PUBLISHED" /\ ~raced)
    BY <1>5 DEF CommitTx, IInv, NoEditOpen
  <2>2. QED
    BY <1>5, <2>1, Vacuous DEF CommitTx, Apply, Idle, IInv, Steps, article
<1>6. ASSUME NEW r \in Requests, DuplicateOrder(r) \/ Refuse(r) \/ Crash(r)
      PROVE  IInv'
  BY <1>6, Bystander DEF DuplicateOrder, Refuse, Crash, Idle, Steps
<1>7. ASSUME NEW r \in Requests, Retry(r)
      PROVE  IInv'
  BY <1>7, Bystander DEF Retry, Steps
<1>8. ASSUME NEW r \in Requests, Find(r) \/ ReadCards(r)
      PROVE  IInv'
  <2>1. (IF op[r].kind = "publish" THEN "read" ELSE "write") \in Steps \ {"commit"}
    BY DEF Steps
  <2>2. QED
    BY <1>8, <2>1, Bystander DEF Find, ReadCards, Steps
<1>9. ASSUME NEW r \in Requests, Publish(r)
      PROVE  IInv'
  <2>1. /\ pc' \in [Requests -> Steps]
        /\ \A s \in Requests : pc'[s] = "commit" => pc[s] = "commit"
    BY <1>9 DEF Publish, Idle, IInv, Steps
  <2>2. CASE raced'
    BY <2>1, <2>2, Vacuous
  <2>3. CASE ~raced'
    <3>1. body' = Compiled(cards) /\ cards' = cards
      BY <1>9, <2>3 DEF Publish
    <3>2. \A s \in Requests : pc[s] # "commit"
      BY <1>9, <2>3 DEF Publish
    <3>3. Compiled(cards)' = Compiled(cards)
      BY <3>1
    <3>4. QED
      BY <2>1, <3>1, <3>2, <3>3 DEF IInv, PublishedBodyHasACause, NoEditOpen
  <2>4. QED
    BY <2>2, <2>3
<1>10. ASSUME NEW r \in Requests, Withdraw(r)
       PROVE  IInv'
  BY <1>10, Vacuous DEF Withdraw, Idle, IInv, Steps
<1>11. ASSUME NEW r \in Requests, SoftDelete(r)
       PROVE  IInv'
  <2>1. /\ pc' \in [Requests -> Steps]
        /\ \A s \in Requests : pc'[s] = "commit" => pc[s] = "commit"
    BY <1>11 DEF SoftDelete, Idle, IInv, Steps
  <2>2. QED
    BY <1>11, <2>1 DEF SoftDelete, IInv, PublishedBodyHasACause, NoEditOpen
<1>12. QED
  BY <1>1, <1>2, <1>3, <1>4, <1>5, <1>6, <1>7, <1>8, <1>9, <1>10, <1>11 DEF Next

LEMMA Invariant == Spec => []IInv
  BY InitInvariant, StepKeepsInvariant, PTL DEF Spec

\* For any number of requests, cards and operations: a published body that is not what the
\* cards say was compiled while an edit was open or being committed; edits that begin
\* later are refused (news.service.ts:812-821).
THEOREM CauseOfPublishedBody == Spec => []PublishedBodyHasACause
<1>1. IInv => PublishedBodyHasACause
  BY DEF IInv
<1>2. QED
  BY <1>1, Invariant, PTL

------------------------------------------------------------------------------
\* However many cards there are: new positions that are the old ones in another
\* arrangement cannot be written, in whatever order the rows are visited
\* (news.service.ts:1210-1216 under the index of migration.sql:35).  The cards that move
\* block one another.
THEOREM RearrangementIsRefused ==
    ASSUME NEW order, DOMAIN order = DOMAIN cards,
           \A c, d \in DOMAIN order : order[c] = order[d] => c = d,
           \A c \in DOMAIN order : \E d \in DOMAIN cards : cards[d].order = order[c],
           \E c \in DOMAIN order : order[c] # cards[c].order
    PROVE  ~CanPersist(order, {})
<1> DEFINE Moving == {c \in DOMAIN order : order[c] # cards[c].order}
<1>1. Moving \in (SUBSET DOMAIN order) \ {{}}
  OBVIOUS
<1>2. ASSUME NEW c \in Moving
      PROVE  \E d \in Moving : Displaces(order, c, d)
  <2>1. PICK d \in DOMAIN cards : cards[d].order = order[c]
    OBVIOUS
  <2>2. d # c
    BY <2>1
  <2>3. order[d] # cards[d].order
    BY <2>1, <2>2
  <2>4. QED
    BY <2>1, <2>2, <2>3 DEF Displaces
<1>3. QED
  BY <1>1, <1>2, Zenon DEF CanPersist

------------------------------------------------------------------------------
(* Lists. *)

\* What InsertAt makes of a list, position by position.
LEMMA Inserting ==
    ASSUME NEW S, NEW s \in Seq(S), NEW i \in 1 .. Len(s) + 1, NEW e \in S
    PROVE  InsertAt(s, i, e) =
               [k \in 1 .. Len(s) + 1 |-> IF k < i THEN s[k] ELSE IF k = i THEN e ELSE s[k - 1]]
<1>1. Len(s) \in Nat /\ s \in [1 .. Len(s) -> S]
  OBVIOUS
<1> DEFINE a == SubSeq(s, 1, i - 1)
           b == SubSeq(s, i, Len(s))
           t == [k \in 1 .. Len(s) + 1 |-> IF k < i THEN s[k] ELSE IF k = i THEN e ELSE s[k - 1]]
<1>2. /\ a \in Seq(S) /\ Len(a) = i - 1
      /\ \A k \in 1 .. i - 1 : a[k] = s[k]
  BY <1>1, SubSeqProperties
<1>3. /\ b \in Seq(S) /\ Len(b) = Len(s) - i + 1
      /\ \A k \in 1 .. Len(s) - i + 1 : b[k] = s[k + i - 1]
  BY <1>1, SubSeqProperties
<1>4. t \in Seq(S) /\ Len(t) = Len(s) + 1
  <2>1. \A k \in 1 .. Len(s) + 1 :
            (IF k < i THEN s[k] ELSE IF k = i THEN e ELSE s[k - 1]) \in S
    BY <1>1
  <2>2. t \in [1 .. Len(s) + 1 -> S]
    BY <2>1
  <2>3. QED
    BY <1>1, <2>2
<1>5. <<e>> \in Seq(S) /\ Len(<<e>>) = 1 /\ <<e>>[1] = e
  OBVIOUS
<1> DEFINE u == (a \o <<e>>) \o b
<1>6. a \o <<e>> \in Seq(S) /\ Len(a \o <<e>>) = i
      /\ \A k \in 1 .. i : (a \o <<e>>)[k] = IF k <= i - 1 THEN a[k] ELSE e
  <2> HIDE DEF a
  <2> QED BY <1>1, <1>2, <1>5
<1>7. u \in Seq(S) /\ Len(u) = Len(s) + 1
      /\ \A k \in 1 .. Len(s) + 1 : u[k] = IF k <= i THEN (a \o <<e>>)[k] ELSE b[k - i]
  <2> DEFINE w == a \o <<e>>
  <2>1. w \in Seq(S) /\ Len(w) = i
    BY <1>6
  <2> HIDE DEF w, b
  <2>2. w \o b \in Seq(S) /\ Len(w \o b) = Len(s) + 1
        /\ \A k \in 1 .. Len(s) + 1 : (w \o b)[k] = IF k <= i THEN w[k] ELSE b[k - i]
    <3>1. /\ w \o b \in Seq(S) /\ Len(w \o b) = Len(w) + Len(b)
          /\ \A k \in 1 .. Len(w) + Len(b) :
                  (w \o b)[k] = IF k <= Len(w) THEN w[k] ELSE b[k - Len(w)]
      BY <1>3, <2>1, ConcatProperties
    <3>2. Len(w) + Len(b) = Len(s) + 1
      BY <1>1, <1>3, <2>1
    <3> QED BY <2>1, <3>1, <3>2
  <2> QED BY <2>2 DEF w
<1>8. \A k \in 1 .. Len(u) : u[k] = t[k]
  <2> SUFFICES ASSUME NEW k \in 1 .. Len(u) PROVE u[k] = t[k]
    OBVIOUS
  <2>1. k \in 1 .. Len(s) + 1 /\ t[k] = IF k < i THEN s[k] ELSE IF k = i THEN e ELSE s[k - 1]
    BY <1>7
  <2>2. u[k] = IF k <= i THEN (a \o <<e>>)[k] ELSE b[k - i]
    BY <1>7, <2>1
  <2> HIDE DEF a, b, t, u
  <2>3. CASE k < i
    BY <1>1, <1>2, <1>6, <2>1, <2>2, <2>3
  <2>4. CASE k = i
    BY <1>1, <1>6, <2>1, <2>2, <2>4
  <2>5. CASE k > i
    <3>1. k - i \in 1 .. Len(s) - i + 1
      BY <1>1, <2>1, <2>5
    <3>2. b[k - i] = s[(k - i) + i - 1]
      BY <1>3, <3>1
    <3> QED BY <1>1, <2>1, <2>2, <2>5, <3>1, <3>2
  <2> QED BY <1>1, <2>1, <2>3, <2>4, <2>5
<1>9. u = t
  <2> HIDE DEF u, t
  <2> QED BY <1>4, <1>7, <1>8, SeqEqual
<1> QED BY <1>9 DEF InsertAt

\* What RemoveAt makes of a list, position by position.
LEMMA Removing ==
    ASSUME NEW S, NEW s \in Seq(S), NEW i \in 1 .. Len(s)
    PROVE  RemoveAt(s, i) =
               [k \in 1 .. Len(s) - 1 |-> IF k < i THEN s[k] ELSE s[k + 1]]
<1>1. Len(s) \in Nat /\ s \in [1 .. Len(s) -> S] /\ Len(s) - 1 \in Nat
  OBVIOUS
<1> DEFINE a == SubSeq(s, 1, i - 1)
           b == SubSeq(s, i + 1, Len(s))
           t == [k \in 1 .. Len(s) - 1 |-> IF k < i THEN s[k] ELSE s[k + 1]]
<1>2. /\ a \in Seq(S) /\ Len(a) = i - 1
      /\ \A k \in 1 .. i - 1 : a[k] = s[k]
  BY <1>1, SubSeqProperties
<1>3. /\ b \in Seq(S) /\ Len(b) = Len(s) - i
      /\ \A k \in 1 .. Len(s) - i : b[k] = s[k + i]
  <2>1. \A k \in i + 1 .. Len(s) : s[k] \in S
    BY <1>1
  <2>2. /\ b \in Seq(S)
        /\ Len(b) = IF i + 1 <= Len(s) THEN Len(s) - (i + 1) + 1 ELSE 0
        /\ \A k \in 1 .. Len(s) - (i + 1) + 1 : b[k] = s[(i + 1) + k - 1]
    BY <1>1, <2>1, SubSeqProperties
  <2> HIDE DEF b
  <2>3. Len(b) = Len(s) - i
    <3>1. ASSUME NEW n \in Nat, NEW m, i \in 1 .. n,
                 m = IF i + 1 <= n THEN n - (i + 1) + 1 ELSE 0
          PROVE  m = n - i
      BY <3>1
    <3> QED BY <1>1, <2>2, <3>1
  <2>4. ASSUME NEW k \in 1 .. Len(s) - i PROVE b[k] = s[k + i]
    <3>1. (i + 1) + k - 1 = k + i /\ Len(s) - (i + 1) + 1 = Len(s) - i
      BY <1>1
    <3> QED BY <2>2, <3>1
  <2> QED BY <2>2, <2>3, <2>4
<1>4. t \in Seq(S) /\ Len(t) = Len(s) - 1
  <2>1. \A k \in 1 .. Len(s) - 1 : (IF k < i THEN s[k] ELSE s[k + 1]) \in S
    BY <1>1
  <2>2. t \in [1 .. Len(s) - 1 -> S]
    BY <2>1
  <2>3. QED
    BY <1>1, <2>2
<1> DEFINE u == a \o b
<1>5. u \in Seq(S) /\ Len(u) = Len(s) - 1
      /\ \A k \in 1 .. Len(s) - 1 : u[k] = IF k <= i - 1 THEN a[k] ELSE b[k - (i - 1)]
  <2> HIDE DEF a, b
  <2>1. \A k \in 1 .. Len(a) + Len(b) : u[k] = IF k <= Len(a) THEN a[k] ELSE b[k - Len(a)]
    BY <1>2, <1>3, ConcatProperties
  <2>2. u \in Seq(S) /\ Len(u) = Len(a) + Len(b)
    BY <1>2, <1>3, ConcatProperties
  <2> HIDE DEF u
  <2> QED BY <1>1, <1>2, <1>3, <2>1, <2>2
<1>6. \A k \in 1 .. Len(u) : u[k] = t[k]
  <2> SUFFICES ASSUME NEW k \in 1 .. Len(u) PROVE u[k] = t[k]
    OBVIOUS
  <2>1. k \in 1 .. Len(s) - 1 /\ t[k] = IF k < i THEN s[k] ELSE s[k + 1]
    BY <1>5
  <2>2. u[k] = IF k <= i - 1 THEN a[k] ELSE b[k - (i - 1)]
    BY <1>5, <2>1
  <2> HIDE DEF a, b, t, u
  <2>3. CASE k < i
    BY <1>1, <1>2, <2>1, <2>2, <2>3
  <2>4. CASE k >= i
    <3>1. k - (i - 1) \in 1 .. Len(s) - i
      BY <1>1, <2>1, <2>4
    <3>2. b[k - (i - 1)] = s[(k - (i - 1)) + i]
      BY <1>3, <3>1
    <3> QED BY <1>1, <2>1, <2>2, <2>4, <3>1, <3>2
  <2> QED BY <1>1, <2>1, <2>3, <2>4
<1>7. u = t
  <2> HIDE DEF u, t
  <2> QED BY <1>4, <1>5, <1>6, SeqEqual
<1> QED BY <1>7 DEF RemoveAt

\* Positions without gap number the cards of a set: no two share one, and Listing lists
\* them by their positions.
LEMMA ListingInOrder ==
    ASSUME NEW S, IsFiniteSet(S), NEW order \in [S -> Nat],
           {order[c] : c \in S} = 0 .. Cardinality(S) - 1
    PROVE  /\ \A c, d \in S : order[c] = order[d] => c = d
           /\ Listing(order) \in [1 .. Cardinality(S) -> S]
           /\ \A i \in 1 .. Cardinality(S) : order[Listing(order)[i]] = i - 1
<1> DEFINE n == Cardinality(S)
           T(k) == {d \in S : order[d] < k}
<1>1. n \in Nat
  BY FS_CardinalityType
<1>2. \A c, d \in S : order[c] = order[d] => c = d
  <2>1. order \in Surjection(S, 0 .. n - 1)
    <3>1. order \in [S -> 0 .. n - 1]
      OBVIOUS
    <3>2. \A k \in 0 .. n - 1 : \E c \in S : order[c] = k
      OBVIOUS
    <3> QED BY <3>1, <3>2, Fun_IsSurj
  <2>2. Cardinality(0 .. n - 1) = n
    BY <1>1, FS_Interval
  <2>3. order \in Injection(S, 0 .. n - 1)
    BY <2>1, <2>2, FS_SurjSameCardinalityImpliesInj
  <2> QED BY <2>3, Fun_InjectionProperties
<1>3. ASSUME NEW k \in 0 .. n - 1 PROVE Cardinality(T(k)) = k
  <2> DEFINE f == [d \in T(k) |-> order[d]]
  <2>1. IsFiniteSet(T(k))
    BY FS_Subset
  <2>2. f \in [T(k) -> 0 .. k - 1]
    BY <1>1
  <2>3. \A a, b \in T(k) : f[a] = f[b] => a = b
    BY <1>2
  <2>4. \A t \in 0 .. k - 1 : \E s \in T(k) : f[s] = t
    <3> SUFFICES ASSUME NEW t \in 0 .. k - 1 PROVE \E s \in T(k) : f[s] = t
      OBVIOUS
    <3>1. t \in 0 .. n - 1 /\ t < k
      BY <1>1
    <3>2. PICK s \in S : order[s] = t
      BY <3>1
    <3>3. s \in T(k)
      BY <3>1, <3>2
    <3> QED BY <3>2, <3>3
  <2>5. f \in Bijection(T(k), 0 .. k - 1)
    <3> HIDE DEF f, T
    <3> QED BY <2>2, <2>3, <2>4, Fun_IsBij
  <2>6. ExistsBijection(T(k), 0 .. k - 1)
    BY <2>5 DEF ExistsBijection
  <2>7. Cardinality(0 .. k - 1) = Cardinality(T(k))
    <3> HIDE DEF T
    <3> QED BY <2>1, <2>6, FS_Bijection
  <2> QED BY <1>1, <2>7, FS_Interval
<1>4. DOMAIN order = S
  OBVIOUS
<1>5. ASSUME NEW i \in 1 .. n
      PROVE  /\ \E c \in S : Cardinality({d \in S : order[d] < order[c]}) = i - 1
             /\ \A c \in S :
                    Cardinality({d \in S : order[d] < order[c]}) = i - 1 => order[c] = i - 1
  <2>1. \A c \in S : order[c] \in 0 .. n - 1
    OBVIOUS
  <2>2. \A c \in S : Cardinality({d \in S : order[d] < order[c]}) = order[c]
    BY <1>3, <2>1
  <2>3. i - 1 \in 0 .. n - 1
    BY <1>1
  <2>4. PICK c \in S : order[c] = i - 1
    BY <2>3
  <2> QED BY <2>2, <2>4
<1>6. ASSUME NEW i \in 1 .. n
      PROVE  /\ Listing(order)[i] \in S
             /\ order[Listing(order)[i]] = i - 1
  <2>1. Listing(order)[i] =
            CHOOSE c \in S : Cardinality({d \in S : order[d] < order[c]}) = i - 1
    BY <1>4 DEF Listing
  <2> DEFINE P(c) == Cardinality({d \in S : order[d] < order[c]}) = i - 1
             x == CHOOSE c \in S : P(c)
  <2>2. \E c \in S : P(c)
    BY <1>5
  <2>3. \A c \in S : P(c) => order[c] = i - 1
    BY <1>5
  <2>4. Listing(order)[i] = x
    BY <2>1
  <2> HIDE DEF P
  <2>5. x \in S /\ P(x)
    BY <2>2
  <2> QED BY <2>3, <2>4, <2>5
<1>7. Listing(order) \in [1 .. n -> S]
  <2> DEFINE G(i) == CHOOSE c \in S : Cardinality({d \in S : order[d] < order[c]}) = i - 1
  <2>1. Listing(order) = [i \in 1 .. n |-> G(i)]
    BY <1>4 DEF Listing
  <2> HIDE DEF n, G
  <2>2. \A i \in 1 .. n : G(i) \in S
    BY <1>6, <2>1
  <2> QED BY <2>1, <2>2
<1> QED BY <1>2, <1>6, <1>7

\* A list without duplicates numbers its elements from 0.
LEMMA Numbering ==
    ASSUME NEW S, NEW s \in Seq(S), IsInjective(s)
    PROVE  /\ ToSet(s) \subseteq S
           /\ PositionsIn(s) \in [ToSet(s) -> Nat]
           /\ \A i \in 1 .. Len(s) : s[i] \in ToSet(s) /\ PositionsIn(s)[s[i]] = i - 1
           /\ {PositionsIn(s)[c] : c \in ToSet(s)} = 0 .. Len(s) - 1
           /\ Cardinality(ToSet(s)) = Len(s)
<1> DEFINE T == ToSet(s)
           order == PositionsIn(s)
           n == Len(s)
<1>1. n \in Nat /\ s \in [1 .. n -> S] /\ DOMAIN s = 1 .. n
  OBVIOUS
<1>2. T = {s[i] : i \in 1 .. n}
  BY <1>1 DEF ToSet
<1>3. order = [c \in T |-> order[c]]
  BY DEF PositionsIn
<1>4. ASSUME NEW i \in 1 .. n PROVE s[i] \in T /\ order[s[i]] = i - 1
  <2>1. s[i] \in T
    BY <1>2
  <2>2. i - 1 \in 0 .. n - 1 /\ s[(i - 1) + 1] = s[i]
    BY <1>1
  <2>3. \A j \in 0 .. n - 1 : s[j + 1] = s[i] => j = i - 1
    <3> SUFFICES ASSUME NEW j \in 0 .. n - 1, s[j + 1] = s[i] PROVE j = i - 1
      OBVIOUS
    <3>1. j + 1 \in DOMAIN s /\ i \in DOMAIN s
      BY <1>1
    <3>2. j + 1 = i
      BY <3>1 DEF IsInjective
    <3> QED BY <1>1, <3>2
  <2>4. (CHOOSE j \in 0 .. n - 1 : s[j + 1] = s[i]) = i - 1
    BY <2>2, <2>3
  <2> QED BY <2>1, <2>4 DEF PositionsIn
<1> HIDE DEF T, order, n
<1>5. \A c \in T : \E i \in 1 .. n : c = s[i]
  BY <1>2
<1>6. \A c \in T : order[c] \in 0 .. n - 1
  BY <1>1, <1>4, <1>5
<1>7. order \in [T -> Nat]
  BY <1>1, <1>3, <1>6
<1>8. {order[c] : c \in T} = 0 .. n - 1
  <2>1. ASSUME NEW k \in 0 .. n - 1 PROVE \E c \in T : order[c] = k
    <3>1. k + 1 \in 1 .. n /\ (k + 1) - 1 = k
      BY <1>1
    <3>2. s[k + 1] \in T /\ order[s[k + 1]] = k
      BY <1>4, <3>1
    <3> QED BY <3>2
  <2> QED BY <1>6, <2>1
<1>9. Cardinality(T) = n
  <2>1. s \in Bijection(1 .. n, T)
    <3>1. s \in [1 .. n -> T]
      BY <1>1, <1>4
    <3>2. \A a, b \in 1 .. n : s[a] = s[b] => a = b
      BY <1>1 DEF IsInjective
    <3>3. \A t \in T : \E i \in 1 .. n : s[i] = t
      BY <1>5
    <3> QED BY <3>1, <3>2, <3>3, Fun_IsBij
  <2>2. ExistsBijection(1 .. n, T)
    BY <2>1 DEF ExistsBijection
  <2> QED BY <1>1, <2>2, FS_CountingElements
<1>10. T \subseteq S
  BY <1>1, <1>2
<1> QED BY <1>4, <1>7, <1>8, <1>9, <1>10 DEF T, order, n

------------------------------------------------------------------------------
(* The cards as a list. *)

\* A request at work has an operation; only one that edits cards opens a transaction.
Carries ==
    /\ snap = [r \in Requests |-> snap[r]]
    /\ read = [r \in Requests |-> read[r]]
    /\ \A r \in Requests :
           /\ pc[r] # "idle" => op[r] \in Operation
           /\ pc[r] \in {"begin", "commit"} => op[r].kind \in Edits

\* r is to give a card the id that createCard has drawn for it (news.service.ts:842-850).
Creates(r) == pc[r] # "idle" /\ op[r].kind = "create"

\* The id of a card that is being created is nobody else's.
Fresh ==
    /\ \A r \in Requests : Creates(r) => op[r].card \in minted \ DOMAIN cards
    /\ \A r, s \in Requests : Creates(r) /\ Creates(s) /\ op[r].card = op[s].card => r = s

\* What Allowed has found of the cards.
Fits(o) ==
    LET size == Cardinality(DOMAIN cards)
    IN  /\ o.kind = "create" => o.at \in {Nil} \cup 0 .. size
        /\ o.kind \in {"update", "delete"} => o.card \in DOMAIN cards
        /\ o.kind = "update" => o.at \in 0 .. size - 1
        /\ o.kind = "reorder" => IsInjective(o.list) /\ ToSet(o.list) = DOMAIN cards

\* While a transaction that rearranges the cards may still commit, its snapshot shows the
\* positions as they are, and its checks still hold.
Current ==
    \A r \in Requests :
        pc[r] = "commit" /\ ~stale[r] /\ Rearranges(r) =>
            /\ snap[r] = Orders(cards)
            /\ Fits(op[r])

\* The parts of TypeOK that speak of cards, of transactions and of the article.
CardTypes ==
    /\ \E S \in SUBSET minted : cards \in [S -> Card]
    /\ minted \subseteq Ids

TxTypes ==
    /\ pc \in [Requests -> Steps]
    /\ op \in [Requests -> Operation \cup {Nil}]
    /\ stale \in [Requests -> BOOLEAN]
    /\ attempt \in [Requests -> 0 .. RetryLimit]
    /\ \A r \in Requests :
           /\ pc[r] = "commit" <=> snap[r] # Nil
           /\ pc[r] = "commit" => \E S \in SUBSET minted : snap[r] \in [S -> Nat]

\* The inductive invariant of the list of cards.
ListInv == CardTypes /\ PositionsAreContiguous /\ TxTypes /\ Carries /\ Fresh /\ Current

\* The ids of the cards in order.
InOrder == Listing(Orders(cards))

\* Positions without gap make the cards a list without duplicates.
LEMMA CardsInOrder ==
    ASSUME CardTypes, PositionsAreContiguous
    PROVE  /\ DOMAIN cards \subseteq Ids /\ cards \in [DOMAIN cards -> Card]
           /\ Cardinality(DOMAIN cards) \in Nat
           /\ InOrder \in Seq(Ids) /\ Len(InOrder) = Cardinality(DOMAIN cards)
           /\ \A i \in 1 .. Len(InOrder) :
                  InOrder[i] \in DOMAIN cards /\ cards[InOrder[i]].order = i - 1
           /\ \A c \in DOMAIN cards :
                  cards[c].order \in 0 .. Len(InOrder) - 1 /\ InOrder[cards[c].order + 1] = c
           /\ \A c, d \in DOMAIN cards : cards[c].order = cards[d].order => c = d
           /\ IsInjective(InOrder)
           /\ ToSet(InOrder) = DOMAIN cards
<1> DEFINE S == DOMAIN cards
           n == Cardinality(S)
           o == Orders(cards)
           ids == Listing(o)
<1>1. S \subseteq Ids /\ cards \in [S -> Card]
  <2>1. PICK T \in SUBSET minted : cards \in [T -> Card]
    BY DEF CardTypes
  <2> QED BY <2>1 DEF CardTypes
<1>2. IsFiniteSet(S) /\ n \in Nat
  BY <1>1, CardsAssumption, FS_Subset, FS_CardinalityType
<1>3. o \in [S -> Nat] /\ \A c \in S : o[c] = cards[c].order
  BY <1>1 DEF Orders, Card
<1>4. {o[c] : c \in S} = 0 .. n - 1
  BY <1>3 DEF PositionsAreContiguous
<1> HIDE DEF o, n
<1>5. /\ \A c, d \in S : o[c] = o[d] => c = d
      /\ ids \in [1 .. n -> S]
      /\ \A i \in 1 .. n : o[ids[i]] = i - 1
  BY <1>2, <1>3, <1>4, ListingInOrder DEF n
<1> HIDE DEF ids, S
<1>6. ids \in Seq(Ids) /\ Len(ids) = n
  BY <1>1, <1>2, <1>5
<1>7. \A i \in 1 .. n : ids[i] \in S /\ cards[ids[i]].order = i - 1
  BY <1>3, <1>5
<1>8. ASSUME NEW c \in S PROVE cards[c].order \in 0 .. n - 1 /\ ids[cards[c].order + 1] = c
  <2>1. o[c] \in 0 .. n - 1
    BY <1>4
  <2>2. o[c] + 1 \in 1 .. n /\ (o[c] + 1) - 1 = o[c]
    BY <1>2, <2>1
  <2>3. o[ids[o[c] + 1]] = o[c] /\ ids[o[c] + 1] \in S
    BY <1>5, <2>2
  <2> QED BY <1>3, <1>5, <2>1, <2>3
<1>9. IsInjective(ids)
  <2>1. DOMAIN ids = 1 .. n
    BY <1>5
  <2>2. ASSUME NEW i \in 1 .. n, NEW j \in 1 .. n, ids[i] = ids[j] PROVE i = j
    <3>1. i - 1 = j - 1
      BY <1>5, <2>2
    <3> QED BY <1>2, <3>1
  <2> QED BY <2>1, <2>2 DEF IsInjective
<1>10. ToSet(ids) = S
  <2>1. ToSet(ids) = {ids[i] : i \in 1 .. n}
    BY <1>5 DEF ToSet
  <2>2. \A c \in S : \E i \in 1 .. n : ids[i] = c
    <3> SUFFICES ASSUME NEW c \in S PROVE \E i \in 1 .. n : ids[i] = c
      OBVIOUS
    <3>1. cards[c].order \in 0 .. n - 1 /\ ids[cards[c].order + 1] = c
      BY <1>8
    <3>2. cards[c].order + 1 \in 1 .. n
      BY <1>2, <3>1
    <3> QED BY <3>1, <3>2
  <2> QED BY <1>7, <2>1, <2>2
<1>11. \A c, d \in S : cards[c].order = cards[d].order => c = d
  BY <1>3, <1>5
<1> QED BY <1>1, <1>2, <1>6, <1>7, <1>8, <1>9, <1>10, <1>11 DEF InOrder, S, o, n, ids

\* A new element keeps a list free of duplicates.
LEMMA InsertingNew ==
    ASSUME NEW S, NEW s \in Seq(S), IsInjective(s), NEW i \in 1 .. Len(s) + 1,
           NEW e \in S, e \notin ToSet(s)
    PROVE  LET t == InsertAt(s, i, e)
           IN  /\ t \in Seq(S) /\ Len(t) = Len(s) + 1
               /\ IsInjective(t)
               /\ ToSet(t) = ToSet(s) \cup {e}
<1> DEFINE n == Len(s)
           t == InsertAt(s, i, e)
<1>1. n \in Nat /\ s \in [1 .. n -> S] /\ DOMAIN s = 1 .. n
  OBVIOUS
<1>2. t = [k \in 1 .. n + 1 |-> IF k < i THEN s[k] ELSE IF k = i THEN e ELSE s[k - 1]]
  BY Inserting
<1>3. ToSet(s) = {s[k] : k \in 1 .. n}
  BY <1>1 DEF ToSet
<1>4. i \in 1 .. n + 1
  OBVIOUS
<1> HIDE DEF n, t
<1>5. t \in [1 .. n + 1 -> S] /\ DOMAIN t = 1 .. n + 1
  BY <1>1, <1>2, <1>4
<1>6. t \in Seq(S) /\ Len(t) = n + 1
  BY <1>1, <1>5
<1>7. ASSUME NEW k \in 1 .. n + 1
      PROVE  t[k] = IF k < i THEN s[k] ELSE IF k = i THEN e ELSE s[k - 1]
  BY <1>2
<1>8. \A a, b \in 1 .. n : s[a] = s[b] => a = b
  BY <1>1 DEF IsInjective
<1>9. \A k \in 1 .. n : s[k] # e
  BY <1>3
<1>10. ASSUME NEW a \in 1 .. n + 1, NEW b \in 1 .. n + 1, t[a] = t[b] PROVE a = b
  <2>1. CASE a < i
    <3>1. a \in 1 .. n /\ t[a] = s[a]
      BY <1>1, <1>4, <1>7, <2>1
    <3>2. CASE b < i
      <4>1. b \in 1 .. n /\ t[b] = s[b]
        BY <1>1, <1>4, <1>7, <3>2
      <4> QED BY <1>8, <1>10, <3>1, <4>1
    <3>3. CASE b = i
      <4>1. t[b] = e
        BY <1>7, <3>3
      <4> QED BY <1>9, <1>10, <3>1, <4>1
    <3>4. CASE b > i
      <4>1. b - 1 \in 1 .. n /\ t[b] = s[b - 1]
        BY <1>1, <1>4, <1>7, <3>4
      <4>2. a = b - 1
        BY <1>8, <1>10, <3>1, <4>1
      <4> QED BY <1>1, <1>4, <2>1, <3>4, <4>2
    <3> QED BY <1>1, <1>4, <3>2, <3>3, <3>4
  <2>2. CASE a = i
    <3>1. t[a] = e
      BY <1>7, <2>2
    <3>2. CASE b < i
      <4>1. b \in 1 .. n /\ t[b] = s[b]
        BY <1>1, <1>4, <1>7, <3>2
      <4> QED BY <1>9, <1>10, <3>1, <4>1
    <3>3. CASE b > i
      <4>1. b - 1 \in 1 .. n /\ t[b] = s[b - 1]
        BY <1>1, <1>4, <1>7, <3>3
      <4> QED BY <1>9, <1>10, <3>1, <4>1
    <3> QED BY <1>1, <1>4, <2>2, <3>2, <3>3
  <2>3. CASE a > i
    <3>1. a - 1 \in 1 .. n /\ t[a] = s[a - 1]
      BY <1>1, <1>4, <1>7, <2>3
    <3>2. CASE b < i
      <4>1. b \in 1 .. n /\ t[b] = s[b]
        BY <1>1, <1>4, <1>7, <3>2
      <4>2. b = a - 1
        BY <1>8, <1>10, <3>1, <4>1
      <4> QED BY <1>1, <1>4, <2>3, <3>2, <4>2
    <3>3. CASE b = i
      <4>1. t[b] = e
        BY <1>7, <3>3
      <4> QED BY <1>9, <1>10, <3>1, <4>1
    <3>4. CASE b > i
      <4>1. b - 1 \in 1 .. n /\ t[b] = s[b - 1]
        BY <1>1, <1>4, <1>7, <3>4
      <4>2. a - 1 = b - 1
        BY <1>8, <1>10, <3>1, <4>1
      <4> QED BY <1>1, <4>2
    <3> QED BY <1>1, <1>4, <3>2, <3>3, <3>4
  <2> QED BY <1>1, <1>4, <2>1, <2>2, <2>3
<1>11. ToSet(t) = ToSet(s) \cup {e}
  <2>1. ToSet(t) = {t[k] : k \in 1 .. n + 1}
    BY <1>5 DEF ToSet
  <2>2. ASSUME NEW k \in 1 .. n + 1 PROVE t[k] \in ToSet(s) \cup {e}
    <3>1. CASE k < i
      <4>1. k \in 1 .. n /\ t[k] = s[k]
        BY <1>1, <1>4, <1>7, <3>1
      <4> QED BY <1>3, <4>1
    <3>2. CASE k = i
      BY <1>7, <3>2
    <3>3. CASE k > i
      <4>1. k - 1 \in 1 .. n /\ t[k] = s[k - 1]
        BY <1>1, <1>4, <1>7, <3>3
      <4> QED BY <1>3, <4>1
    <3> QED BY <1>1, <1>4, <3>1, <3>2, <3>3
  <2>3. t[i] = e
    BY <1>4, <1>7
  <2>4. ASSUME NEW k \in 1 .. n PROVE \E j \in 1 .. n + 1 : t[j] = s[k]
    <3>1. CASE k < i
      <4>1. k \in 1 .. n + 1 /\ t[k] = s[k]
        BY <1>1, <1>7, <3>1
      <4> QED BY <4>1
    <3>2. CASE k >= i
      <4>1. k + 1 \in 1 .. n + 1 /\ k + 1 > i /\ (k + 1) - 1 = k
        BY <1>1, <1>4, <3>2
      <4>2. t[k + 1] = s[k]
        BY <1>4, <1>7, <4>1
      <4> QED BY <4>1, <4>2
    <3> QED BY <1>1, <1>4, <3>1, <3>2
  <2> QED BY <1>3, <1>4, <2>1, <2>2, <2>3, <2>4
<1>12. IsInjective(t)
  BY <1>5, <1>10 DEF IsInjective
<1> QED BY <1>6, <1>11, <1>12 DEF n, t

\* So does the removal of one.
LEMMA RemovingOld ==
    ASSUME NEW S, NEW s \in Seq(S), IsInjective(s), NEW i \in 1 .. Len(s)
    PROVE  LET t == RemoveAt(s, i)
           IN  /\ t \in Seq(S) /\ Len(t) = Len(s) - 1
               /\ IsInjective(t)
               /\ ToSet(t) = ToSet(s) \ {s[i]}
<1> DEFINE n == Len(s)
           t == RemoveAt(s, i)
<1>1. n \in Nat /\ s \in [1 .. n -> S] /\ DOMAIN s = 1 .. n
  OBVIOUS
<1>2. t = [k \in 1 .. n - 1 |-> IF k < i THEN s[k] ELSE s[k + 1]]
  BY Removing
<1>3. ToSet(s) = {s[k] : k \in 1 .. n}
  BY <1>1 DEF ToSet
<1>4. i \in 1 .. n
  OBVIOUS
<1> HIDE DEF n, t
<1>5. t \in [1 .. n - 1 -> S] /\ DOMAIN t = 1 .. n - 1
  BY <1>1, <1>2, <1>4
<1>6. t \in Seq(S) /\ Len(t) = n - 1
  <2>1. n - 1 \in Nat
    BY <1>1, <1>4
  <2> QED BY <1>5, <2>1
<1>7. ASSUME NEW k \in 1 .. n - 1
      PROVE  t[k] = IF k < i THEN s[k] ELSE s[k + 1]
  BY <1>2
<1>8. \A a, b \in 1 .. n : s[a] = s[b] => a = b
  BY <1>1 DEF IsInjective
<1>9. ASSUME NEW a \in 1 .. n - 1, NEW b \in 1 .. n - 1, t[a] = t[b] PROVE a = b
  <2>1. a \in 1 .. n /\ b \in 1 .. n /\ a + 1 \in 1 .. n /\ b + 1 \in 1 .. n
    BY <1>1, <1>4
  <2>2. CASE a < i /\ b < i
    BY <1>7, <1>8, <1>9, <2>1, <2>2
  <2>3. CASE a < i /\ b >= i
    <3>1. a = b + 1
      BY <1>1, <1>4, <1>7, <1>8, <1>9, <2>1, <2>3
    <3> QED BY <1>1, <1>4, <2>3, <3>1
  <2>4. CASE a >= i /\ b < i
    <3>1. a + 1 = b
      BY <1>1, <1>4, <1>7, <1>8, <1>9, <2>1, <2>4
    <3> QED BY <1>1, <1>4, <2>4, <3>1
  <2>5. CASE a >= i /\ b >= i
    <3>1. a + 1 = b + 1
      BY <1>1, <1>4, <1>7, <1>8, <1>9, <2>1, <2>5
    <3> QED BY <1>1, <3>1
  <2> QED BY <1>1, <1>4, <2>2, <2>3, <2>4, <2>5
<1>10. ToSet(t) = ToSet(s) \ {s[i]}
  <2>1. ToSet(t) = {t[k] : k \in 1 .. n - 1}
    BY <1>5 DEF ToSet
  <2>2. ASSUME NEW k \in 1 .. n - 1 PROVE t[k] \in ToSet(s) \ {s[i]}
    <3>1. CASE k < i
      <4>1. k \in 1 .. n /\ t[k] = s[k] /\ k # i
        BY <1>1, <1>4, <1>7, <3>1
      <4> QED BY <1>3, <1>4, <1>8, <4>1
    <3>2. CASE k >= i
      <4>1. k + 1 \in 1 .. n /\ t[k] = s[k + 1] /\ k + 1 # i
        BY <1>1, <1>4, <1>7, <3>2
      <4> QED BY <1>3, <1>4, <1>8, <4>1
    <3> QED BY <1>1, <1>4, <3>1, <3>2
  <2>3. ASSUME NEW k \in 1 .. n, k # i PROVE \E j \in 1 .. n - 1 : t[j] = s[k]
    <3>1. CASE k < i
      <4>1. k \in 1 .. n - 1 /\ t[k] = s[k]
        BY <1>1, <1>4, <1>7, <3>1
      <4> QED BY <4>1
    <3>2. CASE k > i
      <4>1. k - 1 \in 1 .. n - 1 /\ ~(k - 1 < i) /\ (k - 1) + 1 = k
        BY <1>1, <1>4, <3>2
      <4>2. t[k - 1] = s[k]
        BY <1>7, <4>1
      <4> QED BY <4>1, <4>2
    <3> QED BY <1>1, <1>4, <2>3, <3>1, <3>2
  <2> QED BY <1>3, <2>1, <2>2, <2>3
<1>11. IsInjective(t)
  BY <1>5, <1>9 DEF IsInjective
<1> QED BY <1>6, <1>10, <1>11 DEF n, t

\* indexOf finds a card at its position (news.service.ts:937-939).
LEMMA WithoutCard ==
    ASSUME CardTypes, PositionsAreContiguous, NEW c \in DOMAIN cards
    PROVE  /\ cards[c].order + 1 \in 1 .. Len(InOrder)
           /\ Without(InOrder, c) = RemoveAt(InOrder, cards[c].order + 1)
<1> DEFINE i == cards[c].order + 1
<1>1. /\ Len(InOrder) \in Nat /\ DOMAIN InOrder = 1 .. Len(InOrder)
      /\ cards[c].order \in 0 .. Len(InOrder) - 1
      /\ InOrder[i] = c
      /\ \A a, b \in DOMAIN InOrder : InOrder[a] = InOrder[b] => a = b
  BY CardsInOrder DEF IsInjective
<1>2. i \in 1 .. Len(InOrder)
  BY <1>1
<1> HIDE DEF i
<1>3. (CHOOSE j \in DOMAIN InOrder : InOrder[j] = c) = i
  BY <1>1, <1>2
<1> QED BY <1>2, <1>3 DEF Without, i

------------------------------------------------------------------------------
(* What a transaction makes of the list. *)

\* What each kind of operation carries.
LEMMA OperationOfKind ==
    ASSUME NEW o \in Operation
    PROVE  /\ o.kind = "create" => o.card \in Ids /\ o.data \in Texts /\ o.at \in Nat \cup {Nil}
           /\ o.kind = "update" =>
                  o.card \in Ids /\ o.data \in Texts \cup {Nil} /\ o.at \in Nat \cup {Nil}
           /\ o.kind = "delete" => o.card \in Ids
           /\ o.kind = "reorder" => o.list \in Seq(Ids)
           /\ o.kind \in Edits => o.kind \in {"create", "update", "delete", "reorder"}
  BY DEF Operation, Edits

\* The list of a transaction that may still commit is that of the cards as they are, with
\* one inserted, moved or removed, or the list it was given.
LEMMA ArrangedOfKind ==
    ASSUME ListInv, NEW r \in Requests, pc[r] = "commit", ~stale[r], Rearranges(r)
    PROVE  /\ op[r].kind \in {"create", "update", "delete", "reorder"}
           /\ op[r].kind = "create" =>
                  /\ op[r].card \in Ids \ DOMAIN cards
                  /\ op[r].data \in Texts
                  /\ \E i \in 1 .. Len(InOrder) + 1 : Arranged(r) = InsertAt(InOrder, i, op[r].card)
           /\ op[r].kind = "update" =>
                  /\ op[r].card \in DOMAIN cards
                  /\ op[r].data \in Texts \cup {Nil}
                  /\ \E i, j \in 1 .. Len(InOrder) :
                         /\ InOrder[i] = op[r].card
                         /\ Arranged(r) = InsertAt(RemoveAt(InOrder, i), j, op[r].card)
           /\ op[r].kind = "delete" =>
                  /\ op[r].card \in DOMAIN cards
                  /\ \E i \in 1 .. Len(InOrder) :
                         /\ InOrder[i] = op[r].card
                         /\ Arranged(r) = RemoveAt(InOrder, i)
           /\ op[r].kind = "reorder" =>
                  /\ Arranged(r) = op[r].list
                  /\ op[r].list \in Seq(Ids)
                  /\ IsInjective(op[r].list)
                  /\ ToSet(op[r].list) = DOMAIN cards
<1> DEFINE n == Len(InOrder)
           c == op[r].card
           p == cards[c].order + 1
<1>1. op[r] \in Operation /\ op[r].kind \in Edits /\ snap[r] = Orders(cards) /\ Fits(op[r])
  BY DEF ListInv, Carries, Current, TxTypes
<1>2. Listing(snap[r]) = InOrder /\ n \in Nat /\ n = Cardinality(DOMAIN cards)
  BY <1>1, CardsInOrder DEF ListInv, InOrder
<1>3. op[r].kind \in {"create", "update", "delete", "reorder"}
  BY <1>1 DEF Edits
<1>4. CASE op[r].kind = "create"
  <2>1. op[r].data \in Texts /\ op[r].at \in Nat \cup {Nil} /\ c \in Ids \ DOMAIN cards
    BY <1>1, <1>4, OperationOfKind DEF ListInv, Fresh, Creates, TxTypes
  <2> DEFINE i == IF op[r].at = Nil THEN n + 1 ELSE op[r].at + 1
  <2>2. i \in 1 .. n + 1
    <3>1. op[r].at \in {Nil} \cup 0 .. n
      BY <1>1, <1>2, <1>4 DEF Fits
    <3> QED BY <1>2, <3>1
  <2>3. Arranged(r) = InsertAt(InOrder, i, c)
    BY <1>2, <1>4 DEF Arranged
  <2> QED BY <1>4, <2>1, <2>2, <2>3
<1>5. CASE op[r].kind = "update"
  <2>1. c \in DOMAIN cards /\ op[r].data \in Texts \cup {Nil} /\ op[r].at \in 0 .. n - 1
    BY <1>1, <1>2, <1>5, OperationOfKind DEF Fits
  <2>2. p \in 1 .. n /\ InOrder[p] = c /\ Without(InOrder, c) = RemoveAt(InOrder, p)
    BY <2>1, WithoutCard, CardsInOrder DEF ListInv
  <2>3. Arranged(r) = InsertAt(Without(InOrder, c), op[r].at + 1, c)
    BY <1>2, <1>5 DEF Arranged
  <2>4. op[r].at + 1 \in 1 .. n
    BY <1>2, <2>1
  <2> QED BY <1>5, <2>1, <2>2, <2>3, <2>4
<1>6. CASE op[r].kind = "delete"
  <2>1. c \in DOMAIN cards
    BY <1>1, <1>6 DEF Fits
  <2>2. p \in 1 .. n /\ InOrder[p] = c /\ Without(InOrder, c) = RemoveAt(InOrder, p)
    BY <2>1, WithoutCard, CardsInOrder DEF ListInv
  <2>3. Arranged(r) = Without(InOrder, c)
    BY <1>2, <1>6 DEF Arranged
  <2> QED BY <1>6, <2>1, <2>2, <2>3
<1>7. CASE op[r].kind = "reorder"
  BY <1>1, <1>7, OperationOfKind DEF Arranged, Fits
<1> QED BY <1>3, <1>4, <1>5, <1>6, <1>7

Created(r) == IF op[r].kind = "create" THEN {op[r].card} ELSE {}

Written(r) ==
    IF op[r].kind \in {"create", "update"} /\ op[r].data # Nil THEN {op[r].card} ELSE {}

\* It lists the cards that will be there, each one once.
LEMMA ArrangedList ==
    ASSUME ListInv, NEW r \in Requests, pc[r] = "commit", ~stale[r], Rearranges(r)
    PROVE  /\ Arranged(r) \in Seq(Ids)
           /\ IsInjective(Arranged(r))
           /\ ToSet(Arranged(r)) = (DOMAIN cards \cup Created(r)) \ Deletes(r)
<1>1. InOrder \in Seq(Ids) /\ IsInjective(InOrder) /\ ToSet(InOrder) = DOMAIN cards
      /\ DOMAIN cards \subseteq Ids /\ Len(InOrder) \in Nat
  BY CardsInOrder DEF ListInv
<1>2. CASE op[r].kind = "create"
  <2>1. PICK i \in 1 .. Len(InOrder) + 1 : Arranged(r) = InsertAt(InOrder, i, op[r].card)
    BY <1>2, ArrangedOfKind
  <2>2. op[r].card \in Ids \ DOMAIN cards
    BY <1>2, ArrangedOfKind
  <2>3. /\ Arranged(r) \in Seq(Ids) /\ IsInjective(Arranged(r))
        /\ ToSet(Arranged(r)) = DOMAIN cards \cup {op[r].card}
    BY <1>1, <2>1, <2>2, InsertingNew
  <2> QED BY <1>2, <2>3 DEF Created, Deletes
<1>3. CASE op[r].kind = "update"
  <2>1. PICK i, j \in 1 .. Len(InOrder) :
            /\ InOrder[i] = op[r].card
            /\ Arranged(r) = InsertAt(RemoveAt(InOrder, i), j, op[r].card)
    BY <1>3, ArrangedOfKind
  <2> DEFINE s == RemoveAt(InOrder, i)
  <2>2. /\ s \in Seq(Ids) /\ Len(s) = Len(InOrder) - 1
        /\ IsInjective(s) /\ ToSet(s) = DOMAIN cards \ {op[r].card}
    <3>1. /\ s \in Seq(Ids) /\ Len(s) = Len(InOrder) - 1
          /\ IsInjective(s) /\ ToSet(s) = ToSet(InOrder) \ {InOrder[i]}
      BY <1>1, RemovingOld
    <3> QED BY <1>1, <2>1, <3>1
  <2>3. op[r].card \in DOMAIN cards /\ op[r].card \in Ids
    BY <1>1, <1>3, ArrangedOfKind
  <2> HIDE DEF s
  <2>4. j \in 1 .. Len(s) + 1
    BY <1>1, <2>2
  <2>5. /\ Arranged(r) \in Seq(Ids) /\ IsInjective(Arranged(r))
        /\ ToSet(Arranged(r)) = ToSet(s) \cup {op[r].card}
    BY <2>1, <2>2, <2>3, <2>4, InsertingNew DEF s
  <2> QED BY <1>3, <2>2, <2>3, <2>5 DEF Created, Deletes
<1>4. CASE op[r].kind = "delete"
  <2>1. PICK i \in 1 .. Len(InOrder) :
            InOrder[i] = op[r].card /\ Arranged(r) = RemoveAt(InOrder, i)
    BY <1>4, ArrangedOfKind
  <2>2. /\ Arranged(r) \in Seq(Ids) /\ IsInjective(Arranged(r))
        /\ ToSet(Arranged(r)) = DOMAIN cards \ {op[r].card}
    BY <1>1, <2>1, RemovingOld
  <2> QED BY <1>4, <2>2 DEF Created, Deletes
<1>5. CASE op[r].kind = "reorder"
  BY <1>5, ArrangedOfKind DEF Created, Deletes
<1> QED BY <1>2, <1>3, <1>4, <1>5, ArrangedOfKind

\* What a commit that rearranges the cards leaves of them.
LEMMA RearrangedCards ==
    ASSUME ListInv, NEW r \in Requests, CommitTx(r), Rearranges(r)
    PROVE  /\ DOMAIN cards' = ToSet(Arranged(r))
           /\ \A i \in 1 .. Len(Arranged(r)) :
                  /\ Arranged(r)[i] \in DOMAIN cards'
                  /\ cards'[Arranged(r)[i]] =
                         [order |-> i - 1,
                          data  |-> IF Arranged(r)[i] \in Written(r) THEN op[r].data
                                    ELSE cards[Arranged(r)[i]].data]
<1> DEFINE as == Arranged(r)
           T == ToSet(as)
           order == PositionsIn(as)
<1>1. as \in Seq(Ids) /\ IsInjective(as) /\ T = (DOMAIN cards \cup Created(r)) \ Deletes(r)
  BY ArrangedList DEF CommitTx
<1>2. \A i \in 1 .. Len(as) : as[i] \in T /\ order[as[i]] = i - 1
  BY <1>1, Numbering
<1>3. DOMAIN order = T
  BY DEF PositionsIn
<1>4. cards' = Committed(r, order)
  BY DEF CommitTx, Apply, NewOrder
<1> HIDE DEF as, T, order
<1>5. cards' = [c \in T |->
                   [order |-> IF c \in DOMAIN order THEN order[c] ELSE cards[c].order,
                    data  |-> IF c \in Written(r) THEN op[r].data ELSE cards[c].data]]
  BY <1>1, <1>4 DEF Committed, Created, Written
<1>6. cards' = [c \in T |->
                   [order |-> order[c],
                    data  |-> IF c \in Written(r) THEN op[r].data ELSE cards[c].data]]
  BY <1>3, <1>5
<1> QED BY <1>2, <1>6 DEF as, T

\* A commit that does not rearrange the cards leaves their positions alone.
LEMMA RewrittenCards ==
    ASSUME ListInv, NEW r \in Requests, CommitTx(r), ~Rearranges(r)
    PROVE  /\ op[r].kind = "update"
           /\ op[r].data \in Texts \cup {Nil}
           /\ cards' = [c \in DOMAIN cards |->
                           [order |-> cards[c].order,
                            data  |-> IF c \in Written(r) THEN op[r].data ELSE cards[c].data]]
<1>1. op[r].kind = "update"
  BY DEF Rearranges
<1>2. op[r].data \in Texts \cup {Nil}
  BY <1>1, OperationOfKind DEF ListInv, Carries, CommitTx
<1>3. cards' = Committed(r, << >>)
  BY DEF CommitTx, Apply
<1>4. DOMAIN << >> = {}
  OBVIOUS
<1> QED BY <1>1, <1>2, <1>3, <1>4 DEF Committed, Written, Deletes

ArticleTypes ==
    /\ status \in {"DRAFT", "PUBLISHED", "ARCHIVED"}
    /\ deleted \in BOOLEAN
    /\ body \in Seq(Texts) \cup {Nil}
    /\ raced \in BOOLEAN
    /\ \A r \in Requests : read[r] \in Seq(Texts) \cup {Nil}

\* A commit of r leaves cards without a gap, and whoever has a snapshot that is no longer
\* true is stale.
LEMMA CommitKeepsCards ==
    ASSUME ListInv, NEW r \in Requests, CommitTx(r)
    PROVE  /\ CardTypes' /\ PositionsAreContiguous'
           /\ DOMAIN cards' \subseteq DOMAIN cards \cup Created(r)
           /\ ~Rearranges(r) =>
                  DOMAIN cards' = DOMAIN cards /\ Orders(cards)' = Orders(cards)
<1>0. pc[r] = "commit" /\ ~stale[r] /\ minted' = minted
  BY DEF CommitTx, Apply
<1>1. /\ cards \in [DOMAIN cards -> Card] /\ DOMAIN cards \subseteq minted /\ minted \subseteq Ids
  <2>1. PICK S \in SUBSET minted : cards \in [S -> Card]
    BY DEF ListInv, CardTypes
  <2> QED BY <2>1 DEF ListInv, CardTypes
<1>2. CASE Rearranges(r)
  <2> DEFINE as == Arranged(r)
             T == ToSet(as)
             n == Len(as)
  <2>1. as \in Seq(Ids) /\ IsInjective(as) /\ T = (DOMAIN cards \cup Created(r)) \ Deletes(r)
    BY <1>0, <1>2, ArrangedList
  <2>2. /\ DOMAIN cards' = T
        /\ \A i \in 1 .. n :
               /\ as[i] \in DOMAIN cards'
               /\ cards'[as[i]] = [order |-> i - 1,
                                   data  |-> IF as[i] \in Written(r) THEN op[r].data
                                             ELSE cards[as[i]].data]
    BY <1>2, RearrangedCards
  <2>3. Cardinality(T) = n /\ n \in Nat /\ T = {as[i] : i \in 1 .. n}
    <3>1. Cardinality(T) = n
      BY <2>1, Numbering
    <3>2. DOMAIN as = 1 .. n /\ n \in Nat
      BY <2>1
    <3> QED BY <3>1, <3>2 DEF ToSet
  <2>4. Created(r) \subseteq minted
    BY <1>0 DEF Created, ListInv, Fresh, Creates
  <2>5. T \subseteq minted /\ T \subseteq DOMAIN cards \cup Created(r)
    BY <1>1, <2>1, <2>4
  <2>6. \A c \in T : IF c \in Written(r) THEN op[r].data \in Texts ELSE cards[c].data \in Texts
    <3> SUFFICES ASSUME NEW c \in T
                 PROVE  IF c \in Written(r) THEN op[r].data \in Texts ELSE cards[c].data \in Texts
      OBVIOUS
    <3>1. CASE c \in Written(r)
      <4>1. op[r].kind \in {"create", "update"} /\ op[r].data # Nil
        BY <3>1 DEF Written
      <4> QED BY <1>0, <1>2, <3>1, <4>1, ArrangedOfKind
    <3>2. CASE c \notin Written(r)
      <4>1. c \in DOMAIN cards
        <5>1. CASE c \in Created(r)
          <6>1. op[r].kind = "create" /\ c = op[r].card
            BY <5>1 DEF Created
          <6>2. op[r].data = Nil
            BY <3>2, <6>1 DEF Written
          <6>3. op[r].data \in Texts
            BY <1>0, <1>2, <6>1, ArrangedOfKind
          <6> QED BY <6>2, <6>3, CardsAssumption
        <5> QED BY <2>5, <5>1
      <4> QED BY <1>1, <3>2, <4>1 DEF Card
    <3> QED BY <3>1, <3>2
  <2> HIDE DEF as, T, n
  <2>7. ASSUME NEW i \in 1 .. n
        PROVE  cards'[as[i]] \in Card /\ cards'[as[i]].order = i - 1
    <3>1. i - 1 \in Nat
      BY <2>3
    <3>3. as[i] \in T
      BY <2>2
    <3>2. (IF as[i] \in Written(r) THEN op[r].data ELSE cards[as[i]].data) \in Texts
      BY <2>6, <3>3
    <3> DEFINE x == IF as[i] \in Written(r) THEN op[r].data ELSE cards[as[i]].data
    <3>4. cards'[as[i]] = [order |-> i - 1, data |-> x]
      BY <2>2
    <3>5. x \in Texts
      BY <3>2
    <3> HIDE DEF x
    <3> QED BY <3>1, <3>4, <3>5 DEF Card
  <2>8. cards' \in [T -> Card]
    <3>1. \A c \in T : cards'[c] \in Card
      BY <2>3, <2>7
    <3>2. cards' = [c \in DOMAIN cards' |-> cards'[c]]
      BY DEF CommitTx, Apply, Committed
    <3> QED BY <2>2, <3>1, <3>2
  <2>9. CardTypes'
    BY <1>0, <1>1, <2>5, <2>8 DEF CardTypes
  <2>10. {cards'[c].order : c \in T} = 0 .. n - 1
    <3>1. \A c \in T : cards'[c].order \in 0 .. n - 1
      <4> SUFFICES ASSUME NEW c \in T PROVE cards'[c].order \in 0 .. n - 1
        OBVIOUS
      <4>1. PICK i \in 1 .. n : c = as[i]
        BY <2>3
      <4>2. cards'[c].order = i - 1
        BY <2>7, <4>1
      <4> QED BY <2>3, <4>2
    <3>2. ASSUME NEW k \in 0 .. n - 1 PROVE \E c \in T : cards'[c].order = k
      <4>1. k + 1 \in 1 .. n /\ (k + 1) - 1 = k
        BY <2>3
      <4>2. as[k + 1] \in T /\ cards'[as[k + 1]].order = k
        BY <2>3, <2>7, <4>1
      <4> QED BY <4>2
    <3> QED BY <3>1, <3>2
  <2>11. PositionsAreContiguous'
    BY <2>2, <2>3, <2>10 DEF PositionsAreContiguous
  <2> QED BY <1>2, <2>2, <2>5, <2>9, <2>11
<1>3. CASE ~Rearranges(r)
  <2>1. /\ op[r].data \in Texts \cup {Nil}
        /\ cards' = [c \in DOMAIN cards |->
                        [order |-> cards[c].order,
                         data  |-> IF c \in Written(r) THEN op[r].data ELSE cards[c].data]]
    BY <1>3, RewrittenCards
  <2>2. \A c \in DOMAIN cards : cards'[c].order = cards[c].order
    BY <2>1
  <2>3. DOMAIN cards' = DOMAIN cards
    BY <2>1
  <2>4. Orders(cards)' = Orders(cards)
    BY <2>2, <2>3 DEF Orders
  <2>5. PositionsAreContiguous'
    <3>1. {cards'[c].order : c \in DOMAIN cards} = {cards[c].order : c \in DOMAIN cards}
      BY <2>2
    <3> QED BY <2>3, <3>1 DEF PositionsAreContiguous, ListInv
  <2>6. \A c \in DOMAIN cards : cards'[c] \in Card
    <3>1. \A c \in DOMAIN cards : c \in Written(r) => op[r].data \in Texts
      BY <2>1 DEF Written
    <3> QED BY <1>1, <2>1, <3>1 DEF Card
  <2>7. cards' \in [DOMAIN cards -> Card]
    BY <2>1, <2>6
  <2>8. CardTypes'
    BY <1>0, <1>1, <2>7 DEF CardTypes
  <2> QED BY <1>3, <2>3, <2>4, <2>5, <2>8
<1> QED BY <1>2, <1>3

\* What has become of a transaction that goes on while another request takes a step.
LEMMA SameRearranges ==
    ASSUME NEW s \in Requests, op'[s] = op[s], snap'[s] = snap[s]
    PROVE  Rearranges(s)' = Rearranges(s)
  BY DEF Rearranges

\* A step that leaves the cards alone keeps the invariant if it keeps the types and opens
\* nothing.
LEMMA CardsStand ==
    ASSUME ListInv, UNCHANGED <<cards, minted>>, TxTypes', Carries',
           \A s \in Requests : Creates(s)' => Creates(s) /\ op'[s] = op[s],
           \A s \in Requests :
               pc'[s] = "commit" /\ ~stale'[s] =>
                   pc[s] = "commit" /\ ~stale[s] /\ op'[s] = op[s] /\ snap'[s] = snap[s]
    PROVE  ListInv'
<1>1. CardTypes' /\ PositionsAreContiguous'
  BY DEF ListInv, CardTypes, PositionsAreContiguous
<1>2. Fresh'
  BY DEF ListInv, Fresh
<1>3. Current'
  <2> SUFFICES ASSUME NEW s \in Requests, pc'[s] = "commit", ~stale'[s], Rearranges(s)'
               PROVE  snap'[s] = Orders(cards)' /\ Fits(op[s])'
    BY DEF Current
  <2>1. pc[s] = "commit" /\ ~stale[s] /\ op'[s] = op[s] /\ snap'[s] = snap[s]
    OBVIOUS
  <2>2. Rearranges(s)
    BY <2>1, SameRearranges
  <2>3. snap[s] = Orders(cards) /\ Fits(op[s])
    BY <2>1, <2>2 DEF ListInv, Current
  <2> QED BY <2>1, <2>3 DEF Orders, Fits
<1> QED BY <1>1, <1>2, <1>3 DEF ListInv

------------------------------------------------------------------------------
(* Positions and types. *)

\* A request that ends leaves the others where they are.
LEMMA Ending ==
    ASSUME ListInv, NEW r \in Requests, Idle(r), stale' \in [Requests -> BOOLEAN],
           minted' = minted
    PROVE  /\ TxTypes' /\ Carries'
           /\ \A s \in Requests :
                  /\ pc'[s] # "idle" =>
                         s # r /\ pc'[s] = pc[s] /\ op'[s] = op[s] /\ snap'[s] = snap[s]
                  /\ s # r => pc'[s] = pc[s] /\ op'[s] = op[s] /\ snap'[s] = snap[s]
<1>1. /\ pc \in [Requests -> Steps] /\ op \in [Requests -> Operation \cup {Nil}]
      /\ attempt \in [Requests -> 0 .. RetryLimit]
      /\ snap = [s \in Requests |-> snap[s]] /\ read = [s \in Requests |-> read[s]]
  BY DEF ListInv, TxTypes, Carries
<1>2. /\ pc'[r] = "idle" /\ op'[r] = Nil /\ snap'[r] = Nil
      /\ \A s \in Requests : s # r => pc'[s] = pc[s] /\ op'[s] = op[s] /\ snap'[s] = snap[s]
  BY <1>1 DEF Idle
<1>3. /\ pc' \in [Requests -> Steps] /\ op' \in [Requests -> Operation \cup {Nil}]
      /\ attempt' \in [Requests -> 0 .. RetryLimit]
      /\ snap' = [s \in Requests |-> snap'[s]] /\ read' = [s \in Requests |-> read'[s]]
  <2>1. pc' \in [Requests -> Steps] /\ op' \in [Requests -> Operation \cup {Nil}]
    BY <1>1 DEF Idle, Steps
  <2>2. attempt' \in [Requests -> 0 .. RetryLimit]
    BY <1>1, CardsAssumption DEF Idle
  <2>3. snap' = [s \in Requests |-> snap'[s]] /\ read' = [s \in Requests |-> read'[s]]
    BY <1>1 DEF Idle
  <2> QED BY <2>1, <2>2, <2>3
<1>4. \A s \in Requests :
          /\ pc'[s] = "commit" <=> snap'[s] # Nil
          /\ pc'[s] = "commit" => \E S \in SUBSET minted : snap'[s] \in [S -> Nat]
  BY <1>2 DEF ListInv, TxTypes
<1>5. TxTypes'
  BY <1>3, <1>4 DEF TxTypes
<1>6. Carries'
  <2>1. \A s \in Requests :
           /\ pc'[s] # "idle" => op'[s] \in Operation
           /\ pc'[s] \in {"begin", "commit"} => op'[s].kind \in Edits
    BY <1>2 DEF ListInv, Carries
  <2> QED BY <1>3, <2>1 DEF Carries
<1> QED BY <1>2, <1>5, <1>6

\* A request that ends without a commit keeps the invariant.
LEMMA EndKeepsList ==
    ASSUME ListInv, NEW r \in Requests, Idle(r), UNCHANGED <<cards, minted>>,
           stale' = stale \/ stale' = [stale EXCEPT ![r] = FALSE]
    PROVE  ListInv'
<1>1. /\ stale' \in [Requests -> BOOLEAN]
      /\ \A s \in Requests : s # r => stale'[s] = stale[s]
  BY DEF ListInv, TxTypes
<1>2. /\ TxTypes' /\ Carries'
      /\ \A s \in Requests :
             pc'[s] # "idle" =>
                 s # r /\ pc'[s] = pc[s] /\ op'[s] = op[s] /\ snap'[s] = snap[s]
  BY <1>1, Ending
<1>3. \A s \in Requests : Creates(s)' => Creates(s) /\ op'[s] = op[s]
  BY <1>2 DEF Creates
<1>4. \A s \in Requests :
          pc'[s] = "commit" /\ ~stale'[s] =>
              pc[s] = "commit" /\ ~stale[s] /\ op'[s] = op[s] /\ snap'[s] = snap[s]
  BY <1>1, <1>2
<1> QED BY <1>2, <1>3, <1>4, CardsStand

\* A new request: createCard's id is nobody else's.
LEMMA ReceiveKeepsList ==
    ASSUME ListInv, NEW r \in Requests, NEW o \in Operations, Receive(r, o)
    PROVE  ListInv'
<1>1. o \in Operation /\ (o.kind = "create" => o.card \in Ids)
  BY CardsAssumption, OperationOfKind
<1>2. /\ minted \subseteq minted' /\ minted' \subseteq Ids /\ cards' = cards
  BY <1>1 DEF Receive, ListInv, CardTypes
<1>3. /\ pc' \in [Requests -> Steps] /\ op' \in [Requests -> Operation \cup {Nil}]
      /\ stale' \in [Requests -> BOOLEAN] /\ attempt' \in [Requests -> 0 .. RetryLimit]
  <2>1. pc' \in [Requests -> Steps]
    BY DEF Receive, ListInv, TxTypes, Steps
  <2>2. op' \in [Requests -> Operation \cup {Nil}]
    BY <1>1 DEF Receive, ListInv, TxTypes
  <2>3. attempt' \in [Requests -> 0 .. RetryLimit]
    <3>1. (IF o.kind \in Edits THEN 1 ELSE 0) \in 0 .. RetryLimit
      BY CardsAssumption
    <3> QED BY <3>1 DEF Receive, ListInv, TxTypes
  <2> QED BY <2>1, <2>2, <2>3 DEF Receive, ListInv, TxTypes
<1>4. /\ pc[r] = "idle" /\ op'[r] = o
      /\ pc'[r] = IF o.kind \in Edits THEN "begin" ELSE "find"
      /\ \A s \in Requests : s # r => pc'[s] = pc[s] /\ op'[s] = op[s]
      /\ snap' = snap /\ stale' = stale /\ read' = read
  BY DEF Receive, ListInv, TxTypes
<1>5. CardTypes' /\ PositionsAreContiguous'
  <2>1. PICK S \in SUBSET minted : cards \in [S -> Card]
    BY DEF ListInv, CardTypes
  <2>2. S \in SUBSET minted'
    BY <1>2
  <2> QED BY <1>2, <2>1, <2>2 DEF CardTypes, PositionsAreContiguous, ListInv
<1>6. TxTypes'
  <2>1. \A s \in Requests :
            /\ pc'[s] = "commit" <=> snap'[s] # Nil
            /\ pc'[s] = "commit" => \E S \in SUBSET minted' : snap'[s] \in [S -> Nat]
    <3> SUFFICES ASSUME NEW s \in Requests
                 PROVE  /\ pc'[s] = "commit" <=> snap'[s] # Nil
                        /\ pc'[s] = "commit" => \E S \in SUBSET minted' : snap'[s] \in [S -> Nat]
      OBVIOUS
    <3>1. pc'[s] = "commit" <=> pc[s] = "commit"
      BY <1>4
    <3>2. \A S \in SUBSET minted : S \in SUBSET minted'
      BY <1>2
    <3> QED BY <1>4, <3>1, <3>2 DEF ListInv, TxTypes
  <2> QED BY <1>3, <2>1 DEF TxTypes
<1>7. Carries'
  <2>1. \A s \in Requests :
           /\ pc'[s] # "idle" => op'[s] \in Operation
           /\ pc'[s] \in {"begin", "commit"} => op'[s].kind \in Edits
    BY <1>1, <1>4 DEF ListInv, Carries
  <2> QED BY <1>4, <2>1 DEF Carries, ListInv
<1>8. Fresh'
  <2>1. DOMAIN cards \subseteq minted
    <3>1. PICK S \in SUBSET minted : cards \in [S -> Card]
      BY DEF ListInv, CardTypes
    <3> QED BY <3>1
  <2>2. \A s \in Requests :
            Creates(s)' => \/ s # r /\ Creates(s) /\ op'[s] = op[s]
                           \/ s = r /\ o.kind = "create" /\ op'[s] = o
    BY <1>4 DEF Creates
  <2>3. o.kind = "create" => o.card \in minted' \ minted
    BY DEF Receive
  <2>4. \A s \in Requests : Creates(s) => op[s].card \in minted \ DOMAIN cards
    BY DEF ListInv, Fresh
  <2>5. \A s \in Requests : Creates(s)' => op'[s].card \in minted' \ DOMAIN cards'
    BY <1>2, <2>1, <2>2, <2>3, <2>4
  <2>6. \A s, t \in Requests : Creates(s)' /\ Creates(t)' /\ op'[s].card = op'[t].card => s = t
    BY <2>2, <2>3, <2>4 DEF ListInv, Fresh
  <2> QED BY <2>5, <2>6 DEF Fresh
<1>9. Current'
  <2> SUFFICES ASSUME NEW s \in Requests, pc'[s] = "commit", ~stale'[s], Rearranges(s)'
               PROVE  snap'[s] = Orders(cards)' /\ Fits(op[s])'
    BY DEF Current
  <2>1. s # r
    BY <1>4
  <2>2. Rearranges(s) /\ pc[s] = "commit" /\ ~stale[s] /\ op'[s] = op[s] /\ snap'[s] = snap[s]
    BY <1>4, <2>1, SameRearranges
  <2>3. snap[s] = Orders(cards) /\ Fits(op[s])
    BY <2>2 DEF ListInv, Current
  <2> QED BY <1>2, <2>2, <2>3 DEF Orders, Fits
<1> QED BY <1>5, <1>6, <1>7, <1>8, <1>9 DEF ListInv

\* The checks of a transaction are made on the cards as they are.
LEMMA BeginKeepsList ==
    ASSUME ListInv, NEW r \in Requests, Begin(r)
    PROVE  ListInv'
<1>1. /\ pc[r] = "begin" /\ pc'[r] = "commit" /\ snap'[r] = Orders(cards)
      /\ \A s \in Requests :
             s # r => pc'[s] = pc[s] /\ snap'[s] = snap[s] /\ stale'[s] = stale[s]
      /\ op' = op /\ cards' = cards /\ minted' = minted /\ attempt' = attempt /\ read' = read
  BY DEF Begin, ListInv, TxTypes, Carries
<1>2. PICK S \in SUBSET minted : cards \in [S -> Card]
  BY DEF ListInv, CardTypes
<1>3. Orders(cards) \in [S -> Nat] /\ Orders(cards) # Nil
  <2>1. Orders(cards) \in [S -> Nat]
    BY <1>2 DEF Orders, Card
  <2>2. S \in SUBSET Ids
    BY <1>2 DEF ListInv, CardTypes
  <2> QED BY <2>1, <2>2, CardsAssumption
<1>4. CardTypes' /\ PositionsAreContiguous' /\ Fresh'
  <2>1. \A s \in Requests : Creates(s)' <=> Creates(s)
    BY <1>1 DEF Creates
  <2> QED BY <1>1, <2>1 DEF ListInv, CardTypes, PositionsAreContiguous, Fresh
<1>5. TxTypes'
  <2>1. pc' \in [Requests -> Steps] /\ stale' \in [Requests -> BOOLEAN]
    BY DEF Begin, ListInv, TxTypes, Steps
  <2>2. \A s \in Requests :
            /\ pc'[s] = "commit" <=> snap'[s] # Nil
            /\ pc'[s] = "commit" => \E Q \in SUBSET minted : snap'[s] \in [Q -> Nat]
    <3> SUFFICES ASSUME NEW s \in Requests
                 PROVE  /\ pc'[s] = "commit" <=> snap'[s] # Nil
                        /\ pc'[s] = "commit" => \E Q \in SUBSET minted : snap'[s] \in [Q -> Nat]
      OBVIOUS
    <3>1. CASE s = r
      BY <1>1, <1>2, <1>3, <3>1
    <3>2. CASE s # r
      BY <1>1, <3>2 DEF ListInv, TxTypes
    <3> QED BY <3>1, <3>2
  <2> QED BY <1>1, <2>1, <2>2 DEF TxTypes, ListInv
<1>6. Carries'
  <2>1. snap' = [s \in Requests |-> snap'[s]]
    BY DEF Begin, ListInv, Carries
  <2>2. \A s \in Requests :
           /\ pc'[s] # "idle" => op'[s] \in Operation
           /\ pc'[s] \in {"begin", "commit"} => op'[s].kind \in Edits
    BY <1>1 DEF ListInv, Carries
  <2> QED BY <1>1, <2>1, <2>2 DEF Carries, ListInv
<1>7. Current'
  <2> SUFFICES ASSUME NEW s \in Requests, pc'[s] = "commit", ~stale'[s], Rearranges(s)'
               PROVE  snap'[s] = Orders(cards)' /\ Fits(op[s])'
    BY DEF Current
  <2>1. CASE s # r
    <3>1. Rearranges(s) /\ pc[s] = "commit" /\ ~stale[s] /\ op'[s] = op[s] /\ snap'[s] = snap[s]
      BY <1>1, <2>1, SameRearranges
    <3>2. snap[s] = Orders(cards) /\ Fits(op[s])
      BY <3>1 DEF ListInv, Current
    <3> QED BY <1>1, <3>1, <3>2 DEF Orders, Fits
  <2>2. CASE s = r
    <3> DEFINE size == Cardinality(DOMAIN cards)
    <3>1. snap'[s] = Orders(cards)'
      BY <1>1, <2>2 DEF Orders
    <3>2. op[r].kind = "update" => op[r].card \in DOMAIN cards /\ op[r].at \in 0 .. size - 1
      <4> SUFFICES ASSUME op[r].kind = "update"
                   PROVE  op[r].card \in DOMAIN cards /\ op[r].at \in 0 .. size - 1
        OBVIOUS
      <4>1. /\ op[r].card \in DOMAIN cards
            /\ op[r].at \in {Nil, cards[op[r].card].order} \cup 0 .. size - 1
        BY DEF Begin, Allowed
      <4>2. Orders(cards)[op[r].card] = cards[op[r].card].order
        BY <4>1 DEF Orders
      <4>3. op[r].at \notin {Nil, Orders(cards)[op[r].card]}
        BY <1>1, <2>2 DEF Rearranges
      <4> QED BY <4>1, <4>2, <4>3
    <3>3. Fits(op[r])
      BY <3>2 DEF Fits, Begin, Allowed
    <3> QED BY <1>1, <2>2, <3>1, <3>3 DEF Fits
  <2> QED BY <2>1, <2>2
<1> QED BY <1>4, <1>5, <1>6, <1>7 DEF ListInv

\* A commit: whoever rearranges on an older snapshot becomes stale.
LEMMA CommitKeepsList ==
    ASSUME ListInv, NEW r \in Requests, CommitTx(r)
    PROVE  ListInv'
<1>1. /\ pc[r] = "commit" /\ Idle(r) /\ minted' = minted
      /\ stale' = [s \in Requests |->
                      s # r /\ pc[s] = "commit" /\ (stale[s] \/ Conflict(r, s))]
  BY DEF CommitTx, Apply
<1>2. /\ TxTypes' /\ Carries'
      /\ \A s \in Requests :
             pc'[s] # "idle" =>
                 s # r /\ pc'[s] = pc[s] /\ op'[s] = op[s] /\ snap'[s] = snap[s]
  <2>1. stale' \in [Requests -> BOOLEAN]
    BY <1>1
  <2> QED BY <1>1, <2>1, Ending
<1>3. /\ CardTypes' /\ PositionsAreContiguous'
      /\ DOMAIN cards' \subseteq DOMAIN cards \cup Created(r)
      /\ ~Rearranges(r) => DOMAIN cards' = DOMAIN cards /\ Orders(cards)' = Orders(cards)
  BY CommitKeepsCards
<1>4. Fresh'
  <2>1. \A s \in Requests : Creates(s)' => s # r /\ Creates(s) /\ op'[s] = op[s]
    BY <1>2 DEF Creates
  <2>2. \A s \in Requests : s # r /\ Creates(s) => op[s].card \notin Created(r)
    BY <1>1 DEF Created, ListInv, Fresh, Creates
  <2>3. \A s \in Requests : Creates(s)' => op'[s].card \in minted' \ DOMAIN cards'
    BY <1>1, <1>3, <2>1, <2>2 DEF ListInv, Fresh
  <2>4. \A s, t \in Requests : Creates(s)' /\ Creates(t)' /\ op'[s].card = op'[t].card => s = t
    BY <2>1 DEF ListInv, Fresh
  <2> QED BY <2>3, <2>4 DEF Fresh
<1>5. Current'
  <2> SUFFICES ASSUME NEW s \in Requests, pc'[s] = "commit", ~stale'[s], Rearranges(s)'
               PROVE  snap'[s] = Orders(cards)' /\ Fits(op[s])'
    BY DEF Current
  <2>1. s # r /\ pc[s] = "commit" /\ op'[s] = op[s] /\ snap'[s] = snap[s]
    BY <1>2
  <2>2. Rearranges(s)
    BY <2>1, SameRearranges
  <2>3. ~stale[s] /\ ~Conflict(r, s)
    BY <1>1, <2>1
  <2>4. ~Rearranges(r)
    BY <2>2, <2>3 DEF Conflict
  <2>5. snap[s] = Orders(cards) /\ Fits(op[s])
    BY <2>1, <2>2, <2>3 DEF ListInv, Current
  <2> QED BY <1>3, <2>1, <2>4, <2>5 DEF Fits
<1> QED BY <1>2, <1>3, <1>4, <1>5 DEF ListInv

\* A transaction that is rolled back and tried again.
LEMMA RetryKeepsList ==
    ASSUME ListInv, NEW r \in Requests, Retry(r)
    PROVE  ListInv'
<1>1. /\ pc[r] = "commit" /\ pc'[r] = "begin" /\ snap'[r] = Nil
      /\ \A s \in Requests :
             s # r => pc'[s] = pc[s] /\ snap'[s] = snap[s] /\ stale'[s] = stale[s]
      /\ op' = op /\ cards' = cards /\ minted' = minted /\ read' = read
  BY DEF Retry, ListInv, TxTypes, Carries
<1>2. TxTypes'
  <2>1. pc' \in [Requests -> Steps] /\ stale' \in [Requests -> BOOLEAN]
    BY DEF Retry, ListInv, TxTypes, Steps
  <2>2. attempt' \in [Requests -> 0 .. RetryLimit]
    <3>1. attempt[r] + 1 \in 0 .. RetryLimit
      BY CardsAssumption DEF Retry, ListInv, TxTypes
    <3> QED BY <3>1 DEF Retry, ListInv, TxTypes
  <2>3. \A s \in Requests :
            /\ pc'[s] = "commit" <=> snap'[s] # Nil
            /\ pc'[s] = "commit" => \E S \in SUBSET minted : snap'[s] \in [S -> Nat]
    BY <1>1 DEF ListInv, TxTypes
  <2> QED BY <1>1, <2>1, <2>2, <2>3 DEF TxTypes, ListInv
<1>3. Carries'
  <2>1. snap' = [s \in Requests |-> snap'[s]]
    BY DEF Retry, ListInv, Carries
  <2>2. \A s \in Requests :
           /\ pc'[s] # "idle" => op'[s] \in Operation
           /\ pc'[s] \in {"begin", "commit"} => op'[s].kind \in Edits
    BY <1>1 DEF ListInv, Carries
  <2> QED BY <1>1, <2>1, <2>2 DEF Carries, ListInv
<1>4. \A s \in Requests : Creates(s)' => Creates(s) /\ op'[s] = op[s]
  BY <1>1 DEF Creates
<1>5. \A s \in Requests :
          pc'[s] = "commit" /\ ~stale'[s] =>
              pc[s] = "commit" /\ ~stale[s] /\ op'[s] = op[s] /\ snap'[s] = snap[s]
  BY <1>1
<1> QED BY <1>1, <1>2, <1>3, <1>4, <1>5, CardsStand

\* publish, revert, archive and remove on their way.
LEMMA LookKeepsList ==
    ASSUME ListInv, NEW r \in Requests, Find(r) \/ ReadCards(r)
    PROVE  ListInv'
<1>1. /\ pc[r] \in {"find", "read"} /\ pc'[r] \in {"read", "write"}
      /\ \A s \in Requests : s # r => pc'[s] = pc[s]
      /\ UNCHANGED <<op, cards, minted, snap, stale, attempt>>
      /\ pc' \in [Requests -> Steps]
      /\ read' = [s \in Requests |-> read'[s]]
  BY DEF Find, ReadCards, txVars, ListInv, TxTypes, Carries, Steps
<1>2. TxTypes'
  <2>1. \A s \in Requests : pc'[s] = "commit" <=> pc[s] = "commit"
    BY <1>1
  <2> QED BY <1>1, <2>1 DEF ListInv, TxTypes
<1>3. Carries'
  <2>1. \A s \in Requests :
           /\ pc'[s] # "idle" => pc[s] # "idle"
           /\ pc'[s] \in {"begin", "commit"} => pc'[s] = pc[s]
    BY <1>1
  <2> QED BY <1>1, <2>1 DEF ListInv, Carries
<1>4. \A s \in Requests : Creates(s)' => Creates(s) /\ op'[s] = op[s]
  BY <1>1 DEF Creates
<1>5. \A s \in Requests :
          pc'[s] = "commit" /\ ~stale'[s] =>
              pc[s] = "commit" /\ ~stale[s] /\ op'[s] = op[s] /\ snap'[s] = snap[s]
  BY <1>1
<1> QED BY <1>1, <1>2, <1>3, <1>4, <1>5, CardsStand

\* compileCards yields texts.
LEMMA CompiledType ==
    ASSUME CardTypes, PositionsAreContiguous
    PROVE  Compiled(cards) \in Seq(Texts)
<1>1. /\ InOrder \in Seq(Ids) /\ Len(InOrder) \in Nat
      /\ cards \in [DOMAIN cards -> Card]
      /\ \A i \in 1 .. Len(InOrder) : InOrder[i] \in DOMAIN cards
  BY CardsInOrder
<1>2. DOMAIN InOrder = 1 .. Len(InOrder)
  BY <1>1
<1>3. Compiled(cards) = [i \in 1 .. Len(InOrder) |-> cards[InOrder[i]].data]
  BY <1>2 DEF Compiled, InOrder
<1>4. \A i \in 1 .. Len(InOrder) : cards[InOrder[i]].data \in Texts
  BY <1>1 DEF Card
<1>5. Compiled(cards) \in [1 .. Len(InOrder) -> Texts]
  BY <1>3, <1>4
<1> QED BY <1>1, <1>5

\* What the requests other than the one that ends have compiled stands.
LEMMA ReadKept ==
    ASSUME ListInv, ArticleTypes, NEW r \in Requests, Idle(r)
    PROVE  \A s \in Requests : read'[s] \in Seq(Texts) \cup {Nil}
  BY DEF Idle, ListInv, Carries, ArticleTypes

\* The invariant holds of an article without cards.
LEMMA TypesInit == Init => ListInv /\ ArticleTypes
<1> SUFFICES ASSUME Init PROVE ListInv /\ ArticleTypes
  OBVIOUS
<1>1. cards = << >> /\ DOMAIN cards = {}
  BY DEF Init
<1>2. CardTypes
  <2>1. cards \in [{} -> Card]
    BY <1>1
  <2> QED BY <2>1 DEF Init, CardTypes
<1>3. PositionsAreContiguous
  <2>1. Cardinality({}) = 0
    BY FS_EmptySet
  <2> QED BY <1>1, <2>1 DEF PositionsAreContiguous
<1>4. TxTypes
  <2>1. attempt \in [Requests -> 0 .. RetryLimit]
    BY CardsAssumption DEF Init
  <2> QED BY <2>1 DEF Init, TxTypes, Steps
<1>5. Carries /\ Fresh /\ Current
  BY DEF Init, Carries, Fresh, Creates, Current
<1>6. ArticleTypes
  BY DEF Init, ArticleTypes
<1> QED BY <1>2, <1>3, <1>4, <1>5, <1>6 DEF ListInv

\* Every step keeps it.
LEMMA TypesPreserved ==
    ASSUME ListInv, ArticleTypes, [Next]_vars
    PROVE  ListInv' /\ ArticleTypes'
<1>1. CASE UNCHANGED vars
  <2>1. /\ UNCHANGED <<cards, minted, pc, op, snap, stale, attempt, read>>
        /\ UNCHANGED <<status, deleted, body, raced>>
    BY <1>1 DEF vars, article, txVars
  <2> QED BY <2>1 DEF ListInv, ArticleTypes, CardTypes, PositionsAreContiguous, TxTypes, Carries,
                Fresh, Creates, Current, Rearranges, Orders, Fits
<1>2. ASSUME NEW r \in Requests, NEW o \in Operations, Receive(r, o)
      PROVE  ListInv' /\ ArticleTypes'
  <2>1. ListInv'
    BY <1>2, ReceiveKeepsList
  <2>2. ArticleTypes'
    BY <1>2 DEF Receive, article, ArticleTypes
  <2> QED BY <2>1, <2>2
<1>3. ASSUME NEW r \in Requests, Begin(r)
      PROVE  ListInv' /\ ArticleTypes'
  <2>1. ListInv'
    BY <1>3, BeginKeepsList
  <2>2. ArticleTypes'
    BY <1>3 DEF Begin, article, ArticleTypes
  <2> QED BY <2>1, <2>2
<1>4. ASSUME NEW r \in Requests, CommitTx(r)
      PROVE  ListInv' /\ ArticleTypes'
  <2>1. ListInv'
    BY <1>4, CommitKeepsList
  <2>2. ArticleTypes'
    BY <1>4, ReadKept DEF CommitTx, Apply, article, ArticleTypes
  <2> QED BY <2>1, <2>2
<1>5. ASSUME NEW r \in Requests, DuplicateOrder(r) \/ Refuse(r) \/ Crash(r)
      PROVE  ListInv' /\ ArticleTypes'
  <2>1. Idle(r) /\ UNCHANGED <<cards, minted, article>> /\ stale' = [stale EXCEPT ![r] = FALSE]
    BY <1>5 DEF DuplicateOrder, Refuse, Crash
  <2>2. ListInv'
    BY <2>1, EndKeepsList
  <2>3. ArticleTypes'
    BY <2>1, ReadKept DEF article, ArticleTypes
  <2> QED BY <2>2, <2>3
<1>6. ASSUME NEW r \in Requests, Retry(r)
      PROVE  ListInv' /\ ArticleTypes'
  <2>1. ListInv'
    BY <1>6, RetryKeepsList
  <2>2. ArticleTypes'
    BY <1>6 DEF Retry, article, ArticleTypes
  <2> QED BY <2>1, <2>2
<1>7. ASSUME NEW r \in Requests, Find(r) \/ ReadCards(r)
      PROVE  ListInv' /\ ArticleTypes'
  <2>1. ListInv'
    BY <1>7, LookKeepsList
  <2>2. \A s \in Requests : read'[s] \in Seq(Texts) \cup {Nil}
    <3>1. Compiled(cards) \in Seq(Texts)
      BY CompiledType DEF ListInv
    <3> QED BY <1>7, <3>1 DEF Find, ReadCards, ArticleTypes, ListInv, Carries
  <2>3. ArticleTypes'
    BY <1>7, <2>2 DEF Find, ReadCards, article, ArticleTypes
  <2> QED BY <2>1, <2>3
<1>8. ASSUME NEW r \in Requests, Publish(r) \/ Withdraw(r) \/ SoftDelete(r)
      PROVE  ListInv' /\ ArticleTypes'
  <2>1. Idle(r) /\ UNCHANGED <<cards, minted, stale>>
    BY <1>8 DEF Publish, Withdraw, SoftDelete
  <2>2. ListInv'
    BY <2>1, EndKeepsList
  <2>3. /\ status' \in {"DRAFT", "PUBLISHED", "ARCHIVED"} /\ deleted' \in BOOLEAN
        /\ body' \in Seq(Texts) \cup {Nil} /\ raced' \in BOOLEAN
    BY <1>8 DEF Publish, Withdraw, SoftDelete, ArticleTypes
  <2>4. ArticleTypes'
    BY <2>1, <2>3, ReadKept DEF ArticleTypes
  <2> QED BY <2>2, <2>4
<1> QED BY <1>1, <1>2, <1>3, <1>4, <1>5, <1>6, <1>7, <1>8 DEF Next

\* The invariant of the list holds throughout.
LEMMA ListInvariance == Spec => [](ListInv /\ ArticleTypes)
  BY TypesInit, TypesPreserved, PTL DEF Spec

\* For any number of requests, cards and operations: every variable has its type, and no
\* request opens more transactions than SERIALIZABLE_RETRY_LIMIT (news.service.ts:1456-1473).
THEOREM TypeCorrect == Spec => []TypeOK
<1>1. ListInv /\ ArticleTypes => TypeOK
  BY DEF ListInv, ArticleTypes, CardTypes, TxTypes, TypeOK
<1> QED BY <1>1, ListInvariance, PTL

\* For any number of requests, cards and operations, however their transactions overlap:
\* the positions of the cards have no gap and no duplicate (news.service.ts:822 and :999).
THEOREM ContiguousPositions == Spec => []PositionsAreContiguous
<1>1. ListInv => PositionsAreContiguous
  BY DEF ListInv
<1> QED BY <1>1, ListInvariance, PTL

------------------------------------------------------------------------------
(* Cards implement CardList. *)

\* The list that a table of cards amounts to.
ListOf(table) ==
    LET at(i) == CHOOSE c \in DOMAIN table : table[c].order = i - 1
    IN  [i \in 1 .. Cardinality(DOMAIN table) |-> [id |-> at(i), data |-> table[at(i)].data]]

\* Cards that carry their places in s are the list s.
LEMMA ListOfTable ==
    ASSUME NEW s \in Seq(Ids), IsInjective(s), NEW table, DOMAIN table = ToSet(s),
           \A i \in 1 .. Len(s) : table[s[i]].order = i - 1
    PROVE  ListOf(table) = [i \in 1 .. Len(s) |-> [id |-> s[i], data |-> table[s[i]].data]]
<1> DEFINE n == Len(s)
           T == ToSet(s)
           at(i) == CHOOSE c \in T : table[c].order = i - 1
<1>1. n \in Nat /\ T = {s[i] : i \in 1 .. n} /\ Cardinality(T) = n
  <2>1. Cardinality(T) = n
    BY Numbering
  <2>2. DOMAIN s = 1 .. n /\ n \in Nat
    OBVIOUS
  <2> QED BY <2>1, <2>2 DEF ToSet
<1>2. ListOf(table) = [i \in 1 .. n |-> [id |-> at(i), data |-> table[at(i)].data]]
  BY <1>1 DEF ListOf
<1>3. ASSUME NEW i \in 1 .. n PROVE at(i) = s[i]
  <2> HIDE DEF n, T
  <2>1. s[i] \in T /\ table[s[i]].order = i - 1
    BY <1>1 DEF n
  <2>2. ASSUME NEW c \in T, table[c].order = i - 1 PROVE c = s[i]
    <3>1. PICK j \in 1 .. n : c = s[j]
      BY <1>1
    <3>2. j - 1 = i - 1
      BY <2>2, <3>1 DEF n
    <3>3. j = i
      BY <1>1, <3>2
    <3> QED BY <3>1, <3>3
  <2> QED BY <2>1, <2>2
<1> HIDE DEF n, at
<1> QED BY <1>2, <1>3 DEF n

\* The cards as CardList sees them are those of InOrder.
LEMMA ListedCards ==
    ASSUME CardTypes, PositionsAreContiguous
    PROVE  /\ Listed = [i \in 1 .. Len(InOrder) |->
                           [id |-> InOrder[i], data |-> cards[InOrder[i]].data]]
           /\ Listed \in Seq(List!ListedCard)
           /\ Len(Listed) = Len(InOrder)
<1>1. /\ InOrder \in Seq(Ids) /\ IsInjective(InOrder) /\ ToSet(InOrder) = DOMAIN cards
      /\ DOMAIN cards \subseteq Ids /\ cards \in [DOMAIN cards -> Card]
      /\ \A i \in 1 .. Len(InOrder) : InOrder[i] \in DOMAIN cards /\ cards[InOrder[i]].order = i - 1
  BY CardsInOrder
<1>2. Listed = [i \in 1 .. Len(InOrder) |->
                   [id |-> InOrder[i], data |-> cards[InOrder[i]].data]]
  <2>1. ListOf(cards) = [i \in 1 .. Len(InOrder) |->
                            [id |-> InOrder[i], data |-> cards[InOrder[i]].data]]
    BY <1>1, ListOfTable
  <2> QED BY <2>1 DEF ListOf, Listed
<1>3. \A i \in 1 .. Len(InOrder) :
          [id |-> InOrder[i], data |-> cards[InOrder[i]].data] \in List!ListedCard
  BY <1>1 DEF List!ListedCard, Card
<1>4. Len(InOrder) \in Nat
  BY <1>1
<1>5. Listed \in [1 .. Len(InOrder) -> List!ListedCard]
  BY <1>2, <1>3
<1> QED BY <1>2, <1>4, <1>5

\* The list after a commit that rearranges the cards.
LEMMA ListedNext ==
    ASSUME ListInv, NEW r \in Requests, CommitTx(r), Rearranges(r)
    PROVE  Listed' = [i \in 1 .. Len(Arranged(r)) |->
                         [id   |-> Arranged(r)[i],
                          data |-> IF Arranged(r)[i] \in Written(r) THEN op[r].data
                                   ELSE cards[Arranged(r)[i]].data]]
<1> DEFINE as == Arranged(r)
           x(c) == IF c \in Written(r) THEN op[r].data ELSE cards[c].data
<1>1. as \in Seq(Ids) /\ IsInjective(as)
  BY ArrangedList DEF CommitTx
<1>2. /\ DOMAIN cards' = ToSet(as)
      /\ \A i \in 1 .. Len(as) : cards'[as[i]] = [order |-> i - 1, data |-> x(as[i])]
  BY RearrangedCards
<1> HIDE DEF as, x
<1>3. ASSUME NEW i \in 1 .. Len(as)
      PROVE  cards'[as[i]].order = i - 1 /\ cards'[as[i]].data = x(as[i])
  <2>1. cards'[as[i]] = [order |-> i - 1, data |-> x(as[i])]
    BY <1>2
  <2> QED BY <2>1
<1>4. ListOf(cards') = [i \in 1 .. Len(as) |-> [id |-> as[i], data |-> cards'[as[i]].data]]
  BY <1>1, <1>2, <1>3, ListOfTable
<1>5. Listed' = ListOf(cards')
  BY DEF Listed, ListOf
<1>6. Listed' = [i \in 1 .. Len(as) |-> [id |-> as[i], data |-> x(as[i])]]
  BY <1>3, <1>4, <1>5
<1> QED BY <1>6 DEF as, x

\* createCard inserts.
LEMMA CreateInserts ==
    ASSUME ListInv, NEW r \in Requests, CommitTx(r), op[r].kind = "create"
    PROVE  \E c \in List!ListedCard, i \in 1 .. Len(Listed) + 1 : List!Insert(c, i)
<1> DEFINE n == Len(InOrder)
           as == Arranged(r)
           c == op[r].card
           e == [id |-> c, data |-> op[r].data]
<1>1. Rearranges(r) /\ pc[r] = "commit" /\ ~stale[r]
  BY DEF Rearranges, CommitTx
<1>2. c \in Ids \ DOMAIN cards /\ op[r].data \in Texts
  BY <1>1, ArrangedOfKind
<1>3. PICK i \in 1 .. n + 1 : as = InsertAt(InOrder, i, c)
  BY <1>1, ArrangedOfKind
<1>4. /\ InOrder \in Seq(Ids) /\ n \in Nat
      /\ \A k \in 1 .. n : InOrder[k] \in DOMAIN cards
  BY CardsInOrder DEF ListInv
<1>5. /\ Listed = [k \in 1 .. n |-> [id |-> InOrder[k], data |-> cards[InOrder[k]].data]]
      /\ Listed \in Seq(List!ListedCard) /\ Len(Listed) = n
  BY ListedCards DEF ListInv
<1>6. e \in List!ListedCard
  BY <1>2 DEF List!ListedCard
<1>7. as = [k \in 1 .. n + 1 |->
               IF k < i THEN InOrder[k] ELSE IF k = i THEN c ELSE InOrder[k - 1]]
  <2>1. c \in Ids /\ i \in 1 .. Len(InOrder) + 1
    BY <1>2
  <2>2. InsertAt(InOrder, i, c) =
            [k \in 1 .. Len(InOrder) + 1 |->
                IF k < i THEN InOrder[k] ELSE IF k = i THEN c ELSE InOrder[k - 1]]
    <3> HIDE DEF c
    <3> QED BY <1>4, <2>1, Inserting
  <2> QED BY <1>3, <2>2
<1>8. InsertAt(Listed, i, e) =
          [k \in 1 .. n + 1 |-> IF k < i THEN Listed[k] ELSE IF k = i THEN e ELSE Listed[k - 1]]
  <2> HIDE DEF e
  <2>1. i \in 1 .. Len(Listed) + 1
    BY <1>5
  <2>2. InsertAt(Listed, i, e) =
            [k \in 1 .. Len(Listed) + 1 |->
                IF k < i THEN Listed[k] ELSE IF k = i THEN e ELSE Listed[k - 1]]
    <3>1. Listed \in Seq(List!ListedCard)
      BY <1>5
    <3> QED BY <1>6, <2>1, <3>1, Inserting
  <2> QED BY <1>5, <2>2
<1>9. Written(r) = {c}
  <2>1. op[r].data # Nil
    BY <1>2, CardsAssumption
  <2> QED BY <2>1 DEF Written
<1>10. Listed' = [k \in 1 .. Len(as) |->
                     [id |-> as[k],
                      data |-> IF as[k] \in Written(r) THEN op[r].data ELSE cards[as[k]].data]]
  BY <1>1, ListedNext
<1> HIDE DEF as, n, e
<1>11. Len(as) = n + 1
  BY <1>4, <1>7
<1>12. ASSUME NEW k \in 1 .. n + 1
       PROVE  [id |-> as[k],
               data |-> IF as[k] \in Written(r) THEN op[r].data ELSE cards[as[k]].data]
                  = IF k < i THEN Listed[k] ELSE IF k = i THEN e ELSE Listed[k - 1]
  <2>1. CASE k < i
    <3>1. k \in 1 .. n /\ as[k] = InOrder[k]
      BY <1>4, <1>7, <2>1
    <3> QED BY <1>2, <1>4, <1>5, <1>9, <2>1, <3>1
  <2>2. CASE k = i
    <3>1. as[k] = c
      BY <1>7, <2>2
    <3> QED BY <1>9, <2>2, <3>1 DEF e
  <2>3. CASE k > i
    <3>1. k - 1 \in 1 .. n /\ as[k] = InOrder[k - 1] /\ ~(k < i) /\ k # i
      BY <1>4, <1>7, <2>3
    <3>2. Listed[k - 1] = [id |-> InOrder[k - 1], data |-> cards[InOrder[k - 1]].data]
      BY <1>5, <3>1
    <3> QED BY <1>2, <1>4, <1>9, <3>1, <3>2
  <2> QED BY <1>4, <2>1, <2>2, <2>3
<1>13. Listed' = InsertAt(Listed, i, e)
  BY <1>8, <1>10, <1>11, <1>12
<1>14. \A j \in DOMAIN Listed : Listed[j].id # e.id
  BY <1>2, <1>4, <1>5 DEF e
<1>15. List!Insert(e, i)
  BY <1>13, <1>14 DEF List!Insert, List!InsertAt, InsertAt
<1> QED BY <1>5, <1>6, <1>15 DEF n

\* deleteCard removes.
LEMMA DeleteRemoves ==
    ASSUME ListInv, NEW r \in Requests, CommitTx(r), op[r].kind = "delete"
    PROVE  \E i \in DOMAIN Listed : List!Delete(i)
<1> DEFINE n == Len(InOrder)
           as == Arranged(r)
           c == op[r].card
<1>1. Rearranges(r) /\ pc[r] = "commit" /\ ~stale[r]
  BY DEF Rearranges, CommitTx
<1>2. PICK i \in 1 .. n : InOrder[i] = c /\ as = RemoveAt(InOrder, i)
  BY <1>1, ArrangedOfKind
<1>3. InOrder \in Seq(Ids) /\ n \in Nat
  BY CardsInOrder DEF ListInv
<1>4. /\ Listed = [k \in 1 .. n |-> [id |-> InOrder[k], data |-> cards[InOrder[k]].data]]
      /\ Len(Listed) = n
  BY ListedCards DEF ListInv
<1>5. Listed \in Seq(List!ListedCard)
  BY ListedCards DEF ListInv
<1>6. as = [k \in 1 .. n - 1 |-> IF k < i THEN InOrder[k] ELSE InOrder[k + 1]]
  <2>1. RemoveAt(InOrder, i) =
            [k \in 1 .. Len(InOrder) - 1 |-> IF k < i THEN InOrder[k] ELSE InOrder[k + 1]]
    BY <1>3, Removing
  <2> QED BY <1>2, <2>1
<1>7. RemoveAt(Listed, i) = [k \in 1 .. n - 1 |-> IF k < i THEN Listed[k] ELSE Listed[k + 1]]
  <2>1. i \in 1 .. Len(Listed)
    BY <1>4
  <2>2. RemoveAt(Listed, i) =
            [k \in 1 .. Len(Listed) - 1 |-> IF k < i THEN Listed[k] ELSE Listed[k + 1]]
    BY <1>5, <2>1, Removing
  <2> QED BY <1>4, <2>2
<1>8. Written(r) = {}
  BY DEF Written
<1>9. Listed' = [k \in 1 .. Len(as) |->
                    [id |-> as[k],
                     data |-> IF as[k] \in Written(r) THEN op[r].data ELSE cards[as[k]].data]]
  BY <1>1, ListedNext
<1> HIDE DEF as, n
<1>10. Len(as) = n - 1
  <2>1. n - 1 \in Nat
    BY <1>2, <1>3
  <2> QED BY <1>6, <2>1
<1>11. ASSUME NEW k \in 1 .. n - 1
       PROVE  [id |-> as[k],
               data |-> IF as[k] \in Written(r) THEN op[r].data ELSE cards[as[k]].data]
                  = IF k < i THEN Listed[k] ELSE Listed[k + 1]
  <2>1. k \in 1 .. n /\ k + 1 \in 1 .. n
    BY <1>3
  <2>2. as[k] = IF k < i THEN InOrder[k] ELSE InOrder[k + 1]
    BY <1>6
  <2>3. /\ Listed[k] = [id |-> InOrder[k], data |-> cards[InOrder[k]].data]
        /\ Listed[k + 1] = [id |-> InOrder[k + 1], data |-> cards[InOrder[k + 1]].data]
    BY <1>4, <2>1
  <2> QED BY <1>8, <2>2, <2>3
<1>12. Listed' = RemoveAt(Listed, i)
  BY <1>7, <1>9, <1>10, <1>11
<1>13. i \in DOMAIN Listed
  BY <1>4
<1> QED BY <1>12, <1>13 DEF List!Delete, List!RemoveAt, RemoveAt

\* The list s with e, at position j, instead of its i-th element.
Moved(s, i, j, e) ==
    [k \in 1 .. Len(s) |->
        IF k = j THEN e
        ELSE LET m == IF k < j THEN k ELSE k - 1
             IN  IF m < i THEN s[m] ELSE s[m + 1]]

\* To take an element out and put another one in.
LEMMA Relocating ==
    ASSUME NEW S, NEW s \in Seq(S), NEW i \in 1 .. Len(s), NEW j \in 1 .. Len(s), NEW e \in S
    PROVE  InsertAt(RemoveAt(s, i), j, e) = Moved(s, i, j, e)
<1> DEFINE n == Len(s)
           t == RemoveAt(s, i)
<1>1. t = [k \in 1 .. n - 1 |-> IF k < i THEN s[k] ELSE s[k + 1]]
  BY Removing
<1>2. s \in [1 .. n -> S] /\ n \in Nat
  OBVIOUS
<1>3. i \in 1 .. n /\ j \in 1 .. n
  OBVIOUS
<1> HIDE DEF t, n
<1>4. t \in Seq(S) /\ Len(t) = n - 1
  <2>1. n - 1 \in Nat
    BY <1>2, <1>3
  <2>2. \A k \in 1 .. n - 1 : (IF k < i THEN s[k] ELSE s[k + 1]) \in S
    BY <1>2, <1>3
  <2>3. t \in [1 .. n - 1 -> S]
    BY <1>1, <2>2
  <2> QED BY <2>1, <2>3
<1>5. j \in 1 .. Len(t) + 1 /\ Len(t) + 1 = n
  BY <1>2, <1>3, <1>4
<1>6. InsertAt(t, j, e) =
          [k \in 1 .. Len(t) + 1 |-> IF k < j THEN t[k] ELSE IF k = j THEN e ELSE t[k - 1]]
  BY <1>4, <1>5, Inserting
<1>7. ASSUME NEW k \in 1 .. n
      PROVE  (IF k < j THEN t[k] ELSE IF k = j THEN e ELSE t[k - 1]) =
                 IF k = j THEN e
                 ELSE LET m == IF k < j THEN k ELSE k - 1
                      IN  IF m < i THEN s[m] ELSE s[m + 1]
  <2>1. CASE k < j
    <3>1. k \in 1 .. n - 1 /\ k # j
      BY <1>2, <1>3, <2>1
    <3> QED BY <1>1, <2>1, <3>1
  <2>2. CASE k = j
    BY <1>2, <1>3, <2>2
  <2>3. CASE k > j
    <3>1. k - 1 \in 1 .. n - 1 /\ k # j /\ ~(k < j)
      BY <1>2, <1>3, <2>3
    <3> QED BY <1>1, <3>1
  <2> QED BY <1>2, <1>3, <2>1, <2>2, <2>3
<1> QED BY <1>5, <1>6, <1>7 DEF Moved, t, n

\* What Update makes of the list, card by card.
LEMMA ListUpdated ==
    ASSUME ListInv, NEW i \in DOMAIN Listed, NEW j \in DOMAIN Listed, NEW x \in Texts,
           Listed' = Moved(Listed, i, j, [id |-> InOrder[i], data |-> x])
    PROVE  List!Update(i, x, j)
<1> DEFINE e == [id |-> InOrder[i], data |-> x]
<1>1. /\ Listed \in Seq(List!ListedCard)
      /\ Listed = [k \in 1 .. Len(InOrder) |->
                      [id |-> InOrder[k], data |-> cards[InOrder[k]].data]]
      /\ i \in 1 .. Len(Listed) /\ j \in 1 .. Len(Listed)
  BY ListedCards DEF ListInv
<1>2. [id |-> Listed[i].id, data |-> x] = e
  BY <1>1
<1>3. e \in List!ListedCard
  <2>1. Listed[i] \in List!ListedCard
    BY <1>1
  <2>2. Listed[i].id \in Ids
    BY <2>1 DEF List!ListedCard
  <2> QED BY <1>2, <2>2 DEF List!ListedCard
<1> HIDE DEF e
<1>4. InsertAt(RemoveAt(Listed, i), j, e) = Moved(Listed, i, j, e)
  BY <1>1, <1>3, Relocating
<1>5. Listed' = InsertAt(RemoveAt(Listed, i), j, [id |-> Listed[i].id, data |-> x])
  BY <1>2, <1>4 DEF e
<1> QED BY <1>5 DEF List!Update, List!InsertAt, List!RemoveAt, InsertAt, RemoveAt

\* updateCard with a new position moves the card, and may rewrite it.
LEMMA UpdateMoves ==
    ASSUME ListInv, NEW r \in Requests, CommitTx(r), op[r].kind = "update", Rearranges(r)
    PROVE  \E i, j \in DOMAIN Listed, x \in Texts : List!Update(i, x, j)
<1> DEFINE n == Len(InOrder)
           as == Arranged(r)
           c == op[r].card
           x == IF op[r].data # Nil THEN op[r].data ELSE cards[c].data
<1>1. pc[r] = "commit" /\ ~stale[r]
  BY DEF CommitTx
<1>2. PICK i, j \in 1 .. n :
          InOrder[i] = c /\ as = InsertAt(RemoveAt(InOrder, i), j, c)
  BY <1>1, ArrangedOfKind
<1>3. c \in DOMAIN cards /\ op[r].data \in Texts \cup {Nil}
  BY <1>1, ArrangedOfKind
<1>4. /\ n \in Nat /\ cards \in [DOMAIN cards -> Card]
      /\ IsInjective(InOrder) /\ DOMAIN InOrder = 1 .. n
  BY CardsInOrder DEF ListInv
<1>5. /\ Listed = [k \in 1 .. n |-> [id |-> InOrder[k], data |-> cards[InOrder[k]].data]]
      /\ DOMAIN Listed = 1 .. n
  BY ListedCards DEF ListInv
<1>6. x \in Texts
  BY <1>3, <1>4 DEF Card
<1>7. as = Moved(InOrder, i, j, c)
  <2>1. InOrder \in Seq(Ids) /\ c \in Ids
    BY <1>2, CardsInOrder DEF ListInv
  <2>2. i \in 1 .. Len(InOrder) /\ j \in 1 .. Len(InOrder)
    BY <1>2
  <2>3. InsertAt(RemoveAt(InOrder, i), j, c) = Moved(InOrder, i, j, c)
    <3> HIDE DEF c
    <3> QED BY <2>1, <2>2, Relocating
  <2> QED BY <1>2, <2>3
<1>8. Written(r) = IF op[r].data # Nil THEN {c} ELSE {}
  BY DEF Written
<1>9. Listed' = [k \in 1 .. Len(as) |->
                    [id |-> as[k],
                     data |-> IF as[k] \in Written(r) THEN op[r].data ELSE cards[as[k]].data]]
  BY <1>1, ListedNext
<1> HIDE DEF as, x
<1>10. as = [k \in 1 .. n |->
                IF k = j THEN c
                ELSE LET m == IF k < j THEN k ELSE k - 1
                     IN  IF m < i THEN InOrder[m] ELSE InOrder[m + 1]]
  BY <1>7 DEF Moved
<1> HIDE DEF n
<1>11. Len(as) = n
  BY <1>4, <1>10
<1>12. ASSUME NEW k \in 1 .. n
       PROVE  [id |-> as[k],
               data |-> IF as[k] \in Written(r) THEN op[r].data ELSE cards[as[k]].data]
                  = IF k = j THEN [id |-> InOrder[i], data |-> x]
                    ELSE LET m == IF k < j THEN k ELSE k - 1
                         IN  IF m < i THEN Listed[m] ELSE Listed[m + 1]
  <2>1. CASE k = j
    <3>1. as[k] = c /\ InOrder[i] = c
      BY <1>2, <1>10, <2>1
    <3>2. (IF as[k] \in Written(r) THEN op[r].data ELSE cards[as[k]].data) = x
      BY <1>8, <3>1 DEF x
    <3> QED BY <2>1, <3>1, <3>2
  <2>2. CASE k # j
    <3> DEFINE m == IF k < j THEN k ELSE k - 1
               p == IF m < i THEN m ELSE m + 1
    <3>1. p \in 1 .. n /\ p # i
      BY <1>2, <1>4, <2>2
    <3>2. as[k] = InOrder[p]
      BY <1>10, <2>2
    <3>3. (IF m < i THEN Listed[m] ELSE Listed[m + 1]) = Listed[p]
      OBVIOUS
    <3> HIDE DEF m, p
    <3>4. InOrder[p] # c
      BY <1>2, <1>4, <3>1 DEF IsInjective
    <3>5. Listed[p] = [id |-> InOrder[p], data |-> cards[InOrder[p]].data]
      BY <1>5, <3>1
    <3>6. [id |-> as[k],
           data |-> IF as[k] \in Written(r) THEN op[r].data ELSE cards[as[k]].data] = Listed[p]
      BY <1>8, <3>2, <3>4, <3>5
    <3> QED BY <2>2, <3>3, <3>6 DEF m
  <2> QED BY <2>1, <2>2
<1>13. Len(Listed) = n
  BY <1>4, <1>5
<1>14. Listed' = Moved(Listed, i, j, [id |-> InOrder[i], data |-> x])
  BY <1>9, <1>11, <1>12, <1>13 DEF Moved
<1>15. List!Update(i, x, j)
  <2>1. i \in DOMAIN Listed /\ j \in DOMAIN Listed
    BY <1>5
  <2> QED BY <1>6, <1>14, <2>1, ListUpdated
<1> QED BY <1>5, <1>6, <1>15

\* updateCard without one rewrites the card where it is, if the card still exists.
LEMMA UpdateStays ==
    ASSUME ListInv, NEW r \in Requests, CommitTx(r), ~Rearranges(r)
    PROVE  \/ UNCHANGED Listed
           \/ \E i, j \in DOMAIN Listed, x \in Texts : List!Update(i, x, j)
<1> DEFINE n == Len(InOrder)
           c == op[r].card
<1>1. /\ op[r].kind = "update"
      /\ op[r].data \in Texts \cup {Nil}
      /\ cards' = [d \in DOMAIN cards |->
                      [order |-> cards[d].order,
                       data  |-> IF d \in Written(r) THEN op[r].data ELSE cards[d].data]]
  BY RewrittenCards
<1>2. /\ InOrder \in Seq(Ids) /\ IsInjective(InOrder) /\ ToSet(InOrder) = DOMAIN cards
      /\ n \in Nat /\ DOMAIN InOrder = 1 .. n
      /\ \A k \in 1 .. n : InOrder[k] \in DOMAIN cards /\ cards[InOrder[k]].order = k - 1
      /\ \A d \in DOMAIN cards : cards[d].order \in 0 .. n - 1 /\ InOrder[cards[d].order + 1] = d
  BY CardsInOrder DEF ListInv
<1>3. /\ Listed = [k \in 1 .. n |-> [id |-> InOrder[k], data |-> cards[InOrder[k]].data]]
      /\ DOMAIN Listed = 1 .. n
  BY ListedCards DEF ListInv
<1>4. Written(r) = IF op[r].data # Nil THEN {c} ELSE {}
  BY <1>1 DEF Written
<1> HIDE DEF n
<1>5. Listed' = [k \in 1 .. n |->
                    [id |-> InOrder[k],
                     data |-> IF InOrder[k] \in Written(r) THEN op[r].data
                              ELSE cards[InOrder[k]].data]]
  <2>1. DOMAIN cards' = ToSet(InOrder)
    BY <1>1, <1>2
  <2>2. \A k \in 1 .. n :
            /\ cards'[InOrder[k]].order = k - 1
            /\ cards'[InOrder[k]].data = IF InOrder[k] \in Written(r) THEN op[r].data
                                         ELSE cards[InOrder[k]].data
    BY <1>1, <1>2
  <2>3. ListOf(cards') = [k \in 1 .. n |-> [id |-> InOrder[k], data |-> cards'[InOrder[k]].data]]
    BY <1>2, <2>1, <2>2, ListOfTable DEF n
  <2>4. Listed' = ListOf(cards')
    BY DEF Listed, ListOf
  <2> QED BY <2>2, <2>3, <2>4
<1>6. CASE op[r].data = Nil \/ c \notin DOMAIN cards
  <2>1. \A k \in 1 .. n : InOrder[k] \notin Written(r)
    BY <1>2, <1>4, <1>6
  <2> QED BY <1>3, <1>5, <2>1
<1>7. CASE op[r].data # Nil /\ c \in DOMAIN cards
  <2> DEFINE i == cards[c].order + 1
             x == op[r].data
  <2>1. i \in 1 .. n /\ InOrder[i] = c
    BY <1>2, <1>7
  <2>2. x \in Texts
    BY <1>1, <1>7
  <2> HIDE DEF i, x
  <2>4. ASSUME NEW k \in 1 .. n
        PROVE  [id |-> InOrder[k],
                data |-> IF InOrder[k] \in Written(r) THEN x ELSE cards[InOrder[k]].data]
                   = IF k = i THEN [id |-> InOrder[i], data |-> x]
                     ELSE LET m == IF k < i THEN k ELSE k - 1
                          IN  IF m < i THEN Listed[m] ELSE Listed[m + 1]
    <3>1. CASE k = i
      BY <1>4, <1>7, <2>1, <3>1
    <3>2. CASE k # i
      <4>1. InOrder[k] # c
        BY <1>2, <2>1, <3>2 DEF IsInjective
      <4>2. InOrder[k] \notin Written(r)
        BY <1>4, <4>1
      <4>3. Listed[k] = [id |-> InOrder[k], data |-> cards[InOrder[k]].data]
        BY <1>3
      <4>4. (LET m == IF k < i THEN k ELSE k - 1
             IN  IF m < i THEN Listed[m] ELSE Listed[m + 1]) = Listed[k]
        <5>1. CASE k < i
          BY <1>2, <5>1
        <5>2. CASE k > i
          <6>1. ~(k < i) /\ ~(k - 1 < i) /\ (k - 1) + 1 = k
            BY <1>2, <2>1, <5>2
          <6> QED BY <6>1
        <5> QED BY <1>2, <2>1, <3>2, <5>1, <5>2
      <4> QED BY <3>2, <4>2, <4>3, <4>4
    <3> QED BY <3>1, <3>2
  <2>3. Len(Listed) = n
    BY <1>2, <1>3
  <2>5. Listed' = Moved(Listed, i, i, [id |-> InOrder[i], data |-> x])
    BY <1>5, <2>3, <2>4 DEF Moved, x
  <2>6. List!Update(i, x, i)
    BY <1>3, <2>1, <2>2, <2>5, ListUpdated
  <2> QED BY <1>3, <2>1, <2>2, <2>6
<1> QED BY <1>6, <1>7

\* reorderCards permutes.
LEMMA ReorderPermutes ==
    ASSUME ListInv, NEW r \in Requests, CommitTx(r), op[r].kind = "reorder"
    PROVE  \E p \in [DOMAIN Listed -> DOMAIN Listed] : List!Reorder(p)
<1> DEFINE n == Len(InOrder)
           as == Arranged(r)
<1>1. Rearranges(r) /\ pc[r] = "commit" /\ ~stale[r]
  BY DEF Rearranges, CommitTx
<1>2. as \in Seq(Ids) /\ IsInjective(as) /\ ToSet(as) = DOMAIN cards
  BY <1>1, ArrangedOfKind
<1>3. /\ n \in Nat /\ n = Cardinality(DOMAIN cards)
      /\ \A d \in DOMAIN cards : cards[d].order \in 0 .. n - 1 /\ InOrder[cards[d].order + 1] = d
      /\ \A c, d \in DOMAIN cards : cards[c].order = cards[d].order => c = d
  BY CardsInOrder DEF ListInv
<1>4. Listed = [k \in 1 .. n |-> [id |-> InOrder[k], data |-> cards[InOrder[k]].data]]
  BY ListedCards DEF ListInv
<1>5. Listed' = [k \in 1 .. Len(as) |->
                    [id |-> as[k],
                     data |-> IF as[k] \in Written(r) THEN op[r].data ELSE cards[as[k]].data]]
  BY <1>1, ListedNext
<1>6. Written(r) = {}
  BY DEF Written
<1> HIDE DEF as, n
<1>7. Len(as) = n
  BY <1>2, <1>3, Numbering
<1>8. \A k \in 1 .. n : as[k] \in DOMAIN cards
  <2>1. DOMAIN as = 1 .. n
    BY <1>2, <1>7
  <2> QED BY <1>2, <2>1 DEF ToSet
<1> DEFINE p == [k \in 1 .. n |-> cards[as[k]].order + 1]
<1>9. ASSUME NEW k \in 1 .. n PROVE p[k] \in 1 .. n /\ InOrder[p[k]] = as[k]
  <2>1. cards[as[k]].order \in 0 .. n - 1 /\ InOrder[cards[as[k]].order + 1] = as[k]
    BY <1>3, <1>8
  <2>2. p[k] = cards[as[k]].order + 1
    OBVIOUS
  <2> HIDE DEF p
  <2>3. p[k] \in 1 .. n
    <3> DEFINE o == cards[as[k]].order
    <3>1. n \in Nat /\ o \in 0 .. n - 1 /\ p[k] = o + 1
      BY <1>3, <2>1, <2>2
    <3> HIDE DEF o
    <3> QED BY <3>1
  <2> QED BY <2>1, <2>2, <2>3
<1>10. ASSUME NEW k \in 1 .. n, NEW l \in 1 .. n, k # l PROVE p[k] # p[l]
  <2>1. as[k] # as[l]
    <3>1. DOMAIN as = 1 .. n
      BY <1>2, <1>7
    <3> QED BY <1>2, <1>10, <3>1 DEF IsInjective
  <2>2. InOrder[p[k]] = as[k] /\ InOrder[p[l]] = as[l]
    <3> HIDE DEF p
    <3> QED BY <1>9
  <2> HIDE DEF p
  <2> QED BY <2>1, <2>2
<1>11. p \in [1 .. n -> 1 .. n]
  BY <1>9
<1> HIDE DEF p
<1>12. p \in [DOMAIN Listed -> DOMAIN Listed]
  BY <1>4, <1>11
<1>13. Listed' = [k \in DOMAIN Listed |-> Listed[p[k]]]
  <2>1. DOMAIN Listed = 1 .. n
    BY <1>4
  <2>2. ASSUME NEW k \in 1 .. n
        PROVE  [id |-> as[k],
                data |-> IF as[k] \in Written(r) THEN op[r].data ELSE cards[as[k]].data]
                   = Listed[p[k]]
    <3>1. Listed[p[k]] = [id |-> InOrder[p[k]], data |-> cards[InOrder[p[k]]].data]
      BY <1>4, <1>9
    <3> QED BY <1>6, <1>9, <3>1
  <2> QED BY <1>5, <1>7, <2>1, <2>2
<1>14. \A k, l \in DOMAIN Listed : p[k] = p[l] => k = l
  <2>1. DOMAIN Listed = 1 .. n
    BY <1>4
  <2> QED BY <1>10, <2>1
<1> QED BY <1>12, <1>13, <1>14 DEF List!Reorder

\* For any number of requests, cards and operations: Cards implements CardList, that is, each
\* card edit takes effect at once on the cards as they are, or not at all
\* (news.service.ts:1450-1452).
THEOREM Refinement ==
    Spec => EditsAreAtomic
<1>1. Init => List!Init
  <2> SUFFICES ASSUME Init PROVE Listed = << >>
    BY DEF List!Init
  <2>1. DOMAIN cards = {} /\ Cardinality({}) = 0
    BY FS_EmptySet DEF Init
  <2> QED BY <2>1 DEF Listed
<1>2. ListInv /\ [Next]_vars => [List!Next]_Listed
  <2> SUFFICES ASSUME ListInv, [Next]_vars, ~UNCHANGED Listed PROVE List!Next
    OBVIOUS
  <2>1. PICK r \in Requests : CommitTx(r)
    <3>1. cards' # cards
      <4> SUFFICES ASSUME cards' = cards PROVE FALSE
        OBVIOUS
      <4>1. Listed' = Listed
        BY DEF Listed
      <4> QED BY <4>1
    <3> QED BY <3>1 DEF Next, vars, Receive, Begin, DuplicateOrder, Retry, Find, ReadCards, Publish,
                 Withdraw, SoftDelete, Refuse, Crash
  <2>2. op[r].kind \in {"create", "update", "delete", "reorder"}
    BY <2>1 DEF CommitTx, ListInv, Carries, Edits
  <2>3. CASE op[r].kind = "create"
    BY <2>1, <2>3, CreateInserts DEF List!Next
  <2>4. CASE op[r].kind = "update"
    <3>1. \E i, j \in DOMAIN Listed, x \in Texts : List!Update(i, x, j)
      BY <2>1, <2>4, UpdateMoves, UpdateStays
    <3> QED BY <3>1 DEF List!Next
  <2>5. CASE op[r].kind = "delete"
    BY <2>1, <2>5, DeleteRemoves DEF List!Next
  <2>6. CASE op[r].kind = "reorder"
    BY <2>1, <2>6, ReorderPermutes DEF List!Next
  <2> QED BY <2>2, <2>3, <2>4, <2>5, <2>6
<1> QED BY <1>1, <1>2, ListInvariance, PTL DEF Spec, EditsAreAtomic, List!Spec
==============================================================================
