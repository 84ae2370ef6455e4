------------------------------- MODULE Cards -------------------------------
(***************************************************************************)
(* One article of NewsService and its cards.  Editing the cards is a       *)
(* SERIALIZABLE transaction; publishing, which compiles the cards into the *)
(* article's body, is three statements outside of any transaction.         *)
(*                                                                         *)
(* PostgreSQL is external.  It refuses a transaction whose rows, or whose  *)
(* reading of the list, another transaction has changed since its          *)
(* snapshot, and may refuse any other; it takes no account of statements   *)
(* outside SERIALIZABLE transactions.  The unique index on (article,       *)
(* order) is checked as each row of an UPDATE is written.                  *)
(***************************************************************************)
EXTENDS Naturals, FiniteSets, SequencesExt

CONSTANTS
    Ids, Texts,    \* ids of cards, and what a card says
    Operations,    \* what editors ask for
    Requests,      \* requests in progress at the same time
    RetryLimit,    \* SERIALIZABLE_RETRY_LIMIT
    Faults,        \* whether processes die
    Nil

\* A position, or data, that is Nil is not given.
Operation ==
    [kind : {"create"}, card : Ids, data : Texts, at : Nat \cup {Nil}]
        \cup [kind : {"update"}, card : Ids, data : Texts \cup {Nil}, at : Nat \cup {Nil}]
        \cup [kind : {"delete"}, card : Ids]
        \cup [kind : {"reorder"}, list : Seq(Ids) \ {<< >>}]
        \cup [kind : {"publish", "revert", "archive", "remove"}]

ASSUME CardsAssumption ==
    /\ IsFiniteSet(Ids)
    /\ Operations \subseteq Operation
    /\ RetryLimit \in Nat \ {0}
    /\ Faults \in BOOLEAN
    /\ Nil \notin Nat \cup Texts
    /\ \A S \in SUBSET Ids : Nil \notin [S -> Nat]

VARIABLES
    cards,     \* article_cards: order and data of each card of the article
    minted,    \* history: the ids that have been given to cards
    status,    \* of the article
    deleted,   \* its deletedAt is set
    body,      \* what publish compiled last
    raced,     \* history: an edit was committed or open while publish was at work
    pc,        \* the step each request is at
    op,        \* the operation it was sent with
    snap,      \* the order of the cards in its transaction's snapshot
    stale,     \* a conflicting transaction has committed since
    attempt,   \* transactions it has started
    read       \* what publish has compiled

article == <<status, deleted, body, raced>>
txVars == <<snap, stale, attempt>>
vars == <<cards, minted, article, pc, op, txVars, read>>

Card == [order : Nat, data : Texts]

Edits == {"create", "update", "delete", "reorder"}

Steps == {"idle", "begin", "commit", "find", "read", "write"}

Init ==
    /\ cards = << >>
    /\ minted = {}
    /\ status = "DRAFT"
    /\ deleted = FALSE
    /\ body = Nil
    /\ raced = FALSE
    /\ pc = [r \in Requests |-> "idle"]
    /\ op = [r \in Requests |-> Nil]
    /\ snap = [r \in Requests |-> Nil]
    /\ stale = [r \in Requests |-> FALSE]
    /\ attempt = [r \in Requests |-> 0]
    /\ read = [r \in Requests |-> Nil]

------------------------------------------------------------------------------
(* Lists of cards. *)

\* Variant: descending.
ListingFromTheEnd(order) ==
    [i \in 1 .. Cardinality(DOMAIN order) |->
        CHOOSE c \in DOMAIN order :
            Cardinality({d \in DOMAIN order : order[d] > order[c]}) = i - 1]

\* ORDER BY "order".
Listing(order) ==
    [i \in 1 .. Cardinality(DOMAIN order) |->
        CHOOSE c \in DOMAIN order :
            Cardinality({d \in DOMAIN order : order[d] < order[c]}) = i - 1]

Orders(table) == [c \in DOMAIN table |-> table[c].order]

\* compileCards.
Compiled(table) ==
    LET ids == Listing(Orders(table))
    IN  [i \in DOMAIN ids |-> table[ids[i]].data]

\* updateCard changes the order only if it differs.
Rearranges(r) ==
    op[r].kind = "update" => op[r].at \notin {Nil, snap[r][op[r].card]}

Without(ids, c) == RemoveAt(ids, CHOOSE i \in DOMAIN ids : ids[i] = c)

\* The list persistCardOrder is called with.
Arranged(r) ==
    LET ids == Listing(snap[r])
    IN  CASE op[r].kind = "create" ->
               InsertAt(ids, IF op[r].at = Nil THEN Len(ids) + 1 ELSE op[r].at + 1, op[r].card)
          [] op[r].kind = "update" ->
               InsertAt(Without(ids, op[r].card), op[r].at + 1, op[r].card)
          [] op[r].kind = "delete" -> Without(ids, op[r].card)
          [] op[r].kind = "reorder" -> op[r].list

\* The position persistCardOrder gives to each card of the list.
PositionsIn(ids) == [c \in ToSet(ids) |-> CHOOSE i \in 0 .. Len(ids) - 1 : ids[i + 1] = c]

NewOrder(r) == PositionsIn(Arranged(r))

Deletes(r) == IF op[r].kind = "delete" THEN {op[r].card} ELSE {}

\* c takes the position that d holds.
Displaces(order, c, d) == c # d /\ d \in DOMAIN cards /\ cards[d].order = order[c]

\* There is an order of the rows in which each one finds its new position free.  The new
\* card holds a position beyond all others (CARD_ORDER_TEMP_OFFSET).
CanPersist(order, gone) ==
    /\ \A c \in DOMAIN order, d \in DOMAIN cards \ (DOMAIN order \cup gone) :
           ~Displaces(order, c, d)
    /\ \A S \in (SUBSET DOMAIN order) \ {{}} :
           \E c \in S : \A d \in S : ~Displaces(order, c, d)

\* The rows a transaction writes, all of the article's as soon as it rearranges them.
Writes(r) ==
    IF Rearranges(r) THEN DOMAIN snap[r]
    ELSE IF op[r].data # Nil THEN {op[r].card} ELSE {}

\* PostgreSQL must not commit both.
Conflict(r, s) ==
    \/ Rearranges(r) /\ Rearranges(s)
    \/ Writes(r) \cap Writes(s) # {}

------------------------------------------------------------------------------
(* Card edits. *)

Idle(r) ==
    /\ pc' = [pc EXCEPT ![r] = "idle"]
    /\ op' = [op EXCEPT ![r] = Nil]
    /\ snap' = [snap EXCEPT ![r] = Nil]
    /\ attempt' = [attempt EXCEPT ![r] = 0]
    /\ read' = [read EXCEPT ![r] = Nil]

\* createCard's id is a new UUID; the other edits name a card that has existed.
Receive(r, o) ==
    /\ pc[r] = "idle"
    /\ o.kind = "create" => o.card \notin minted
    /\ o.kind \in {"update", "delete"} => o.card \in minted
    /\ minted' = IF o.kind = "create" THEN minted \cup {o.card} ELSE minted
    /\ pc' = [pc EXCEPT ![r] = IF o.kind \in Edits THEN "begin" ELSE "find"]
    /\ op' = [op EXCEPT ![r] = o]
    /\ attempt' = [attempt EXCEPT ![r] = IF o.kind \in Edits THEN 1 ELSE 0]
    /\ UNCHANGED <<cards, article, snap, stale, read>>

\* Variant: the article's status is not checked.
AllowedWhenever(o) ==
    LET size == Cardinality(DOMAIN cards)
    IN  /\ ~deleted
        /\ o.kind = "create" => o.at \in {Nil} \cup 0 .. size
        /\ o.kind \in {"update", "delete"} => o.card \in DOMAIN cards
        /\ o.kind = "update" => o.at \in {Nil, cards[o.card].order} \cup 0 .. size - 1
        /\ o.kind = "reorder" =>
               /\ IsInjective(o.list)
               /\ ToSet(o.list) = DOMAIN cards

\* The checks of the transaction, on its snapshot.
Allowed(o) ==
    LET size == Cardinality(DOMAIN cards)
    IN  /\ ~deleted
        /\ status # "PUBLISHED"
        /\ o.kind = "create" => o.at \in {Nil} \cup 0 .. size
        /\ o.kind \in {"update", "delete"} => o.card \in DOMAIN cards
        /\ o.kind = "update" => o.at \in {Nil, cards[o.card].order} \cup 0 .. size - 1
        /\ o.kind = "reorder" =>
               /\ IsInjective(o.list)
               /\ ToSet(o.list) = DOMAIN cards

Begin(r) ==
    /\ pc[r] = "begin"
    /\ Allowed(op[r])
    /\ pc' = [pc EXCEPT ![r] = "commit"]
    /\ snap' = [snap EXCEPT ![r] = Orders(cards)]
    /\ stale' = [stale EXCEPT ![r] = FALSE]
    /\ UNCHANGED <<cards, minted, article, op, attempt, read>>

\* What the transaction leaves of the cards: order maps those it has arranged.
Committed(r, order) ==
    LET created == IF op[r].kind = "create" THEN {op[r].card} ELSE {}
        written == IF op[r].kind \in {"create", "update"} /\ op[r].data # Nil
                   THEN {op[r].card} ELSE {}
    IN  [c \in (DOMAIN cards \cup created) \ Deletes(r) |->
            [order |-> IF c \in DOMAIN order THEN order[c] ELSE cards[c].order,
             data  |-> IF c \in written THEN op[r].data ELSE cards[c].data]]

\* createCard, updateCard, deleteCard and reorderCards write and commit.
Apply(r) ==
    LET order == IF Rearranges(r) THEN NewOrder(r) ELSE << >>
    IN  /\ CanPersist(order, Deletes(r))
        /\ cards' = Committed(r, order)
        /\ stale' = [s \in Requests |->
                        s # r /\ pc[s] = "commit" /\ (stale[s] \/ Conflict(r, s))]
        /\ Idle(r)
        /\ UNCHANGED <<minted, article>>

\* Variant: READ COMMITTED.
CommitAnyway(r) == pc[r] = "commit" /\ Apply(r)

CommitTx(r) == pc[r] = "commit" /\ ~stale[r] /\ Apply(r)

\* A row takes a position that another one still holds: the UPDATE fails, and with it
\* the transaction; this error is not retried.
DuplicateOrder(r) ==
    /\ pc[r] = "commit"
    /\ Rearranges(r)
    /\ \E c \in ToSet(Arranged(r)), d \in DOMAIN cards \ Deletes(r) :
           Displaces(NewOrder(r), c, d)
    /\ Idle(r)
    /\ stale' = [stale EXCEPT ![r] = FALSE]
    /\ UNCHANGED <<cards, minted, article>>

\* Variant: one attempt too many.
RetryOnceMore(r) ==
    /\ pc[r] = "commit"
    /\ attempt[r] <= RetryLimit
    /\ pc' = [pc EXCEPT ![r] = "begin"]
    /\ snap' = [snap EXCEPT ![r] = Nil]
    /\ stale' = [stale EXCEPT ![r] = FALSE]
    /\ attempt' = [attempt EXCEPT ![r] = @ + 1]
    /\ UNCHANGED <<cards, minted, article, op, read>>

\* P2034: the transaction is rolled back and tried again.
Retry(r) ==
    /\ pc[r] = "commit"
    /\ attempt[r] < RetryLimit
    /\ pc' = [pc EXCEPT ![r] = "begin"]
    /\ snap' = [snap EXCEPT ![r] = Nil]
    /\ stale' = [stale EXCEPT ![r] = FALSE]
    /\ attempt' = [attempt EXCEPT ![r] = @ + 1]
    /\ UNCHANGED <<cards, minted, article, op, read>>

------------------------------------------------------------------------------
(* The article. *)

\* findArticleOrThrow.
Find(r) ==
    /\ pc[r] = "find"
    /\ ~deleted
    /\ pc' = [pc EXCEPT ![r] = IF op[r].kind = "publish" THEN "read" ELSE "write"]
    /\ UNCHANGED <<cards, minted, article, op, txVars, read>>

ReadCards(r) ==
    /\ pc[r] = "read"
    /\ pc' = [pc EXCEPT ![r] = "write"]
    /\ read' = [read EXCEPT ![r] = Compiled(cards)]
    /\ UNCHANGED <<cards, minted, article, op, txVars>>

Publish(r) ==
    /\ pc[r] = "write"
    /\ op[r].kind = "publish"
    /\ ~deleted
    /\ status # "PUBLISHED"
    /\ status' = "PUBLISHED"
    /\ body' = read[r]
    /\ raced' = (read[r] # Compiled(cards) \/ \E s \in Requests : pc[s] = "commit")
    /\ Idle(r)
    /\ UNCHANGED <<cards, minted, deleted, stale>>

\* revertToDraft and archive.
Withdraw(r) ==
    /\ pc[r] = "write"
    /\ op[r].kind \in {"revert", "archive"}
    /\ ~deleted
    /\ status = "PUBLISHED"
    /\ status' = IF op[r].kind = "revert" THEN "DRAFT" ELSE "ARCHIVED"
    /\ Idle(r)
    /\ raced' = FALSE
    /\ UNCHANGED <<cards, minted, deleted, body, stale>>

\* softDelete sets deletedAt whatever has happened since the article was found.
SoftDelete(r) ==
    /\ pc[r] = "write"
    /\ op[r].kind = "remove"
    /\ deleted' = TRUE
    /\ Idle(r)
    /\ UNCHANGED <<cards, minted, status, body, raced, stale>>

\* 404, 400 or 409 from the checks; 400, or 409 from publish, for a card that refers to an
\* article that is not published; P2034 on the last attempt; P2025 from a conditional
\* UPDATE.
Refuse(r) ==
    /\ \/ pc[r] = "begin" /\ ~Allowed(op[r])
       \/ pc[r] = "begin" /\ op[r].kind \in {"create", "update"}
       \/ pc[r] = "commit" /\ attempt[r] = RetryLimit
       \/ pc[r] = "find" /\ deleted
       \/ pc[r] = "read" /\ DOMAIN cards # {}
       \/ pc[r] = "write" /\ op[r].kind = "publish" /\ (deleted \/ status = "PUBLISHED")
       \/ /\ pc[r] = "write"
          /\ op[r].kind \in {"revert", "archive"}
          /\ deleted \/ status # "PUBLISHED"
    /\ Idle(r)
    /\ stale' = [stale EXCEPT ![r] = FALSE]
    /\ UNCHANGED <<cards, minted, article>>

\* The process dies, or a statement fails with another error; an open transaction is
\* rolled back.
Crash(r) ==
    /\ Faults
    /\ pc[r] # "idle"
    /\ Idle(r)
    /\ stale' = [stale EXCEPT ![r] = FALSE]
    /\ UNCHANGED <<cards, minted, article>>

Next ==
    \E r \in Requests :
        \/ \E o \in Operations : Receive(r, o)
        \/ Begin(r)
        \/ CommitTx(r)
        \/ DuplicateOrder(r)
        \/ Retry(r)
        \/ Find(r)
        \/ ReadCards(r)
        \/ Publish(r)
        \/ Withdraw(r)
        \/ SoftDelete(r)
        \/ Refuse(r)
        \/ Crash(r)

Spec == Init /\ [][Next]_vars

------------------------------------------------------------------------------
(* Properties. *)

\* Every variable has its type; only card edits open transactions, at most RetryLimit.
TypeOK ==
    /\ \E S \in SUBSET minted : cards \in [S -> Card]
    /\ minted \subseteq Ids
    /\ status \in {"DRAFT", "PUBLISHED", "ARCHIVED"}
    /\ deleted \in BOOLEAN
    /\ body \in Seq(Texts) \cup {Nil}
    /\ raced \in BOOLEAN
    /\ pc \in [Requests -> Steps]
    /\ op \in [Requests -> Operation \cup {Nil}]
    /\ stale \in [Requests -> BOOLEAN]
    /\ attempt \in [Requests -> 0 .. RetryLimit]
    /\ \A r \in Requests :
           /\ pc[r] = "commit" <=> snap[r] # Nil
           /\ pc[r] = "commit" => \E S \in SUBSET minted : snap[r] \in [S -> Nat]
           /\ read[r] \in Seq(Texts) \cup {Nil}

\* The positions of an article's cards have no gap and no duplicate, whichever edits
\* are made at the same time (news.service.ts:822 and :999).
PositionsAreContiguous ==
    {cards[c].order : c \in DOMAIN cards} = 0 .. Cardinality(DOMAIN cards) - 1

\* The cards as CardList sees them.
Listed ==
    LET at(i) == CHOOSE c \in DOMAIN cards : cards[c].order = i - 1
    IN  [i \in 1 .. Cardinality(DOMAIN cards) |->
            [id |-> at(i), data |-> cards[at(i)].data]]

List == INSTANCE CardList WITH list <- Listed

\* Card edits implement the list: each takes effect at once, or not at all, on the cards
\* as they are (news.service.ts:1450-1452).
EditsAreAtomic == List!Spec

\* What is published is what the cards say, unless an edit was committed or open while
\* they were being compiled: an edit that begins later, or begins again, is refused
\* until the article is withdrawn (news.service.ts:812-821).
PublishedBodyHasACause == status = "PUBLISHED" /\ ~raced => body = Compiled(cards)

\* A reorder that PostgreSQL has no reason to refuse can be written: it "atomically
\* replaces card order values based on the submitted cardIds array"
\* (news.service.ts:1026).
ReorderCanBePersisted ==
    \A r \in Requests :
        pc[r] = "commit" /\ ~stale[r] /\ op[r].kind = "reorder" => CanPersist(NewOrder(r), {})
==============================================================================
