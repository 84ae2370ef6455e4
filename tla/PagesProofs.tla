---------------------------- MODULE PagesProofs ----------------------------
(***************************************************************************)
(* Proofs about Pages: type correctness, the publication date that is      *)
(* kept, and the cause of every outdated entry of the portal's cache.      *)
(***************************************************************************)
EXTENDS Pages, TLAPS

------------------------------------------------------------------------------
(* The inductive invariant. *)

\* What a request carries at each step; there is a page once one has been found.
Carries ==
    \A r \in Requests :
        /\ pc[r] # "idle" => op[r] \in Operation
        /\ pc[r] = "find" => op[r].kind \in {"rename", "publish", "archive"}
        /\ pc[r] \in {"begin", "commit"} => op[r].kind = "replace"
        /\ pc[r] = "write" => op[r].kind \in {"create", "rename", "publish", "archive"}
        /\ pc[r] = "commit" => page # Nil
        /\ pc[r] = "write" /\ op[r].kind # "create" => page # Nil

\* A transaction that may commit has read the status the page still has.
Snapshots ==
    \A r \in Requests : pc[r] = "commit" /\ ~stale[r] => seen[r] = page.status

\* What a reader has read at each step.
Reading ==
    \A v \in Readers :
        /\ at[v] = "sections" => held[v] \in Head /\ page # Nil
        /\ at[v] = "store" => held[v] \in Content \cup {Missing}

IInv == TypeOK /\ Carries /\ Snapshots /\ Reading /\ OutdatedContentHasACause

------------------------------------------------------------------------------
\* What an operation asks for, case by case.
LEMMA OperationOfKind ==
    ASSUME NEW o \in Operation
    PROVE  /\ o.kind \in {"create", "rename", "replace", "publish", "archive"}
           /\ o.kind \in {"create", "rename"} => o.name \in Names
           /\ o.kind = "replace" => o.sections \in Sections
  BY DEF Operation

\* What the portal should show is a content, or that there is none.
LEMMA PublicType ==
    ASSUME TypeOK
    PROVE  /\ Public \in Content \cup {Missing}
           /\ IsPublished => Public \in Content /\ Public # Missing
           /\ ~IsPublished => Public = Missing
<1>1. CASE IsPublished
  <2>1. page \in Page /\ page.status = "PUBLISHED"
    BY <1>1 DEF IsPublished, TypeOK
  <2>2. /\ page.name \in Names
        /\ page.sections \in Sections
        /\ page.publishedAt \in Requests
    BY <2>1 DEF Page
  <2>3. Public = [name |-> page.name, sections |-> page.sections,
                  publishedAt |-> page.publishedAt]
    BY <1>1, <2>1 DEF Public, Parts, Page
  <2>4. Public \in Content
    BY <2>2, <2>3 DEF Content
  <2>5. QED
    BY <1>1, <2>4, SentinelAssumption
<1>2. CASE ~IsPublished
  BY <1>2 DEF Public
<1>3. QED
  BY <1>1, <1>2

\* The initial states satisfy the invariant.
LEMMA InitInvariant == Init => IInv
<1>1. SUFFICES ASSUME Init PROVE IInv
  OBVIOUS
<1>2. TypeOK
  BY <1>1, PagesAssumption DEF Init, TypeOK, Steps, ReadSteps
<1>3. QED
  BY <1>1, <1>2
     DEF Init, IInv, Carries, Snapshots, Reading, OutdatedContentHasACause, Outdated

------------------------------------------------------------------------------
(* Types, and what requests and readers know. *)

Known == TypeOK /\ Carries /\ Snapshots /\ Reading

\* A request that ends knows nothing.
LEMMA IdleKnown ==
    ASSUME Known, NEW r \in Requests, Idle(r),
           page' = page, cache' \in Entry \cup {Nil}, UNCHANGED readVars
    PROVE  Known'
<1>1. TypeOK'
  BY PagesAssumption DEF Known, TypeOK, Idle, Steps, readVars
<1>2. Carries' /\ Snapshots'
  BY DEF Known, TypeOK, Carries, Snapshots, Idle
<1>3. Reading'
  BY DEF Known, Reading, readVars
<1>4. QED
  BY <1>1, <1>2, <1>3 DEF Known

\* A request that writes a page leaves every open transaction stale.
LEMMA PutKnown ==
    ASSUME Known, NEW r \in Requests, pc[r] \in {"write", "commit"},
           NEW p \in Page, Put(r, p), NEW b \in BOOLEAN, Written(r, b),
           UNCHANGED cache, UNCHANGED readVars
    PROVE  Known'
<1>1. TypeOK'
  BY PagesAssumption DEF Known, TypeOK, Put, Written, Steps, readVars
<1>2. page' # Nil
  BY SentinelAssumption DEF Put
<1>3. Carries' /\ Snapshots'
  BY <1>2 DEF Known, TypeOK, Carries, Snapshots, Put, Written
<1>4. Reading'
  BY <1>2 DEF Known, Reading, readVars
<1>5. QED
  BY <1>1, <1>3, <1>4 DEF Known

\* What each write makes of the page is a page.
LEMMA WritesPage ==
    ASSUME Known, NEW r \in Requests
    PROVE  /\ Create(r) =>
                  [status |-> "DRAFT", name |-> op[r].name, sections |-> NoSections,
                   publishedAt |-> Nil] \in Page
           /\ Rename(r) => [page EXCEPT !.name = op[r].name] \in Page
           /\ Publish(r) =>
                  [page EXCEPT !.status = "PUBLISHED", !.publishedAt = r] \in Page
           /\ Archive(r) => [page EXCEPT !.status = "ARCHIVED"] \in Page
           /\ CommitTx(r) => [page EXCEPT !.sections = op[r].sections] \in Page
<1>1. ASSUME Create(r)
      PROVE  op[r].name \in Names
  BY <1>1, OperationOfKind DEF Known, Carries, Create
<1>2. ASSUME Rename(r)
      PROVE  op[r].name \in Names /\ page \in Page
  BY <1>2, OperationOfKind DEF Known, Carries, TypeOK, Rename
<1>3. ASSUME Publish(r) \/ Archive(r)
      PROVE  page \in Page
  BY <1>3 DEF Known, Carries, TypeOK, Publish, Archive
<1>4. ASSUME CommitTx(r)
      PROVE  op[r].sections \in Sections /\ page \in Page
  BY <1>4, OperationOfKind DEF Known, Carries, TypeOK, CommitTx
<1>5. QED
  BY <1>1, <1>2, <1>3, <1>4, PagesAssumption DEF Page, Archive

\* An editor's step keeps what is known.
LEMMA EditKnown ==
    ASSUME Known, NEW r \in Requests, EditStep(r)
    PROVE  Known'
<1>1. UNCHANGED readVars
  BY DEF EditStep
<1>2. ASSUME NEW o \in Operation, Receive(r, o)
      PROVE  Known'
  <2>1. /\ FirstStep(o) \in Steps
        /\ FirstStep(o) = "write" => o.kind = "create"
        /\ FirstStep(o) = "begin" => o.kind = "replace"
        /\ FirstStep(o) = "find" => o.kind \in {"rename", "publish", "archive"}
        /\ FirstStep(o) # "commit"
    BY OperationOfKind DEF FirstStep, Steps
  <2>2. TypeOK'
    BY <1>1, <1>2, <2>1, PagesAssumption DEF Known, TypeOK, Receive, readVars
  <2>3. Carries' /\ Snapshots'
    BY <1>2, <2>1 DEF Known, TypeOK, Carries, Snapshots, Receive
  <2>4. Reading'
    BY <1>1, <1>2 DEF Known, Reading, Receive, readVars
  <2>5. QED
    BY <2>2, <2>3, <2>4 DEF Known
<1>3. ASSUME Find(r) PROVE Known'
  <2>1. TypeOK'
    BY <1>1, <1>3 DEF Known, TypeOK, Find, Steps, Page, readVars
  <2>2. Carries' /\ Snapshots'
    BY <1>3 DEF Known, TypeOK, Carries, Snapshots, Find
  <2>3. Reading'
    BY <1>1, <1>3 DEF Known, Reading, Find, readVars
  <2>4. QED
    BY <2>1, <2>2, <2>3 DEF Known
<1>4. ASSUME Create(r) \/ Rename(r) \/ Publish(r) \/ Archive(r) \/ CommitTx(r)
      PROVE  Known'
  <2>1. (seen[r] = "PUBLISHED") \in BOOLEAN
    OBVIOUS
  <2>2. QED
    BY <1>1, <1>4, <2>1, WritesPage, PutKnown
       DEF Create, Rename, Publish, Archive, CommitTx
<1>5. ASSUME Begin(r) PROVE Known'
  <2>1. TypeOK'
    BY <1>1, <1>5 DEF Known, TypeOK, Begin, Steps, Page, readVars
  <2>2. Carries' /\ Snapshots'
    BY <1>5 DEF Known, TypeOK, Carries, Snapshots, Begin
  <2>3. Reading'
    BY <1>1, <1>5 DEF Known, Reading, Begin, readVars
  <2>4. QED
    BY <2>1, <2>2, <2>3 DEF Known
<1>6. ASSUME Retry(r) PROVE Known'
  <2>1. attempt[r] \in 0 .. RetryLimit /\ attempt[r] + 1 \in 0 .. RetryLimit
    BY <1>6, PagesAssumption DEF Known, TypeOK, Retry
  <2>2. TypeOK'
    BY <1>1, <1>6, <2>1 DEF Known, TypeOK, Retry, Steps, readVars
  <2>3. Carries' /\ Snapshots'
    BY <1>6 DEF Known, TypeOK, Carries, Snapshots, Retry
  <2>4. Reading'
    BY <1>1, <1>6 DEF Known, Reading, Retry, readVars
  <2>5. QED
    BY <2>2, <2>3, <2>4 DEF Known
<1>7. ASSUME cache' = Nil \/ Excuse \/ cache' = cache
      PROVE  cache' \in Entry \cup {Nil}
  BY <1>7 DEF Excuse, Known, TypeOK, Entry
<1>8. ASSUME Invalidate(r) PROVE Known'
  <2>1. cache' \in Entry \cup {Nil}
    BY <1>7, <1>8 DEF Invalidate
  <2>2. TypeOK'
    BY <1>1, <1>8, <2>1 DEF Known, TypeOK, Invalidate, Steps, readVars
  <2>3. Carries' /\ Snapshots'
    BY <1>8 DEF Known, TypeOK, Carries, Snapshots, Invalidate
  <2>4. Reading'
    BY <1>1, <1>8 DEF Known, Reading, Invalidate, readVars
  <2>5. QED
    BY <2>2, <2>3, <2>4 DEF Known
<1>9. ASSUME Refuse(r) \/ Answer(r) \/ Crash(r) PROVE Known'
  <2>1. /\ Idle(r) /\ page' = page
        /\ cache' \in Entry \cup {Nil}
    BY <1>7, <1>9 DEF Refuse, Answer, Crash
  <2>2. QED
    BY <1>1, <2>1, IdleKnown
<1>10. QED
  BY <1>2, <1>3, <1>4, <1>5, <1>6, <1>8, <1>9 DEF EditStep

\* A reader's step keeps what is known.
LEMMA ReadKnown ==
    ASSUME Known, NEW v \in Readers, ReadStep(v)
    PROVE  Known'
<1>1. UNCHANGED <<page, editVars>>
  BY DEF ReadStep
<1>2. Carries' /\ Snapshots'
  BY <1>1 DEF Known, Carries, Snapshots, editVars
<1>3. ASSUME cache' \in Entry \cup {Nil}, NEW step \in ReadSteps,
             NEW content \in Content \cup Head \cup {Missing, Nil}, GoAt(v, step, content),
             step = "sections" => content \in Head /\ page # Nil,
             step = "store" => content \in Content \cup {Missing}
      PROVE  TypeOK' /\ Reading'
  BY <1>1, <1>3 DEF Known, TypeOK, Reading, GoAt, editVars
<1>4. cache \in Entry \cup {Nil}
  BY DEF Known, TypeOK
<1>5. CASE Ask(v) \/ Hit(v) \/ Miss(v)
  BY <1>2, <1>3, <1>4, <1>5 DEF Ask, Hit, Miss, ReadSteps, Known
<1>6. CASE LoadRow(v)
  <2>1. CASE IsPublished
    <3>1. Public \in Content /\ page # Nil
      BY <2>1, PublicType DEF Known, IsPublished
    <3>2. [Public EXCEPT !.sections = Nil] \in Head
      BY <3>1 DEF Content, Head
    <3>3. QED
      BY <1>2, <1>3, <1>4, <1>6, <2>1, <3>1, <3>2 DEF LoadRow, ReadSteps, Known
  <2>2. CASE ~IsPublished
    BY <1>2, <1>3, <1>4, <1>6, <2>2 DEF LoadRow, ReadSteps, Known
  <2>3. QED
    BY <2>1, <2>2
<1>7. CASE LoadSections(v)
  <2>1. held[v] \in Head /\ page \in Page
    BY <1>7 DEF LoadSections, Known, Reading, TypeOK
  <2>2. page.sections \in Sections
    BY <2>1 DEF Page
  <2>3. [held[v] EXCEPT !.sections = page.sections] \in Content
    BY <2>1, <2>2 DEF Head, Content
  <2>4. QED
    BY <1>2, <1>3, <1>4, <1>7, <2>3 DEF LoadSections, ReadSteps, Known
<1>8. CASE Store(v)
  <2>1. held[v] \in Content \cup {Missing}
    BY <1>8 DEF Store, Known, Reading
  <2>2. Differing(held[v]) \subseteq Parts
    BY DEF Differing
  <2>3. cache' \in Entry \cup {Nil}
    BY <1>4, <1>8, <2>1, <2>2 DEF Store, Entry
  <2>4. QED
    BY <1>2, <1>3, <1>8, <2>3 DEF Store, ReadSteps, Known
<1>9. QED
  BY <1>5, <1>6, <1>7, <1>8 DEF ReadStep

------------------------------------------------------------------------------
(* The cause of every outdated entry. *)

\* Nothing becomes outdated while neither the cache nor what it should hold changes.
LEMMA SameOutdated ==
    ASSUME Public' = Public, cache' = cache
    PROVE  Outdated' = Outdated
  BY DEF Outdated, Differing

\* An invalidation of another request stays due.
LEMMA StillDue ==
    ASSUME TypeOK, NEW r \in Requests, pc[r] # "invalidate",
           NEW step, pc' = [pc EXCEPT ![r] = step]
    PROVE  InvalidationDue => InvalidationDue'
  BY DEF InvalidationDue, TypeOK

\* A request that goes on to the invalidation makes it due.
LEMMA NowDue ==
    ASSUME TypeOK, NEW r \in Requests, Written(r, TRUE)
    PROVE  InvalidationDue'
  BY DEF InvalidationDue, TypeOK, Written

\* A rename makes at most the name outdated.
LEMMA RenameOutdates ==
    ASSUME Known, NEW r \in Requests, Rename(r)
    PROVE  Outdated' \subseteq Outdated \cup {"name"}
<1>1. cache' = cache /\ page \in Page /\ page' = [page EXCEPT !.name = op[r].name]
  BY DEF Rename, Put, Known, Carries, TypeOK
<1>2. page' \in Page
  BY <1>1, WritesPage
<1>3. page # Nil /\ page' # Nil /\ page'.status = page.status
  BY <1>1, <1>2, SentinelAssumption DEF Page
<1>4. IsPublished' = IsPublished
  BY <1>3 DEF IsPublished
<1>5. CASE IsPublished
  <2>1. Public # Missing
    BY <1>5, PublicType DEF Known
  <2>2. /\ Public = [part \in Parts |-> page[part]]
        /\ Public' = [part \in Parts |-> page'[part]]
    BY <1>4, <1>5 DEF Public
  <2>3. \A part \in Parts : part # "name" => Public'[part] = Public[part]
    BY <1>1, <2>2 DEF Parts, Page
  <2>4. Public' # Missing
    <3>1. Public' = [name |-> page'.name, sections |-> page'.sections,
                     publishedAt |-> page'.publishedAt]
      BY <2>2 DEF Parts
    <3>2. page'.status = "PUBLISHED"
      BY <1>3, <1>5 DEF IsPublished
    <3>3. Public' \in Content
      BY <1>2, <3>1, <3>2 DEF Page, Content
    <3>4. QED
      BY <3>3, SentinelAssumption
  <2>5. ASSUME cache # Nil
        PROVE  Differing(cache.content)' \subseteq Differing(cache.content) \cup {"name"}
    BY <1>1, <2>1, <2>3, <2>4 DEF Differing, Parts
  <2>6. QED
    BY <1>1, <2>5 DEF Outdated
<1>6. CASE ~IsPublished
  BY <1>1, <1>4, <1>6, SameOutdated DEF Public
<1>7. QED
  BY <1>5, <1>6

\* An editor's step outdates an entry only if it owes the invalidation.
LEMMA EditCause ==
    ASSUME Known, OutdatedContentHasACause, NEW r \in Requests, EditStep(r)
    PROVE  OutdatedContentHasACause'
<1> USE DEF Known
<1>1. ASSUME Public' = Public, cache' = cache, pc[r] # "invalidate",
             NEW step, pc' = [pc EXCEPT ![r] = step]
      PROVE  OutdatedContentHasACause'
  BY <1>1, SameOutdated, StillDue DEF OutdatedContentHasACause
<1>2. ASSUME page' = page
      PROVE  Public' = Public
  BY <1>2 DEF Public, IsPublished
<1>3. CASE \/ \E o \in Operation : Receive(r, o)
           \/ Find(r) \/ Begin(r) \/ Retry(r) \/ Refuse(r) \/ Answer(r)
  BY <1>1, <1>2, <1>3 DEF Receive, Find, Begin, Retry, Refuse, Answer, Idle
<1>4. CASE Create(r)
  <2>1. ~IsPublished /\ ~IsPublished'
    BY <1>4 DEF Create, Put, IsPublished
  <2>2. Public' = Public
    BY <2>1 DEF Public
  <2>3. QED
    BY <1>1, <1>4, <2>2 DEF Create, Written
<1>5. CASE Rename(r)
  <2>1. Outdated' \subseteq Outdated \cup {"name"}
    BY <1>5, RenameOutdates
  <2>2. InvalidationDue => InvalidationDue'
    BY <1>5, StillDue DEF Rename, Written
  <2>3. QED
    BY <2>1, <2>2 DEF OutdatedContentHasACause
<1>6. CASE Publish(r) \/ Archive(r)
  BY <1>6, NowDue DEF Publish, Archive, OutdatedContentHasACause
<1>7. CASE CommitTx(r)
  <2>1. CASE seen[r] = "PUBLISHED"
    BY <1>7, <2>1, NowDue DEF CommitTx, OutdatedContentHasACause
  <2>2. CASE seen[r] # "PUBLISHED"
    <3>1. page \in Page /\ page.status # "PUBLISHED"
      BY <1>7, <2>2 DEF CommitTx, Carries, Snapshots, TypeOK
    <3>2. page' = [page EXCEPT !.sections = op[r].sections]
      BY <1>7 DEF CommitTx, Put
    <3>3. page'.status = page.status
      BY <3>1, <3>2 DEF Page
    <3>4. ~IsPublished /\ ~IsPublished'
      BY <3>1, <3>3 DEF IsPublished
    <3>5. Public' = Public
      BY <3>4 DEF Public
    <3>6. QED
      BY <1>1, <1>7, <3>5 DEF CommitTx, Written
  <2>3. QED
    BY <2>1, <2>2
<1>8. ASSUME page' = page, cache' = Nil \/ Excuse
      PROVE  OutdatedContentHasACause'
  <2>1. ASSUME NEW content PROVE Differing(content)' \subseteq Parts
    BY DEF Differing
  <2>2. ASSUME cache' # Nil PROVE cache'.excused = Parts
    BY <1>8, <2>2 DEF Excuse, TypeOK, Entry
  <2>3. Outdated' = {}
    BY <2>1, <2>2 DEF Outdated
  <2>4. QED
    BY <2>3 DEF OutdatedContentHasACause
<1>9. CASE Invalidate(r)
  BY <1>8, <1>9 DEF Invalidate
<1>10. CASE Crash(r)
  <2>1. CASE pc[r] = "invalidate"
    BY <1>8, <1>10, <2>1 DEF Crash
  <2>2. CASE pc[r] # "invalidate"
    BY <1>1, <1>2, <1>10, <2>2 DEF Crash, Idle
  <2>3. QED
    BY <2>1, <2>2
<1>11. QED
  BY <1>3, <1>4, <1>5, <1>6, <1>7, <1>9, <1>10 DEF EditStep

\* A reader's entry is outdated only where it was when it was set.
LEMMA ReadCause ==
    ASSUME Known, OutdatedContentHasACause, NEW v \in Readers, ReadStep(v)
    PROVE  OutdatedContentHasACause'
<1>1. Public' = Public /\ (InvalidationDue => InvalidationDue')
  BY DEF ReadStep, editVars, Public, IsPublished, InvalidationDue
<1>2. CASE cache' = cache
  BY <1>1, <1>2, SameOutdated DEF OutdatedContentHasACause
<1>3. CASE cache' = [content |-> held[v], excused |-> Differing(held[v])]
  <2>1. cache'.content = held[v] /\ cache'.excused = Differing(held[v])
    BY <1>3
  <2>2. Differing(cache.content)' = Differing(held[v])
    BY <1>1, <2>1 DEF Differing
  <2>3. Outdated' = {}
    BY <2>1, <2>2 DEF Outdated
  <2>4. QED
    BY <2>3 DEF OutdatedContentHasACause
<1>4. QED
  BY <1>2, <1>3 DEF ReadStep, Ask, Hit, Miss, LoadRow, LoadSections, Store

\* Every step keeps the invariant.
LEMMA StepInvariant == IInv /\ [Next]_vars => IInv'
<1>1. SUFFICES ASSUME IInv, [Next]_vars PROVE IInv'
  OBVIOUS
<1>2. Known /\ OutdatedContentHasACause
  BY <1>1 DEF IInv, Known
<1>3. CASE UNCHANGED vars
  <2>1. Known'
    BY <1>2, <1>3 DEF vars, editVars, readVars, Known, TypeOK, Carries, Snapshots, Reading
  <2>2. Public' = Public /\ InvalidationDue' = InvalidationDue
    BY <1>3 DEF vars, editVars, Public, IsPublished, InvalidationDue
  <2>3. OutdatedContentHasACause'
    BY <1>2, <1>3, <2>2, SameOutdated DEF vars, OutdatedContentHasACause
  <2>4. QED
    BY <2>1, <2>3 DEF IInv, Known
<1>4. ASSUME NEW r \in Requests, EditStep(r) PROVE IInv'
  BY <1>2, <1>4, EditKnown, EditCause DEF IInv, Known
<1>5. ASSUME NEW v \in Readers, ReadStep(v) PROVE IInv'
  BY <1>2, <1>5, ReadKnown, ReadCause DEF IInv, Known
<1>6. CASE CacheExpires
  <2>1. Known'
    BY <1>2, <1>6
       DEF CacheExpires, editVars, readVars, Known, TypeOK, Carries, Snapshots, Reading
  <2>2. Outdated' = {}
    BY <1>6 DEF CacheExpires, Outdated
  <2>3. QED
    BY <2>1, <2>2 DEF IInv, Known, OutdatedContentHasACause
<1>7. QED
  BY <1>1, <1>3, <1>4, <1>5, <1>6 DEF Next

\* The invariant holds of every behaviour.
LEMMA Invariant == SafeSpec => []IInv
  BY InitInvariant, StepInvariant, PTL DEF SafeSpec

------------------------------------------------------------------------------
\* Every variable has its type, and replaceSections starts no more than RetryLimit
\* transactions (pages.service.ts:499-518).
THEOREM TypeCorrect == SafeSpec => []TypeOK
<1>1. IInv => TypeOK
  BY DEF IInv
<1>2. QED
  BY <1>1, Invariant, PTL

\* publish, archive and replaceSections never skip an invalidation they owe, for any
\* number of editors and readers (pages.service.ts:347-351, :407-409 and :460-462).
THEOREM CauseOfOutdated == SafeSpec => []OutdatedContentHasACause
<1>1. IInv => OutdatedContentHasACause
  BY DEF IInv
<1>2. QED
  BY <1>1, Invariant, PTL

\* No step changes the date of a page that stays published.
LEMMA StepKeepsPublishedAt ==
    IInv /\ [Next]_vars
        => [IsPublished /\ IsPublished' => page'.publishedAt = page.publishedAt]_vars
<1>1. SUFFICES ASSUME IInv, [Next]_vars, IsPublished, IsPublished'
               PROVE  page'.publishedAt = page.publishedAt
  OBVIOUS
<1>2. page \in Page /\ page.status = "PUBLISHED"
  BY <1>1 DEF IInv, TypeOK, IsPublished
<1>3. ASSUME NEW r \in Requests, EditStep(r) PROVE page'.publishedAt = page.publishedAt
  <2>1. CASE page' = page
    BY <2>1
  <2>2. CASE Create(r) \/ Publish(r)
    BY <1>1, <1>2, <2>2 DEF Create, Publish, IsPublished
  <2>3. CASE Rename(r) \/ Archive(r) \/ CommitTx(r)
    BY <1>2, <2>3 DEF Rename, Archive, CommitTx, Put, Page
  <2>4. QED
    BY <1>3, <2>1, <2>2, <2>3
       DEF EditStep, Receive, Find, Begin, Retry, Refuse, Invalidate, Answer, Crash
<1>4. CASE \E v \in Readers : ReadStep(v)
  BY <1>4 DEF ReadStep
<1>5. CASE CacheExpires
  BY <1>5 DEF CacheExpires
<1>6. CASE UNCHANGED vars
  BY <1>6 DEF vars
<1>7. QED
  BY <1>1, <1>3, <1>4, <1>5, <1>6 DEF Next

\* Of two concurrent publishes one is refused, for any number of editors
\* (pages.service.ts:381-384).
THEOREM DateKept == SafeSpec => PublishedAtIsKept
  BY Invariant, StepKeepsPublishedAt, PTL DEF SafeSpec, PublishedAtIsKept
==============================================================================
