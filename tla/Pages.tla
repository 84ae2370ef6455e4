------------------------------- MODULE Pages -------------------------------
(***************************************************************************)
(* One slug: PagesService, which edits its page, and the public portal's   *)
(* cache of it, public:page:{slug}, which PublicService fills and          *)
(* PagesService invalidates.  Slugs share nothing.                         *)
(*                                                                         *)
(* updateName, publish and archive read the page in one statement and      *)
(* write it in another.  replaceSections is a SERIALIZABLE transaction,    *)
(* run up to RetryLimit times: PostgreSQL (external) refuses it when the   *)
(* page's row was written after its snapshot, and may refuse it for no     *)
(* reason.                                                                 *)
(***************************************************************************)
EXTENDS Naturals

CONSTANTS
    Names, Sections,   \* what a page is called, and lists of sections
    NoSections,        \* the empty list
    Requests,          \* editors' requests in progress at the same time
    Readers,           \* the portal's requests in progress at the same time
    RetryLimit,        \* SERIALIZABLE_RETRY_LIMIT
    Faults,            \* whether commands fail and processes die
    Missing,           \* CACHE_NOT_FOUND_SENTINEL
    Nil

ASSUME PagesAssumption ==
    /\ NoSections \in Sections
    /\ RetryLimit \in Nat \ {0}
    /\ Faults \in BOOLEAN

VARIABLES
    page,      \* the row of the slug with its sections
    pc,        \* the step each editor's request is at
    op,        \* the operation it was sent with
    seen,      \* the status it has read, until it has written the page
    attempt,   \* transactions replaceSections has started, until one commits
    stale,     \* the page was written after its open transaction's snapshot
    cache,     \* public:page:{slug}
    at,        \* the step each reader is at
    held       \* what it has read

editVars == <<pc, op, seen, attempt, stale>>
readVars == <<at, held>>
vars == <<page, editVars, cache, readVars>>

\* publishedAt is the request that published the page last.
Page ==
    [status : {"DRAFT"}, name : Names, sections : Sections, publishedAt : {Nil}]
        \cup [status : {"PUBLISHED", "ARCHIVED"}, name : Names, sections : Sections,
              publishedAt : Requests]

Operation ==
    [kind : {"create", "rename"}, name : Names]
        \cup [kind : {"replace"}, sections : Sections]
        \cup [kind : {"publish", "archive"}]

Steps == {"idle", "find", "write", "begin", "commit", "invalidate", "audit"}

ReadSteps == {"idle", "get", "row", "sections", "store"}

Parts == {"name", "sections", "publishedAt"}

Content == [name : Names, sections : Sections, publishedAt : Requests]

\* The row without its sections, which are fetched after it.
Head == [name : Names, sections : {Nil}, publishedAt : Requests]

\* excused is history: the parts that were outdated when the entry was set, or all of
\* them once an invalidation that was due has been lost.
Entry == [content : Content \cup {Missing}, excused : SUBSET Parts]

\* Nil and Missing are told apart from every present value.
ASSUME SentinelAssumption == Nil \notin Page /\ Missing \notin Content

IsPublished == page # Nil /\ page.status = "PUBLISHED"

\* What the portal should show.
Public == IF IsPublished THEN [part \in Parts |-> page[part]] ELSE Missing

\* The parts of a content that are not as the portal should show them.
Differing(content) ==
    IF content = Missing \/ Public = Missing
    THEN IF content = Public THEN {} ELSE Parts
    ELSE {part \in Parts : content[part] # Public[part]}

Init ==
    /\ page = Nil
    /\ pc = [r \in Requests |-> "idle"]
    /\ op = [r \in Requests |-> Nil]
    /\ seen = [r \in Requests |-> Nil]
    /\ attempt = [r \in Requests |-> 0]
    /\ stale = [r \in Requests |-> FALSE]
    /\ cache = Nil
    /\ at = [v \in Readers |-> "idle"]
    /\ held = [v \in Readers |-> Nil]

------------------------------------------------------------------------------
(* An editor's request. *)

Idle(r) ==
    /\ pc' = [pc EXCEPT ![r] = "idle"]
    /\ op' = [op EXCEPT ![r] = Nil]
    /\ seen' = [seen EXCEPT ![r] = Nil]
    /\ attempt' = [attempt EXCEPT ![r] = 0]
    /\ stale' = [stale EXCEPT ![r] = FALSE]

\* The page becomes p in one statement or commit; the other open transactions will be
\* refused.
Put(r, p) ==
    /\ page' = p
    /\ stale' = [s \in Requests |-> s # r /\ pc[s] = "commit"]

\* The write is done; what comes next depends on the status read before it.
Written(r, invalidates) ==
    /\ pc' = [pc EXCEPT ![r] = IF invalidates THEN "invalidate" ELSE "audit"]
    /\ seen' = [seen EXCEPT ![r] = Nil]
    /\ attempt' = [attempt EXCEPT ![r] = 0]
    /\ UNCHANGED op

FirstStep(o) ==
    CASE o.kind = "create"  -> "write"
      [] o.kind = "replace" -> "begin"
      [] OTHER              -> "find"

Receive(r, o) ==
    /\ pc[r] = "idle"
    /\ pc' = [pc EXCEPT ![r] = FirstStep(o)]
    /\ op' = [op EXCEPT ![r] = o]
    /\ attempt' = [attempt EXCEPT ![r] = IF o.kind = "replace" THEN 1 ELSE 0]
    /\ UNCHANGED <<page, seen, stale, cache>>

\* The slug is unique: the second page of that slug is refused with 409.
Create(r) ==
    /\ pc[r] = "write"
    /\ op[r].kind = "create"
    /\ page = Nil
    /\ Put(r, [status |-> "DRAFT", name |-> op[r].name, sections |-> NoSections,
               publishedAt |-> Nil])
    /\ Written(r, FALSE)
    /\ UNCHANGED cache

\* findPageOrThrow.
Find(r) ==
    /\ pc[r] = "find"
    /\ page # Nil
    /\ pc' = [pc EXCEPT ![r] = "write"]
    /\ seen' = [seen EXCEPT ![r] = page.status]
    /\ UNCHANGED <<page, op, attempt, stale, cache>>

\* updateName: whether the cache is invalidated depends on the status found.
Rename(r) ==
    /\ pc[r] = "write"
    /\ op[r].kind = "rename"
    /\ Put(r, [page EXCEPT !.name = op[r].name])
    /\ Written(r, seen[r] = "PUBLISHED")
    /\ UNCHANGED cache

\* Variant: the status is checked where the page is found.
PublishAsFound(r) ==
    /\ pc[r] = "write"
    /\ op[r].kind = "publish"
    /\ seen[r] # "PUBLISHED"
    /\ Put(r, [page EXCEPT !.status = "PUBLISHED", !.publishedAt = r])
    /\ Written(r, TRUE)
    /\ UNCHANGED cache

\* The UPDATE finds the page only if it is not published.
Publish(r) ==
    /\ pc[r] = "write"
    /\ op[r].kind = "publish"
    /\ page.status # "PUBLISHED"
    /\ Put(r, [page EXCEPT !.status = "PUBLISHED", !.publishedAt = r])
    /\ Written(r, TRUE)
    /\ UNCHANGED cache

\* The UPDATE finds the page only if it is published.
Archive(r) ==
    /\ pc[r] = "write"
    /\ op[r].kind = "archive"
    /\ page.status = "PUBLISHED"
    /\ Put(r, [page EXCEPT !.status = "ARCHIVED"])
    /\ Written(r, TRUE)
    /\ UNCHANGED cache

\* replaceSections takes its snapshot.
Begin(r) ==
    /\ pc[r] = "begin"
    /\ page # Nil
    /\ pc' = [pc EXCEPT ![r] = "commit"]
    /\ seen' = [seen EXCEPT ![r] = page.status]
    /\ stale' = [stale EXCEPT ![r] = FALSE]
    /\ UNCHANGED <<page, op, attempt, cache>>

\* Variant: READ COMMITTED, which does not mind that the page has been written.
CommitAnyway(r) ==
    /\ pc[r] = "commit"
    /\ Put(r, [page EXCEPT !.sections = op[r].sections])
    /\ Written(r, seen[r] = "PUBLISHED")
    /\ UNCHANGED cache

\* The old sections are deleted and the new ones inserted.
CommitTx(r) ==
    /\ pc[r] = "commit"
    /\ ~stale[r]
    /\ Put(r, [page EXCEPT !.sections = op[r].sections])
    /\ Written(r, seen[r] = "PUBLISHED")
    /\ UNCHANGED cache

\* Variant: one attempt too many.
RetryOnceMore(r) ==
    /\ pc[r] = "commit"
    /\ attempt[r] <= RetryLimit
    /\ pc' = [pc EXCEPT ![r] = "begin"]
    /\ attempt' = [attempt EXCEPT ![r] = @ + 1]
    /\ stale' = [stale EXCEPT ![r] = FALSE]
    /\ UNCHANGED <<page, op, seen, cache>>

\* P2034: the transaction is rolled back and tried again.
Retry(r) ==
    /\ pc[r] = "commit"
    /\ attempt[r] < RetryLimit
    /\ pc' = [pc EXCEPT ![r] = "begin"]
    /\ attempt' = [attempt EXCEPT ![r] = @ + 1]
    /\ stale' = [stale EXCEPT ![r] = FALSE]
    /\ UNCHANGED <<page, op, seen, cache>>

\* 404 without a page; 409 for a slug that is taken or a transition the page is not
\* ready for; P2034 on the last attempt.
Refuse(r) ==
    /\ \/ pc[r] \in {"find", "begin"} /\ page = Nil
       \/ pc[r] = "write" /\ op[r].kind = "create" /\ page # Nil
       \/ pc[r] = "write" /\ op[r].kind = "publish" /\ page.status = "PUBLISHED"
       \/ pc[r] = "write" /\ op[r].kind = "archive" /\ page.status # "PUBLISHED"
       \/ pc[r] = "commit" /\ attempt[r] = RetryLimit
    /\ Idle(r)
    /\ UNCHANGED <<page, cache>>

\* An invalidation that was due will not come.
Excuse == cache' = IF cache = Nil THEN Nil ELSE [cache EXCEPT !.excused = Parts]

\* invalidatePage: DEL, whose failure is swallowed.
Invalidate(r) ==
    /\ pc[r] = "invalidate"
    /\ pc' = [pc EXCEPT ![r] = "audit"]
    /\ \/ cache' = Nil
       \/ Faults /\ Excuse
    /\ UNCHANGED <<page, op, seen, attempt, stale>>

\* logAsync, whose failure is swallowed, and the answer.
Answer(r) ==
    /\ pc[r] = "audit"
    /\ Idle(r)
    /\ UNCHANGED <<page, cache>>

\* The process dies, or a statement fails with another error.
Crash(r) ==
    /\ Faults
    /\ pc[r] # "idle"
    /\ Idle(r)
    /\ IF pc[r] = "invalidate" THEN Excuse ELSE UNCHANGED cache
    /\ UNCHANGED page

EditStep(r) ==
    /\ \/ \E o \in Operation : Receive(r, o)
       \/ Create(r)
       \/ Find(r)
       \/ Rename(r)
       \/ Publish(r)
       \/ Archive(r)
       \/ Begin(r)
       \/ CommitTx(r)
       \/ Retry(r)
       \/ Refuse(r)
       \/ Invalidate(r)
       \/ Answer(r)
       \/ Crash(r)
    /\ UNCHANGED readVars

------------------------------------------------------------------------------
(* A reader: PublicService.findPublishedPage. *)

GoAt(v, step, content) ==
    /\ at' = [at EXCEPT ![v] = step]
    /\ held' = [held EXCEPT ![v] = content]

Ask(v) ==
    /\ at[v] = "idle"
    /\ GoAt(v, "get", Nil)
    /\ UNCHANGED cache

\* Variant: a hit sets the entry again, to renew its TTL.
HitRenewing(v) ==
    /\ at[v] = "get"
    /\ cache # Nil
    /\ GoAt(v, "store", cache.content)
    /\ UNCHANGED cache

\* What is cached is the answer; a GET that fails fails the request.
Hit(v) ==
    /\ at[v] = "get"
    /\ cache # Nil \/ Faults
    /\ GoAt(v, "idle", Nil)
    /\ UNCHANGED cache

Miss(v) ==
    /\ at[v] = "get"
    /\ cache = Nil
    /\ GoAt(v, "row", Nil)
    /\ UNCHANGED cache

\* The row, if the page is published.
LoadRow(v) ==
    /\ at[v] = "row"
    /\ IF IsPublished
       THEN GoAt(v, "sections", [Public EXCEPT !.sections = Nil])
       ELSE GoAt(v, "store", Missing)
    /\ UNCHANGED cache

\* Prisma fetches a relation with a statement of its own.
LoadSections(v) ==
    /\ at[v] = "sections"
    /\ GoAt(v, "store", [held[v] EXCEPT !.sections = page.sections])
    /\ UNCHANGED cache

\* SET EX of what was read, 300 s for a page and 30 s for the sentinel.
Store(v) ==
    /\ at[v] = "store"
    /\ \/ cache' = [content |-> held[v], excused |-> Differing(held[v])]
       \/ Faults /\ UNCHANGED cache
    /\ GoAt(v, "idle", Nil)

ReadStep(v) ==
    /\ Ask(v) \/ Hit(v) \/ Miss(v) \/ LoadRow(v) \/ LoadSections(v) \/ Store(v)
    /\ UNCHANGED <<page, editVars>>

\* Whatever the TTL, it passes.
CacheExpires ==
    /\ cache # Nil
    /\ cache' = Nil
    /\ UNCHANGED <<page, editVars, readVars>>

Next ==
    \/ \E r \in Requests : EditStep(r)
    \/ \E v \in Readers : ReadStep(v)
    \/ CacheExpires

SafeSpec == Init /\ [][Next]_vars

\* Redis expires keys; nothing is assumed of the requests.
Spec == SafeSpec /\ WF_vars(CacheExpires)

------------------------------------------------------------------------------
(* Properties. *)

\* Every variable has its type: a draft has no publishedAt and any other page has one
\* (public.service.ts:130), and no request starts more than RetryLimit transactions.
TypeOK ==
    /\ page \in Page \cup {Nil}
    /\ pc \in [Requests -> Steps]
    /\ op \in [Requests -> Operation \cup {Nil}]
    /\ seen \in [Requests -> {"DRAFT", "PUBLISHED", "ARCHIVED", Nil}]
    /\ attempt \in [Requests -> 0 .. RetryLimit]
    /\ stale \in [Requests -> BOOLEAN]
    /\ cache \in Entry \cup {Nil}
    /\ at \in [Readers -> ReadSteps]
    /\ held \in [Readers -> Content \cup Head \cup {Missing, Nil}]

\* The date of a publication is kept for as long as the page stays published: of two
\* concurrent publishes one is refused (pages.service.ts:381-384).
PublishedAtIsKept ==
    [][IsPublished /\ IsPublished' => page'.publishedAt = page.publishedAt]_vars

InvalidationDue == \E r \in Requests : pc[r] = "invalidate"

\* What has become outdated in the cache since it was set.
Outdated == IF cache = Nil THEN {} ELSE Differing(cache.content) \ cache.excused

\* A page that shows other sections or another date than it should, is shown although
\* it is not published, or is not shown although it is, is so only while an
\* invalidation is on its way or lost: publish, archive and replaceSections never skip
\* one they owe (pages.service.ts:347-351, :407-409 and :460-462).
OutdatedContentHasACause == Outdated \subseteq {"name"} \/ InvalidationDue

\* Once the page is no longer edited the portal shows it as it is, in the end for good
\* (PUBLIC_CACHE_TTL_SECONDS, public.service.ts:18).
PortalCatchesUp ==
    <>[][FALSE]_page => <>[](cache = Nil \/ cache.content = Public)
==============================================================================
