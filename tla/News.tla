-------------------------------- MODULE News --------------------------------
(***************************************************************************)
(* NewsService's articles, and the public portal's caches of them:         *)
(* public:news:{slug}, deleted when an article changes, and the news list, *)
(* whose key names a version that is incremented instead.                  *)
(*                                                                         *)
(* update, softDelete and the transitions read the article in one          *)
(* statement and write it in another; only the transitions check again     *)
(* what they have read.  The cards, and what they compile to, are in Cards;*)
(* the audit call that ends a request touches nothing here.                *)
(***************************************************************************)

CONSTANTS
    Articles, Slugs,
    Edited,     \* the articles that are edited after their creation
    Dates,      \* what publishedAt may be
    Creations,  \* bodies of a POST
    Updates,    \* bodies of a PATCH
    Requests,   \* editors' requests in progress at the same time
    Readers,    \* the portal's requests in progress at the same time
    Asked,      \* the slugs readers ask for
    List,       \* the list of news, as a thing to ask for
    Faults,     \* whether commands fail and processes die
    Missing,    \* CACHE_NOT_FOUND_SENTINEL
    Broken,     \* an answer that cannot be put together
    Same,       \* a field an update does not give
    Nil

VARIABLES
    article,   \* the table news_articles
    pc,        \* the step each editor's request is at
    op,        \* the operation it was sent with
    seen,      \* what it has found and will use
    due,       \* the slug whose invalidation it owes
    cache,     \* the cached answers; for List, under the current version
    at,        \* the step each reader is at
    asks,      \* what it was asked for
    held,      \* what it has read
    current    \* the version it works with is still the current one

editVars == <<pc, op, seen, due>>
readVars == <<at, asks, held, current>>
vars == <<article, editVars, cache, readVars>>

\* published: the status is PUBLISHED.  Nothing here tells a draft from an archived
\* article.
Row ==
    [slug : Slugs, published : BOOLEAN, date : Dates \cup {Nil}, deleted : BOOLEAN]

Creation == [slug : Slugs, date : Dates \cup {Nil}]

Update == [slug : Slugs \cup {Same}, date : Dates \cup {Nil, Same}]

ASSUME NewsAssumption ==
    /\ Creations \subseteq Creation
    /\ Updates \subseteq Update
    /\ Asked \subseteq Slugs
    /\ Edited \subseteq Articles
    /\ Faults \in BOOLEAN

\* withdraw stands for revertToDraft and archive.
Operation ==
    [kind : {"create"}, article : Articles, body : Creations]
        \cup [kind : {"update"}, article : Edited, body : Updates]
        \cup [kind : {"delete", "publish", "withdraw"}, article : Edited]

Steps == {"idle", "slug", "insert", "find", "check", "write", "del", "incr"}

ReadSteps == {"idle", "version", "get", "load", "store"}

Keys == Slugs \cup {List}

Detail == [article : Articles, date : Dates]

Listing == [articles : SUBSET [article : Articles, slug : Slugs, date : Dates]]

\* excused is history: the answer was outdated when it was set, or an invalidation it
\* needs has been lost or was never going to come.
Entry == [content : Detail \cup Listing \cup {Missing}, excused : BOOLEAN]

\* List and the sentinels are told apart from every present value.
ASSUME SentinelAssumption ==
    /\ List \notin Slugs
    /\ {Missing, Broken} \cap (Detail \cup Listing) = {}
    /\ Missing # Broken
    /\ Nil \notin Row \cup Slugs \cup Dates \cup Operation \cup Entry

IsPublic(x) == x # Nil /\ x.published /\ ~x.deleted

Published == {a \in Articles : IsPublic(article[a])}

\* What the portal should answer: the mapper of an article cannot do without a date.
Public(key) ==
    LET listed == IF key = List THEN Published
                  ELSE {a \in Published : article[a].slug = key}
    IN  IF \E a \in listed : article[a].date = Nil THEN Broken
        ELSE IF key = List
             THEN [articles |-> {[article |-> a, slug |-> article[a].slug,
                                  date |-> article[a].date] : a \in listed}]
        ELSE IF listed = {} THEN Missing
        ELSE LET a == CHOOSE b \in listed : TRUE
             IN  [article |-> a, date |-> article[a].date]

\* Variant: deleted articles are left out when a slug is looked for.
TakenByLive(slug) ==
    \E a \in Articles : article[a] # Nil /\ article[a].slug = slug /\ ~article[a].deleted

\* Slugs of deleted articles stay taken.
Taken(slug) == \E a \in Articles : article[a] # Nil /\ article[a].slug = slug

Init ==
    /\ article = [a \in Articles |-> Nil]
    /\ pc = [r \in Requests |-> "idle"]
    /\ op = [r \in Requests |-> Nil]
    /\ seen = [r \in Requests |-> Nil]
    /\ due = [r \in Requests |-> Nil]
    /\ cache = [key \in Keys |-> Nil]
    /\ at = [v \in Readers |-> "idle"]
    /\ asks = [v \in Readers |-> Nil]
    /\ held = [v \in Readers |-> Nil]
    /\ current = [v \in Readers |-> FALSE]

------------------------------------------------------------------------------
(* An editor's request. *)

Idle(r) ==
    /\ pc' = [pc EXCEPT ![r] = "idle"]
    /\ op' = [op EXCEPT ![r] = Nil]
    /\ seen' = [seen EXCEPT ![r] = Nil]
    /\ due' = [due EXCEPT ![r] = Nil]

Goto(r, step) ==
    /\ pc' = [pc EXCEPT ![r] = step]
    /\ UNCHANGED <<op, seen, due>>

\* The write is done, and what is cached under slug is to be invalidated.
Owe(r, slug) ==
    /\ pc' = [pc EXCEPT ![r] = "del"]
    /\ due' = [due EXCEPT ![r] = slug]
    /\ op' = [op EXCEPT ![r] = Nil]
    /\ seen' = [seen EXCEPT ![r] = Nil]

\* The answers under these keys are not what the portal should say from now on, or
\* will not be, and no invalidation is on its way.  A list that has been read counts
\* as set: what keeps it from being set is its version.
Excuse(keys) ==
    /\ cache' = [key \in Keys |->
          IF key \in keys /\ cache[key] # Nil THEN [cache[key] EXCEPT !.excused = TRUE]
          ELSE cache[key]]
    /\ held' = [v \in Readers |->
          IF asks[v] = List /\ List \in keys /\ held[v] # Nil
          THEN [held[v] EXCEPT !.excused = TRUE] ELSE held[v]]
    /\ UNCHANGED <<at, asks, current>>

Quiet == UNCHANGED <<cache, readVars>>

\* The id of a new article has never been used.
Fresh(a) ==
    /\ article[a] = Nil
    /\ \A r \in Requests : op[r] # Nil => op[r].article # a

Receive(r, o) ==
    /\ pc[r] = "idle"
    /\ IF o.kind = "create" THEN Fresh(o.article) ELSE article[o.article] # Nil
    /\ pc' = [pc EXCEPT ![r] = IF o.kind = "create" THEN "slug" ELSE "find"]
    /\ op' = [op EXCEPT ![r] = o]
    /\ UNCHANGED <<article, seen, due>> /\ Quiet

Trying(slug) == [slug |-> slug, published |-> FALSE, date |-> Nil]

\* The title's slug, unless another one is being tried.
Candidate(r) == IF seen[r] = Nil THEN op[r].body.slug ELSE seen[r].slug

\* ensureUniqueSlug: one candidate after the other is looked for.
TrySlug(r) ==
    /\ pc[r] = "slug"
    /\ IF Taken(Candidate(r))
       THEN /\ \E slug \in Slugs \ {Candidate(r)} : seen' = [seen EXCEPT ![r] = Trying(slug)]
            /\ UNCHANGED pc
       ELSE /\ pc' = [pc EXCEPT ![r] = "insert"]
            /\ UNCHANGED seen
    /\ UNCHANGED <<article, op, due>> /\ Quiet

\* The slug is unique: an article that took it in between makes this one fail (409).
Insert(r) ==
    /\ pc[r] = "insert"
    /\ ~Taken(Candidate(r))
    /\ article' = [article EXCEPT ![op[r].article] =
          [slug |-> Candidate(r), published |-> FALSE, date |-> op[r].body.date,
           deleted |-> FALSE]]
    /\ Idle(r)
    /\ Quiet

\* What an operation uses of the row it finds: update and softDelete the slug and
\* whether it is published, publish the date.
Used(o, x) ==
    [slug |-> IF o.kind \in {"update", "delete"} THEN x.slug ELSE Nil,
     published |-> o.kind \in {"update", "delete"} /\ IsPublic(x),
     date |-> IF o.kind = "publish" THEN x.date ELSE Nil]

\* findArticleOrThrow.  A new slug is checked next.
Find(r) ==
    /\ pc[r] = "find"
    /\ LET o == op[r]
           x == article[o.article]
       IN  /\ ~x.deleted
           /\ seen' = [seen EXCEPT ![r] = Used(o, x)]
           /\ pc' = [pc EXCEPT ![r] =
                 IF o.kind = "update" /\ o.body.slug \notin {Same, x.slug}
                 THEN "check" ELSE "write"]
    /\ UNCHANGED <<article, op, due>> /\ Quiet

\* assertSlugAvailable.
CheckSlug(r) ==
    /\ pc[r] = "check"
    /\ ~Taken(op[r].body.slug)
    /\ Goto(r, "write")
    /\ UNCHANGED article /\ Quiet

NewSlug(r) == IF op[r].body.slug = Same THEN seen[r].slug ELSE op[r].body.slug

\* Another article has the slug this update is about to write.
Collides(r) ==
    op[r].kind = "update"
        /\ \E b \in Articles \ {op[r].article} : article[b] # Nil /\ article[b].slug = NewSlug(r)

\* What the portal shows of x changes under these keys, and the request, which works
\* with what it has found of x, will not see to it.
Overlooked(r, x, newSlug) ==
    IF ~IsPublic(x) THEN {}
    ELSE (IF seen[r].published /\ seen[r].slug = x.slug THEN {} ELSE {x.slug, newSlug})
             \cup (IF seen[r].published THEN {} ELSE {List})
             \cup ({newSlug} \ {x.slug})

\* Only an article that was published when it was found has anything invalidated.
OweAsFound(r) == IF seen[r].published THEN Owe(r, seen[r].slug) ELSE Idle(r)

\* Variant: what is invalidated is the slug the article has now.
UpdateOweNew(r) ==
    /\ pc[r] = "write"
    /\ op[r].kind = "update"
    /\ ~Collides(r)
    /\ LET a == op[r].article
           date == op[r].body.date
       IN  /\ article' = [article EXCEPT ![a].slug = NewSlug(r),
                                         ![a].date = IF date = Same THEN @ ELSE date]
           /\ Excuse(Overlooked(r, article[a], NewSlug(r)))
    /\ IF seen[r].published THEN Owe(r, NewSlug(r)) ELSE Idle(r)

\* update: the slug is written even when it is not given, and the article may have been
\* deleted, published or renamed since it was found.
UpdateRow(r) ==
    /\ pc[r] = "write"
    /\ op[r].kind = "update"
    /\ ~Collides(r)
    /\ LET a == op[r].article
           date == op[r].body.date
       IN  /\ article' = [article EXCEPT ![a].slug = NewSlug(r),
                                         ![a].date = IF date = Same THEN @ ELSE date]
           /\ Excuse(Overlooked(r, article[a], NewSlug(r)))
    /\ OweAsFound(r)

\* softDelete.
SoftDelete(r) ==
    /\ pc[r] = "write"
    /\ op[r].kind = "delete"
    /\ LET x == article[op[r].article]
       IN  /\ article' = [article EXCEPT ![op[r].article].deleted = TRUE]
           /\ Excuse(Overlooked(r, x, x.slug))
    /\ OweAsFound(r)

\* The UPDATE finds the article only if it is neither published nor deleted; a date it
\* was found with is kept.
Publish(r) ==
    /\ pc[r] = "write"
    /\ op[r].kind = "publish"
    /\ LET a == op[r].article
       IN  /\ ~article[a].published /\ ~article[a].deleted
           /\ \E date \in IF seen[r].date = Nil THEN Dates ELSE {seen[r].date} :
                 article' = [article EXCEPT ![a].published = TRUE, ![a].date = date]
           /\ Owe(r, article[a].slug)
    /\ Quiet

\* revertToDraft and archive: the UPDATE finds the article only if it is published and
\* not deleted.
Withdraw(r) ==
    /\ pc[r] = "write"
    /\ op[r].kind = "withdraw"
    /\ LET a == op[r].article
       IN  /\ IsPublic(article[a])
           /\ article' = [article EXCEPT ![a].published = FALSE]
           /\ Owe(r, article[a].slug)
    /\ Quiet

\* 404 for an article that is deleted, 409 for a slug that is taken or a transition the
\* article is not ready for; a slug that turns out to be taken when it is written makes
\* update fail with 500.
Refuse(r) ==
    /\ \/ pc[r] = "find" /\ article[op[r].article].deleted
       \/ pc[r] = "insert" /\ Taken(Candidate(r))
       \/ pc[r] = "check" /\ Taken(op[r].body.slug)
       \/ pc[r] = "write" /\ Collides(r)
       \/ pc[r] = "write" /\ op[r].kind = "publish"
              /\ (article[op[r].article].published \/ article[op[r].article].deleted)
       \/ pc[r] = "write" /\ op[r].kind = "withdraw"
              /\ ~IsPublic(article[op[r].article])
    /\ Idle(r)
    /\ UNCHANGED article /\ Quiet

\* invalidateNewsArticle deletes the article's entry; a failure is swallowed.
DeleteEntry(r) ==
    /\ pc[r] = "del"
    /\ \/ cache' = [cache EXCEPT ![due[r]] = Nil] /\ UNCHANGED readVars
       \/ Faults /\ Excuse({due[r]})
    /\ pc' = [pc EXCEPT ![r] = "incr"]
    /\ due' = [due EXCEPT ![r] = Nil]
    /\ UNCHANGED <<article, op, seen>>

\* Variant: the list is deleted, and its key is as good as before.
DeleteList(r) ==
    /\ pc[r] = "incr"
    /\ \/ cache' = [cache EXCEPT ![List] = Nil] /\ UNCHANGED readVars
       \/ Faults /\ Excuse({List})
    /\ Idle(r)
    /\ UNCHANGED article

\* It then increments the version of the lists: the new version has no list yet, and
\* whoever works with the old one will set what nobody asks for; a failure is swallowed.
IncrementVersion(r) ==
    /\ pc[r] = "incr"
    /\ \/ /\ cache' = [cache EXCEPT ![List] = Nil]
          /\ current' = [v \in Readers |-> FALSE]
          /\ UNCHANGED <<at, asks, held>>
       \/ Faults /\ Excuse({List})
    /\ Idle(r)
    /\ UNCHANGED article

\* The process dies, or a statement fails with another error.
Crash(r) ==
    /\ Faults
    /\ pc[r] # "idle"
    /\ Idle(r)
    /\ Excuse(CASE pc[r] = "del" -> {due[r], List} [] pc[r] = "incr" -> {List} [] OTHER -> {})
    /\ UNCHANGED article

EditStep(r) ==
    \/ \E o \in Operation : Receive(r, o)
    \/ TrySlug(r)
    \/ Insert(r)
    \/ Find(r)
    \/ CheckSlug(r)
    \/ UpdateRow(r)
    \/ SoftDelete(r)
    \/ Publish(r)
    \/ Withdraw(r)
    \/ Refuse(r)
    \/ DeleteEntry(r)
    \/ IncrementVersion(r)
    \/ Crash(r)

------------------------------------------------------------------------------
(* A reader: findPublishedNewsBySlug, and findPublishedNewsList for List. *)

Leave(v) ==
    /\ at' = [at EXCEPT ![v] = "idle"]
    /\ asks' = [asks EXCEPT ![v] = Nil]
    /\ held' = [held EXCEPT ![v] = Nil]
    /\ current' = [current EXCEPT ![v] = FALSE]

Ask(v, key) ==
    /\ at[v] = "idle"
    /\ at' = [at EXCEPT ![v] = IF key = List THEN "version" ELSE "get"]
    /\ asks' = [asks EXCEPT ![v] = key]
    /\ current' = [current EXCEPT ![v] = key # List]
    /\ UNCHANGED <<cache, held>>

\* A version that cannot be read counts as 0, which is not the current one for long.
TakeVersion(v) ==
    /\ at[v] = "version"
    /\ at' = [at EXCEPT ![v] = "get"]
    /\ \/ current' = [current EXCEPT ![v] = TRUE]
       \/ Faults /\ UNCHANGED current
    /\ UNCHANGED <<cache, asks, held>>

\* What is cached, under whatever version, is the answer; a GET that fails fails the
\* request.
Hit(v) ==
    /\ at[v] = "get"
    /\ current[v] => cache[asks[v]] # Nil \/ Faults
    /\ Leave(v)
    /\ UNCHANGED cache

Miss(v) ==
    /\ at[v] = "get"
    /\ current[v] => cache[asks[v]] = Nil
    /\ at' = [at EXCEPT ![v] = "load"]
    /\ UNCHANGED <<cache, asks, held, current>>

\* The published articles are read; a request that cannot be answered ends here.
Load(v) ==
    /\ at[v] = "load"
    /\ IF Public(asks[v]) = Broken THEN Leave(v)
       ELSE /\ at' = [at EXCEPT ![v] = "store"]
            /\ held' = [held EXCEPT ![v] = [content |-> Public(asks[v]), excused |-> FALSE]]
            /\ UNCHANGED <<asks, current>>
    /\ UNCHANGED cache

\* SET EX of what was read, 300 s for an article or a list and 30 s for the sentinel.
Store(v) ==
    /\ at[v] = "store"
    /\ \/ /\ current[v]
          /\ cache' = [cache EXCEPT ![asks[v]] =
                IF asks[v] = List THEN held[v]
                ELSE [held[v] EXCEPT !.excused = held[v].content # Public(asks[v])]]
       \/ (current[v] => Faults) /\ UNCHANGED cache
    /\ Leave(v)

ReadStep(v) ==
    /\ \/ \E key \in Asked \cup {List} : Ask(v, key)
       \/ TakeVersion(v)
       \/ Hit(v)
       \/ Miss(v)
       \/ Load(v)
       \/ Store(v)
    /\ UNCHANGED <<article, editVars>>

\* Whatever the TTL, it passes.
Expire(key) ==
    /\ cache[key] # Nil
    /\ cache' = [cache EXCEPT ![key] = Nil]
    /\ UNCHANGED <<article, editVars, readVars>>

Next ==
    \/ \E r \in Requests : EditStep(r)
    \/ \E v \in Readers : ReadStep(v)
    \/ \E key \in Keys : Expire(key)

Spec == Init /\ [][Next]_vars

------------------------------------------------------------------------------
(* Properties. *)

\* Every variable has its type, and a slug is one article's, deleted ones included: an
\* update that writes back the slug it has found never takes another article's
\* (news.service.ts:501).
TypeOK ==
    /\ article \in [Articles -> Row \cup {Nil}]
    /\ pc \in [Requests -> Steps]
    /\ op \in [Requests -> Operation \cup {Nil}]
    /\ seen \in [Requests -> [slug : Slugs \cup {Nil}, published : BOOLEAN,
                              date : Dates \cup {Nil}] \cup {Nil}]
    /\ due \in [Requests -> Slugs \cup {Nil}]
    /\ cache \in [Keys -> Entry \cup {Nil}]
    /\ at \in [Readers -> ReadSteps]
    /\ asks \in [Readers -> Keys \cup {Nil}]
    /\ held \in [Readers -> Entry \cup {Nil}]
    /\ current \in [Readers -> BOOLEAN]
    /\ \A a, b \in Articles :
          a # b /\ article[a] # Nil /\ article[b] # Nil => article[a].slug # article[b].slug

\* An invalidation of this answer is under way.
InvalidationDue(key) ==
    \E r \in Requests :
        IF key = List THEN pc[r] \in {"del", "incr"} ELSE pc[r] = "del" /\ due[r] = key

Outdated(key) ==
    cache[key] # Nil /\ ~cache[key].excused /\ cache[key].content # Public(key)

\* A cached article, or a cached "not found", that was right when it was set is wrong
\* only while an invalidation is on its way or lost, if an update or a deletion worked
\* with a status or slug that was no longer the article's, or under a slug the article
\* has just taken: nothing else forgets its invalidation (news.service.ts:542-545,
\* :576-578, :638, :685 and :730).
OutdatedArticleHasACause == \A slug \in Slugs : Outdated(slug) => InvalidationDue(slug)

\* The list of the current version is never older than a change whose increment is
\* done, however long ago a reader has read what it sets (public.service.ts:229-267).
OutdatedListHasACause == Outdated(List) => InvalidationDue(List)

\* What the portal's mappers take for granted of a published article
\* (public.service.ts:143-144).
PublishedHasADate == \A a \in Published : article[a].date # Nil
==============================================================================
