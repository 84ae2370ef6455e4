# A TLA+ model of the ICGroup backend

The backend is a NestJS application: editors and administrators work on users, pages and
news through an authenticated API, a public portal reads what is published. State lives in
PostgreSQL (through Prisma) and Redis (token allowlist, caches, rate limits, BullMQ), files
in an S3 store. Several requests run at a time, in one process or in several; every `await`
on the database or on Redis is a point where another request may go on.

The modules model that: a request is a process, one database statement, transaction or
Redis command is one step, and anything may happen between two steps, including the death
of the process where a constant `Faults` allows it.

## Inventory

| Component | State | Operations | Talks to |
|---|---|---|---|
| Refresh tokens: `TokenService`, `AuthService` | Redis `rt:{jti}`, `rt-family:{family}:{jti}`, `rt-family-active:{family}` | login, refresh (rotation, reuse detection), logout, family revocation | users table (read), one shared ioredis client |
| User administration: `UsersService` | `users` table | create, update, remove (soft), restore; reads | evicts the session and ability caches, audit |
| Session cache: `JwtStrategy` | Redis `user-session:{id}`, 30 s | validate, on every protected request | users table, evicted by `UsersService` |
| Ability cache: `CaslAbilityFactory`, `PoliciesGuard` | Redis `casl:ability:{id}:{role}`, 5 min | build or load the rules of a user and role | evicted by `UsersService` |
| Pages: `PagesService` | `pages`, `page_sections` | create, rename, replace sections, publish, archive | invalidates the portal's page cache, audit |
| News: `NewsService` | `news_articles`, `article_cards` | create, update, soft delete, publish, revert, archive, cards (create, update, delete, reorder), search | invalidates the portal's news caches, audit |
| Public portal: `PublicService` | Redis `public:page:*`, `public:news:*`, list version counter; 5 min, "not found" 30 s | read a page, an article, a list | pages and news tables |
| Audit: `AuditService`, `AuditProcessor`, `AuditInterceptor` | `audit_logs`, BullMQ `audit-queue` | logSync, logAsync, process | every writing service |
| Rate limiting: `RedisThrottlerStorage` | Redis `throttler:*` | one Lua script | every request |
| Storage and media | S3 objects | upload, delete, ping | timeouts |
| Health, HTTP pipeline, validation, rich text, bootstrap | none of their own | | |
| Companies, purchases, rubrics | tables only | no service at this commit | |

What is hard here, and what makes each part correct:

- *Refresh tokens.* GETDEL decides who rotates; the pipeline after it is not a transaction,
  may fail in part, and may be sent twice after a reconnect. Correct: one successor per
  token, one live token per family, no token comes back, a replay is recognised, a
  revocation revokes.
- *Users.* Two administrators act at once, each on a snapshot. Correct: each operation is
  as if it ran alone, an active SUPER_ADMIN remains, every request ends.
- *Session and ability caches.* Filled by readers, evicted by writers, with no order between
  them. Correct: no operation forgets an eviction, no rules of another role, whatever is
  lost heals when the entry expires.
- *Pages and the portal's cache.* A status is read in one statement and used after another.
  Correct: the date of a publication is kept, an outdated entry has a cause, the portal
  catches up.
- *Cards.* Edits are SERIALIZABLE transactions that put all cards in order under a unique
  index; publishing, which compiles them, is not a transaction. Correct: positions have no
  gap, edits are as if they ran alone, a published body that differs from the cards has a
  cause.
- *News and the portal's caches of it.* The hazards of pages, slugs that change, a list whose
  key names a version. Correct: a slug is one article's, an outdated article has a cause, a
  list of the current version misses nothing whose increment is done.
- *Audit.* Jobs are added, run and reported at least once, and retried with backoff. Correct:
  one entry per operation, none invented, a completed job has its entry, an entry is lost
  only where the code says so.
- *Guards.* Counters and blocks with TTLs that run on from different moments; some forty
  decorators and three rule sets that have to agree. Correct: less than twice the limit per
  window, blocks end, a handler runs for those the README names and for nobody else.

`PROJECT.json` lists every hazard at its line with the properties that cover it.

## Modules

| Module | Models | Role |
|---|---|---|
| `RefreshTokens` | `token.service.ts`, `auth.service.ts` | state machine, one action per Redis command |
| `Revocation` | `revokeFamily` against the rest of `token.service.ts` | `RefreshTokens` with the history of what may escape a revocation |
| `MCRevocation` | | symmetry for TLC |
| `RefreshTokensProofs` | | theorems about `RefreshTokens` and `Revocation` |
| `UserTable` | what `users.service.ts` promises | abstract specification: atomic operations on the table |
| `UserAdmin` | `users.service.ts` | state machine: transactions, retries, evictions; refines `UserTable` |
| `MCUserAdmin` | | the PATCH bodies TLC uses |
| `UserAdminProofs` | | theorems about `UserAdmin` |
| `Sessions` | `jwt.strategy.ts`, `casl-ability.factory.ts`, `policies.guard.ts` | composes the caches and their readers with an instance of `UserAdmin` |
| `Judgements` | what a protected request is judged by | `Sessions` with the history of the requests that a change has overtaken |
| `MCSessions` | | the PATCH bodies TLC uses |
| `SessionsProofs` | | theorems about `Sessions` and `Judgements` |
| `Pages` | `pages.service.ts`, the page half of `public.service.ts` | state machine: editors, readers and the cache of one slug |
| `PagesProofs` | | theorems about `Pages` |
| `CardList` | what `news.service.ts` promises of cards | abstract specification: atomic operations on a list |
| `Cards` | the card operations and transitions of `news.service.ts` | state machine: card transactions against `publish`; refines `CardList` |
| `MCCards` | | the operations and symmetry TLC uses |
| `CardsProofs` | | theorems about `Cards` |
| `News` | the articles of `news.service.ts`, the news half of `public.service.ts` | state machine: editors, readers and the caches of articles and lists |
| `MCNews` | | the bodies TLC uses, symmetry |
| `NewsProofs` | | theorems about `News` |
| `AuditLog` | what `audit.service.ts` promises | abstract specification: an append-only log |
| `AuditTrail` | `audit.service.ts`, `audit.processor.ts`, the audit calls of `users.service.ts` | state machine: requests, jobs and workers; refines `AuditLog` |
| `AuditTrailProofs` | | theorems about `AuditTrail` |
| `Routes` | the controllers' decorators, `casl-ability.factory.ts` | tables: routes, rules per role; the README's tables beside them |
| `Guards` | `throttler-storage.ts`, `jwt-auth.guard.ts`, `policies.guard.ts` | state machine: what a request passes before its handler |
| `MCGuards` | | limits and windows for TLC |
| `GuardsProofs` | | theorems about `Guards` |

### RefreshTokens

`allow`, `consumed` and `activeJtis` are the three families of Redis keys; `jwts` are the tokens
clients hold, any of which may be presented at any time; what `refresh` reads of the users table
is a choice of `LoadUser`, since an account may be switched off and on at any time. A request's
`pc` names the next command: `LoadUser`, `GetDel`, then `Mark`, `SetEntry`, `AddActive`,
`RemoveActive` (the pipeline of `rotateRefreshToken`, and of `issueTokens` from `SetEntry` on),
`Reply`; after a miss, `ReadMarker`, then `ReadActive`, `RevokeOne`, `RevokeSet`, `RevokeReply`
(`revokeFamily`); `DeleteEntry`, `RemoveActive`, `LogoutReply` (`revokeRefreshToken`).
`CommandFails` lets a command of a pipeline fail while later ones run, `Resend` starts the
pipeline again after a reconnect, `ResendRevocation` the one of `revokeFamily`, for the
`members` it has read, until it is answered; `GetDelReplyLost` executes GETDEL twice, `Crash`
ends a request anywhere. `spent` and `parent` are history that only properties read.
`ActiveExpires` may come at any time no delivered token of the set is live; it may come between
the SADD and the EXPIRE of a rotation, because until EXPIRE the set has the TTL of the token
before.

### Revocation

The steps of `RefreshTokens` and no others; each also says what becomes of `excused`, the tokens
that have had a cause to escape a revocation. There are five: minted while a revocation of the
family had read the active set and was not answered yet (`MintedBeside`: its DELs, the first time
or sent again, do not name the token, and the DEL of the set forgets it), being issued when a
revocation read it (`ReadBeside`), a DEL of `revokeFamily` that failed (`NotDeleted`), a DEL of a
logout that failed while its SREM did not (`LoggedOutInPart`), a set that expired while a
rotation was issuing the token (`ExpiredBeside`). An excuse ends when the token is dead in a
client's hands. The history stays out of `RefreshTokens`, whose actions are the code's.

### UserTable, UserAdmin

`UserTable` is the promise: each of `Create`, `Update`, `Remove`, `Restore` happens at once
and leaves an active SUPER_ADMIN. `UserAdmin` is the code: `Begin` takes a snapshot and
decides (`loadManagedUserOrThrow`, `ensureSuperAdminRetention`), `CommitTx` commits,
`Retry` and `GiveUp` are P2034 below and at the limit, `EvictAbilities`, `EvictSession` and
`Answer` follow a commit. PostgreSQL is external: `rivals` holds what has been committed
since a transaction's snapshot, and `Conflicts` says when PostgreSQL *must* refuse (same
row written; or both counted the active super administrators and both take one away, the
dangerous cycle of serializable snapshot isolation). It may refuse at any other time too, so
nothing rests on transactions that would be refused needlessly. A row is its role, its
`isActive` flag and whether it is deleted; a change of password or name is a change of
neither.

### Sessions

`Admin == INSTANCE UserAdmin` brings all of its steps; `AdminStep` adds what each does to
`session` and `ability`. A protected request goes through `Call`, `HitSession` or
`MissSession`, `Load`, `CacheSession`, `HitAbility` or `MissAbility`, `CacheAbility`, or ends
before the abilities on a route without `@CheckPolicies` (`Unguarded`). A failing GET of a
session counts as a miss, a failing GET of an ability fails the request, as in the code. An
entry's age counts ticks of its TTL; `excused` is history: the entry was already outdated
when it was set, or its eviction was lost.

### Judgements

The steps of `Sessions` and no others; each also says what becomes of `overtaken`, the requests
that may be judged by an outdated account: the account was changed while the request was in
progress (`ChangedBeside`), or the request took a cached session that is `excused` or whose
eviction is on its way (`TakesOutdated`). `JudgedAsItStands` says that every other request has
the row as it is, and finds no rules but those of the row's role. It relates the two caches:
rules built for a role that the account had before, and whose eviction was lost, may lie about
for their five minutes, and are not what a request with a fresh session finds.

### Pages

One slug. `Create`, `Find` then `Rename`, `Publish` or `Archive`, and `Begin`, `CommitTx`,
`Retry` (`replaceSections`) are the editors' steps; `Invalidate` is `invalidatePage`. `Put`
writes the page and marks every open transaction `stale`, which PostgreSQL refuses because
`replaceSections` updates the page's row. A reader goes through `Ask`, `Hit` or `Miss`,
`LoadRow`, `LoadSections`, `Store`: Prisma fetches the sections with a statement of their
own, so a reader may combine a row with later sections. `publishedAt` is the request that
published the page, which tells two publications apart. `excused` is the set of parts that
were outdated when the entry was set, or all of them when an invalidation was lost.

### CardList, Cards

One article. `Begin` is the first half of `createCard`, `updateCard`, `deleteCard` and
`reorderCards`: the checks, on the transaction's snapshot; `CommitTx` the second. As in
`UserAdmin`, PostgreSQL is external: a commit marks the open transactions it conflicts with
as `stale` (both rearrange the list, or both write a row), and a stale one cannot commit.
Statements outside SERIALIZABLE transactions, those of `publish` among them, take no part in
that. `Arranged` is the list `persistCardOrder` is called with. In which order its UPDATE
visits the rows is PostgreSQL's choice: it succeeds if some order lets every row find its
position free (`CanPersist`), and fails (`DuplicateOrder`) if some order does not. `publish`
is `Find`, `ReadCards`, `Publish`; `Withdraw` is `revertToDraft` or `archive`. `minted` (ids
are never used twice) and `raced` (an edit was open or committed while `publish` was at work)
are history. A PUBLICATION card whose article is not published is a refusal that may happen
to any card. The caches of the portal are in `News`.

### News

Several articles and their slugs. `Receive` starts a request; `TrySlug` and `Insert` are
`create` (`ensureUniqueSlug`, then the INSERT that may still collide); `Find` is
`findArticleOrThrow`, `CheckSlug` is `assertSlugAvailable`, `UpdateRow`, `SoftDelete`,
`Publish` and `Withdraw` (`revertToDraft`, `archive`) are the statements that write;
`DeleteEntry` and `IncrementVersion` are `invalidateNewsArticle`. `update` and `softDelete`
write whatever row they meet and invalidate by what they have found, so `seen` keeps what a
request will use of the row it read, and nothing else. `cache[List]` is the list under the
*current* version: an increment empties it and clears `current` of every reader, whose list
then goes under a version nobody asks for. An entry's `excused` is history: it was outdated
when set, or its invalidation was lost, or was never going to come (`Overlooked`: the
article had been published or renamed since the request found it, or takes a new slug). A
date is one of `Dates` or none; a status is published or not.

### AuditLog, AuditTrail

`Commit`, then `LogSync` (a change of a role) or `LogAsync`; `AddUnanswered` is a queue
command that is sent again. `Take`, `Insert`, `Complete`, `Fail` are a worker's attempt:
`Insert` is the processor, for which P2002 is success. BullMQ is external, modelled from what
the code relies on: `Stall` gives the job of a worker that is held up, or dead, to another one
while the first may still be at it, `MaxStalled` times; the first one's report is then in vain
(`locked`). `made` counts failed attempts, `wait` the backoff (BullMQ's exponential one:
`Doubled[n]` is the delay doubled n times, a recursive function), `Remove` is `removeOnComplete`
and `removeOnFail`, after which an id is free again. `elapsed` and `lost` are history.
`AuditInterceptor` would call the same two methods and is left out: at this commit no route
carries `@Audit()`.

### Routes, Guards

`Routes` has one record per route with what the decorators say, handler over class
(`getAllAndOverride`), and the rules of `buildAbility`. In `Guards` one client asks one route,
again and again: the throttlers count per client and handler, so nothing of another route is
involved. `Throttle` runs the Lua script for each throttler the route does not skip
(`Increment`), `Authenticate` is `JwtAuthGuard`, `CheckPolicies` is `PoliciesGuard`; the
abilities come from the rules directly, their cache is in `Sessions`. A tick is a second of a
TTL. `letIn` is history: by throttler and age, how many requests were let in during the last
age + 1 ticks, so that its last entry is what one window let in.

## Runs

| Run | Instance | Shows |
|---|---|---|
| `refresh` | 1 user, 1 family, 3 tokens, 2 requests, faults | the safety properties of rotation; a dead family stays dead; a live token is where a revocation looks for it, or has one of five excuses, and nothing else survives a revocation |
| `refresh_revocation` | 3 tokens, 2 requests, no faults | violation: a revocation misses the successor of a racing rotation |
| `user_admin` | 2 accounts, 2 requests, 2 attempts, faults | retention, atomicity (refinement of `UserTable`), termination |
| `sessions` | 2 accounts, 1 request, 2 calls, TTL of 2 ticks, faults | no forgotten eviction, a call that is not overtaken is judged by the account as it stands, lockout takes hold although evictions may be lost |
| `sessions_stale` | as above, 1 call, no faults | violation: an old row is cached after its eviction |
| `pages` | 2 names, 2 section lists, 2 editors, 1 reader, 2 attempts, faults | no skipped invalidation, kept publication date, the portal catches up |
| `cards` | 3 cards, 2 texts, 2 requests, 2 attempts, faults | positions without gap, atomic edits (refinement of `CardList`), a published body with a cause |
| `cards_reorder` | 2 cards, 1 request, no faults | violation: two cards cannot change places |
| `news` | 2 articles (1 edited), 2 slugs, 1 date, 2 requests, 1 reader, faults | outdated articles and lists have a cause, although slugs move between articles |
| `news_undated` | as above, no faults | violation: a published article without a date |
| `audit` | 2 operations, 2 workers, 3 attempts, 1 stall, faults | entered once (refinement of `AuditLog`), completed means entered, patience, every commit entered or lost |
| `guards` | all 40 routes, all roles, limits 3, 2 and 2, windows of 2 and 3 ticks, faults | limits, blocks, and the README's tables |

`refresh` is the largest run (650 thousand states, a minute and a half with two workers);
`sessions` has half a million.

*Why the bounds suffice.* The races are between two requests, or a request and a reader: a third
actor adds interleavings of the same pairs, and the theorems below cover any number for the
properties they name. Three tokens give a family a parent, a child and a grandchild, which a
replay of the first and a rotation of the second need. Two attempts distinguish the retry from
the last attempt (the code has 5). Two accounts are needed for retention (the last two
administrators). `sessions` has one administrator's request, so that two calls and the TTL fit;
its theorems hold for any number. Three cards are the fewest that can be inserted into and
deleted from the middle. A TTL of two ticks lets a renewal be seen. `news` has two articles for
two slugs because a slug must be able to pass from one to the other; one slug is asked for, and
the second article is there only to hold slugs. `audit` has the three attempts of the code, and
two workers because a stalled job is in the hands of two. `guards` counts with limits of 3 and 2
and windows of 2 and 3 ticks: the windows must differ, and a block must be able to end while the
other throttler still counts; one client has one request at a time, which the counters do not
see. All bounds are constants; no action has a hidden one. The sets of ids (`Families`, `Jtis`)
are finite, which is the only reason why `refresh` and `refresh_revocation` stop; `audit` stops
when every operation has been dealt with. The deadlock check of these three is off.

*Fairness.* `UserAdmin`: weak fairness of each request's `Progress`, because the event loop
runs every request and the database answers or fails (`Crash`). It is not assumed of `Receive`
or `Crash`. `Sessions` and `Pages`: only that Redis expires keys. `Guards`: only that time
passes, for the same reason. `AuditTrail`: weak fairness of the audit call that follows a commit,
of each worker's steps and of time (the event loop runs them), of `Due` and `Stall` (BullMQ wakes
delayed jobs and notices stalled ones); strong fairness of `Take` for each job, because BullMQ
hands waiting jobs out in order, so that a job cannot wait while a worker comes free again and
again. `News` and `Cards` assume nothing. Where a request has no fairness it may stop for good
at any step, a reader between its SELECT and its SET.

### Where the code and its documentation differ

Four are violation runs with a finding in `PROJECT.json`.

1. `refresh_revocation`: `README.md:562` promises that a replay revokes the whole family.
   `revokeFamily` reads the set of active tokens and then deletes what it has read; a rotation
   of the family's live token between the two survives, and the DEL of the set forgets it.
   `RevocationSparesNoOther` bounds the damage: that race, which lasts until the revocation is
   answered because its DELs may be sent again, a failed command, or a set that expires in the
   middle of a rotation, and nothing else.
2. `sessions_stale`: `jwt.strategy.ts:27-30` promises that changes take effect within one
   request cycle. A request that read the row before the change caches it after the eviction,
   for 30 s.
3. `cards_reorder`: `news.service.ts:1026` says that `reorderCards` replaces the order values.
   Its one UPDATE violates the unique index for every arrangement but the present one (a bug;
   theorem `RearrangementIsRefused` for any number of cards).
4. `news_undated`: `public.service.ts:143-144` takes the date of a published article for
   granted. `update` (`news.service.ts:513-515`) writes null whatever the status (a bug).

Others were met on the way and have no run of their own:

- `public.service.ts:326` says that PagesService invalidates after mutations to published
  content. `updateName` (`pages.service.ts:262`) decides by a status it read before its UPDATE;
  `RenameOutdates` and `excused` in `Pages` and `News` are this case.
- `news.service.ts:812` says that checking the status inside the transaction catches concurrent
  publishes. `publish` (`:601`) is not a SERIALIZABLE transaction, so nothing is caught; `raced`
  in `Cards` is this case.
- `README.md:593` says that a tracker is blocked for the remainder of the window. The script
  blocks for a full TTL from the request that exceeds the limit; `BlockOutlivesCount` is that.
- `README.md:595` says that `@SkipThrottle()` exempts `/health` from all throttling. Without an
  argument it skips a throttler named `default`, and there is none: the `login` throttler caps
  `/` and `/health` at 5 a minute, which is why `LoginCapsNothingElse` names `AppRoutes`.
- `README.md:571-572` lets both managers read audit logs. The route asks for `manage`
  (`StricterThanDocumented`).
- `README.md:628` and `audit.service.ts:18-19` say that login and logout are logged. `AuthService`
  calls no audit method, and no route carries `@Audit()`.
- An entry's timestamp is the database's `now()` at its insertion, which for a job may be long
  after the commit: entries need not be in the order of what they report.

## Proofs

The eight proof modules have the same shape: `Init => IInv`, `IInv /\ [Next]_vars => IInv'`, and
the theorems follow by temporal logic.

`RefreshTokensProofs` (assumptions: `ParameterAssumption`, `NilAssumption`; any sets). The
properties alone are not inductive: that a family has one live token follows only from who may
add one. `Owner` says that a request that is issuing a token owns its family (no other request
issues there, no other token is live there); `Minted` that ids are never used twice; `Pending`
that the entry of a token being issued is absent or its own, and that its parent is marked
unless a command has failed; `Carries` what a request holds at each step. Theorems:
`TypeCorrect`, `OneLiveToken`, `OneSuccessor`, `ReplayDetection`, `SpentForGood`,
`EntriesMatch`, and `DeadForGood`, an action property: GETDEL must hit a live entry before
anything of a family is issued. For `Revocation` the invariant is extended by `EscapeInv`: what
is about to be delivered is in the active set already (`IssuedIsFindable`), a logout whose DEL
has not failed has done it (`LogoutIsDone`), and a revocation has on its list what clients can
use, and an excuse for what is being issued (`ListIsComplete`). `EscapeKept` says what a step
has to show for these parts; there is one lemma per command that disturbs them. While a
revocation is not answered, what is minted beside it is excused; so its DELs may run again for
the `members` it has read (`EscapeResendRevocation`). That the SREM of a rotation takes no live
token out of the set rests on `Owner`. Theorems: `Findable`, `NoOtherIsSpared`.

`UserAdminProofs` (assumptions: `NilAssumption`, `AdminAssumption`, among them that `Users` is
finite, which counting needs). The heart is `OpenTransactions`: while nothing committed since
its snapshot conflicts with it, what an open transaction has decided is *still* true of the
table as it is (`StillRight`), including that another active SUPER_ADMIN exists if it takes
one away. A commit preserves it for the others unless it conflicts with them
(`ApplyKeepsOpen`). Theorems: `TypeCorrect`, `Retention`, and `Refinement`: every step is a
step of `UserTable` or leaves the table alone.

`PagesProofs` (assumptions: `PagesAssumption`, `SentinelAssumption`; any sets). An outdated
entry needs a cause at every step, although `replaceSections` decides whether to invalidate
by a status it read in its snapshot. `Snapshots` is why that is sound: a transaction that may
still commit has read the status that the page still has, so one that skips the invalidation
leaves an unpublished page. `RenameOutdates` bounds the one operation for which this fails: it
can make the name outdated and nothing else. `Carries` and `Reading` say what a request and
a reader hold at each step. Theorems: `TypeCorrect`, `CauseOfOutdated`, `DateKept`.

`CardsProofs` (assumption: `CardsAssumption`, among them that `Ids` is finite). Two invariants.
`PublishedBodyHasACause` becomes inductive with `NoEditOpen`: while an article shows what its
cards say, no edit is between its checks and its commit, because an edit cannot begin then.
`PositionsAreContiguous` needs `ListInv`, whose heart is `Current`: while a transaction that
rearranges the cards may still commit, its snapshot shows the positions as they are, and its
checks hold of them. A commit keeps that for the others because two rearrangements conflict
(`CommitKeepsCards`, `CommitKeepsList`), and a creation because the id of a new card is nobody
else's (`Fresh`). The lemmas on lists say what inserting and removing make of a list, that
positions without gap and lists without duplicates are the same thing (`ListingInOrder`,
`Numbering`), and hence that the cards are the list `InOrder`. What PostgreSQL refuses
(`Conflict`, `CanPersist`) is stated in the model; the theorems rest on it. Theorems:
`CauseOfPublishedBody`, `TypeCorrect`, `ContiguousPositions`, and `Refinement`: every commit
inserts into the list as it is at that moment, updates or deletes one of its cards, permutes it,
or leaves it alone. `RearrangementIsRefused` is about the data alone: if the new positions are
the old ones in another arrangement, the cards that move form a set in which each one waits for
another, so no order of the rows works. It takes no induction, because `CanPersist` is stated by
such sets.

`SessionsProofs` (assumption: `SessionAssumption`). `UserAdmin` comes in by INSTANCE, so what its
table does is proved once more about `Admin!`. What a commit makes of a cached session depends on
what the transaction decided on its snapshot. `Needless` is why that is sound: while a
transaction may still commit, an operation that evicts nothing writes the row that is there, or
a first one. `Received` and `Carries` say what an administrator's request and a protected one
hold. For `Judgements` the invariant is extended by `InTime`: from the moment it has a session, a
request that is not overtaken works with the row as it is. At a hit that follows from
`OutdatedSessionHasACause`, afterwards from the history. Theorems: `TypeCorrect`,
`CauseOfOutdatedSession`, `JudgedFairly`.

`NewsProofs` (assumptions: `NewsAssumption`, `SentinelAssumption`). `Works` and `Reading` say what
a request and a reader hold at each step; `HeldHasACause` is `OutdatedListHasACause` for a list
that a reader has read and not yet stored, without which storing it would break the invariant.
Lemma `WriteChanges` bounds a write: it changes the answers under its slugs, and the list.
Theorems: `TypeCorrect`, `CauseOfOutdatedArticle`, `CauseOfOutdatedList`.

`AuditTrailProofs` (assumption: `AuditAssumption`). `Called`, `Enqueued` and `Handled` follow an
operation through its audit call, its job and the workers that hold it; time and the number of
attempts play no part. Theorems: `CompletedJobs`, and `Refinement`: every step appends the entry
of a committed operation that has none, or leaves the log alone.

Time is the matter of a second invariant, `JobInv`. For a job that has not stalled too often,
what it has waited and what it has still to wait come to at least `Doubled[made] - Delay`, the
sum of the waits so far (`JobOk`); and only one worker holds a job's lock, so only one can report
a failure that counts (`Locks`). At the last failure that sum is `Patience`. It needs to know
that `Doubled` doubles: the recursion equation (`DoubledIs`) is proved from the definition by
induction over the natural numbers, in the form of `SetInduction`, a statement about sets that
follows from the well-foundedness of `<` (the library's induction theorems take an operator,
which no installed prover can instantiate). Theorems: `TypeCorrect`, `PatienceBeforeFailure`.

`GuardsProofs` (assumptions: `GuardAssumption`, and `RolesAssumption`: the roles are different;
any limits and windows, any number of requests of the client at once). `Counters` says what count
and TTL can be together: a block is set with a full TTL, so no counter that is there when it is
set can outlive it. `LessThanTwiceTheLimit` alone is not inductive, since it speaks of one age.
`Quota` speaks of all: what was let in before the present window is less than the limit, what was
let in since is counted, and as far back as the tick after the window's first hit the requests
let in are fewer than the hits, because the first hit lies further back. `Counted` says that
nothing counts in a throttler the route skips, `Checked` what the guards behind a request have
made sure of. The rest is about tables: `RouteTable`, `Unskipped` and the lemmas on what each
role can do put the decorators and rules into a form in which `GrantedIsDocumented` and
`DocumentedIsGranted` compare them with the README's, for any route and role. Theorems:
`TypeCorrect`, `BlockEndsLast`, `LessThanTwice`, `LoginCapsOnlyThese`, `Served`, `Refused`.

`EntriesMatch` and `RearrangementIsRefused` are proved and checked by no run.

Every invariant and every action property that a passing run checks is also a theorem, and so are
the three refinements. Only model-checked are `RequestsEnd`, `LockoutTakesHold`,
`PortalCatchesUp`, `EveryCommitIsEntered` and `BlocksEnd`: liveness, which TLAPS does not prove
under fairness.

## Not modelled

- Storage: one PUT raced with a timer, and no state in the program that refers to the object. The
  search of news: one SQL query, whose ranking is PostgreSQL's. `AuditInterceptor`: no route has
  the decorator it looks for.
- Redis answers for what it has stored. With `appendfsync everysec` (`docker-compose.yml:110`) a
  crash of the Redis server may lose the last second of writes: an audit job that was added, a
  consumed marker. A command of a connection that is lost runs before it is sent again, or not at
  all; none is left behind to run later.
- The lists of version 0, which readers are served when the version cannot be read: `News` takes
  the step, but its properties follow the list of the current version only.
- The many lists of one version (pages, filters) are one list: they are read from the same
  articles and forgotten together.
- The `ttl` that `@Throttle` gives the search is the global one's 60 s; `Guards` uses one `Ttl`.
- The branches for cache entries that are not JSON (`jwt.strategy.ts:60-64`,
  `casl-ability.factory.ts:99-104`, `public.service.ts:190-195`): no code writes one.
- Validation (DTOs, Zod): it refuses a request before anything is read or written.
- E-mail addresses, names, passwords, hashing; wording of errors; logging.
- Caches outside the program: browsers and proxies may keep a portal answer for the
  `max-age` of `public.controller.ts`.
- Reads without effect: lists, searches, health probes.
- Money paths: companies and purchases have tables and no code.

## Plan

All components with state of their own are modelled. What is left, as the code grows:

1. `Pages` and `News` with several slugs under one page cache, if a mutation ever spans two.
2. Storage, when a record of uploaded objects exists that could disagree with the store.
3. Companies and purchases, when they have services.
