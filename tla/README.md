# Formal models of sponsor.krd

TLA+ specifications of the stateful parts of the repository: the backend's
protocols over PostgreSQL, Redis, the disk, the DNS and TikTok, and the event
queue in the visitor's browser. TLC checks each module on small instances; the
TLA+ proof system proves their types and their safety for all sizes.
Paths below are relative to the repository (`backend/...`, `frontend/...`).

- [The system](#the-system)
- [Modules](#modules)
- [Runs](#runs)
- [Proofs](#proofs)
- [Known divergences](#known-divergences)
- [What is not modelled](#what-is-not-modelled)
- [Plan](#plan)

## The system

sponsor.krd gives businesses public pages (linktrees, forms, an advertising
page) on subdomains or on domains of their own, measures visits, forwards
conversions to TikTok, and has a dashboard for the business and one for the
platform's administrators. A NestJS backend (one or several stateless
processes, docs/architecture.md) keeps its state in PostgreSQL, caches in Redis
and stores uploads on disk; a Next.js frontend renders pages and proxies the
API. What makes it hard is that every process runs the same timers and handlers
over the same rows, and that much of the work (HTTP to TikTok, DNS, TLS, files,
Redis) happens between transactions.

| component | state | operations | interacts through | hard behaviour | what must hold |
|---|---|---|---|---|---|
| TikTok delivery outbox (`analytics/tiktok`) | `marketing_event_outbox`, `marketing_delivery_attempts`; the jobs in hand of each process | claim, send, split, record, alert, reclaim | rows written by ingestion, deleted by clearing, reopened by the dashboard, cancelled when a pixel goes | two processes per row, stale locks, crashes, retries | a lease is exclusive until it is held past the cutoff, and settled rows stay settled but for rows so late; attempts tell what happened; every row settles |
| Sign-in sessions (`auth/session.service`, `redis`) | session tables; `session:<token>`, `business:sessions:<id>` in Redis | sign in, use, sign out, revoke, clear on change | guards of every request; settings, suspension, impersonation | a cache beside the database, lossy Redis, several statements per operation | served only while valid; nobody served as somebody else; refused for a cause; bounded number |
| Custom domains (`domains`) | `business_domains` | add, verify, select, remove, resolve, recheck | DNS, HTTPS, every process's minute timer | answers from outside a transaction applied late; leases; lost batches | a later result is never overwritten; a selection never comes back by itself; a name proven once is not freed by the next claim; right records are renewed |
| Uploaded media (`storage`) | files, `uploaded_media_assets`, the columns that hold addresses | upload, save, replace, import, clean up, inventory | linktrees, forms, settings, the six-hour timer | files have no transactions; two deletions at once; crash and inventory | nothing in use is deleted; a new upload has its grace period; garbage is collected |
| Analytics (`analytics/unified-analytics`) | `analytics_visitors`, `_sessions`, `_events`, `_page_daily`, `_action_daily` | ingest, clear | submissions, deletion of form data, outbox | statements of two transactions interleave; cascades; deadlocks | totals match events; other pages are left alone; every request ends |
| Forms (`forms`) | `forms`, `form_submissions` | create, edit, activate, archive, submit, delete data | analytics, media, visitors' pages | drafts validated before the transaction; a lock and a second connection; answers to an older revision; repeated submissions; the response count | public forms are complete; responses belong to the questions that were shown; receipts outlive edits; the count is the number of responses; every save ends |
| Browser event queue (`frontend/src/lib/utils/client-queue.ts`) | a queue in localStorage and one in each tab's memory | queue, click away, flush, beacon, acknowledge | the batch endpoint and the redirect hop | tabs overwrite each other, pages die, answers are lost, limits | no event is lost without an answer; every event leaves the queue |
| Approvals and policy (`auth/approval.service`, `authorization.service`, `authorization.guard`) | `permission_approval_requests`, the plan's rules, emergency denies; the cached policy of each business | authorize, queue, review, carry out, expire | almost every change of the dashboard; the connection pool | a cached policy against a change of the plan; two reviews; a review holds a connection and a row while it authorizes | a request is decided and carried out once; a deny stops everything; a stale policy goes away; every call ends |
| Linktrees and links (`linktrees`, `links`) | `linktrees`, `links` | create, copy, edit, switch, archive, delete, import | public reads, media, approvals | limits counted outside the insert; unique slugs and one default page; caches cleared after the commit | limits hold; one default page; cleared contents stay cleared |
| Public pages (`public`) | page bodies in Redis for two hours | show a page by slug or uid | everything that changes pages | a cached body of a page that was archived, renamed, deleted or lost its address | what is served is public there; old contents go away |
| Onboarding, codes, handoffs (`onboarding`) | challenges, states and handoffs in Redis; invitations, applications | send a code, verify, sign up, fill in, submit, review, make the business | sessions, mail, subdomains | single use and attempts with several verifications at once; one invitation used by several people | a ticket works once and fails for a cause; approved applications have their business |
| Subdomains (`subdomains`, a trigger) | blocked names; the names of businesses and applications | block, reserve, assign, rename | onboarding, administration | checks before the transaction, or none; a name read earlier written back | a name is reserved once, assigned once, and not blocked meanwhile; a reserved name is taken only by an edit under way |
| Billing and entitlements (`billing`) | subscriptions, plans, extensions | assign, extend, expire | policy, public pages | dates, overlapping changes | one effective subscription |
| Retention, communications, mail | runs, notifications, conversations | clean up, notify, send | timers | one run at a time | no two cleanups at once |
| Pixels, settings, impersonation, advertising, revenue, administration | configuration rows | edits | the components above | mostly single statements | see the component list in PROJECT.json |
| Migrations, health, configuration, contracts, web application | schema versions, counters | migrate, report | - | a lock, no protocol beyond it | - |

PROJECT.json lists all components with their sources and status, and under
"hazards" what is hard to test in each, at its line, with the properties that
would catch it.

## Modules

| module | models |
|---|---|
| `TikTokOutbox` | the delivery worker of every process, and what the rest of the system does to its rows |
| `EventDelivery` | what the outbox promises for an event: the abstract specification it implements |
| `TikTokOutboxProofs` | theorems about the outbox |
| `Sessions`, `SessionsProofs` | sessions and their cache; theorems |
| `Approvals`, `ApprovalsProofs` | the policy of one permission, queued changes and their review; theorems |
| `Linktrees`, `LinktreesProofs` | link pages, their limit and default page, and the visitors' cache; theorems |
| `Onboarding`, `OnboardingProofs` | tickets, invitations, applications, subdomains; theorems |
| `CustomDomains`, `CustomDomainsProofs` | custom domains; theorems |
| `MediaStorage` | uploads, records and cleanup |
| `PageAnalytics` | ingestion, submission, deletion and clearing, statement by statement |
| `Forms` | the forms of one owner: editing, titles, activation, and visitors' responses |
| `AnalyticsQueue` | the browser's event queue and the endpoint that answers it |
| `MediaStorageProofs` | theorems about uploads, and about the forms, which hold some of them |
| `PageAnalyticsProofs` | theorems about analytics, and about the queue the events come from |
| `MC...` | the instances TLC checks |

`Forms` and `AnalyticsQueue` share a module of theorems with a neighbour and
therefore have names of their own where the others say `Init`, `Next`, `Spec`,
`TypeOK` or `vars` (`FormsSpec`, `QueueSpec`).

Common conventions. A step is what nobody else can interleave with: a
transaction or a single statement (a statement *within* a transaction in
`PageAnalytics`, where row locks matter), one Redis command, one file operation,
one task of a browser tab. What a process or tab remembers between two steps is
per-actor state, and a crash loses it. Tokens, rows, hostnames and events are
model values; payloads, wording and formats are left out. Things the code does
not decide (an answer of TikTok, a DNS record, a lost command, the order of
`ORDER BY` ties) are choices.

### TikTokOutbox

One row per event and destination. `Claim` is the whole claim transaction
(cancel what can no longer be delivered, lease up to `BatchSize` rows);
`SendGroup`, `SendSolo` and `Respond` are the requests of a pass, a rejected
group being sent again one by one; `Record` writes attempts and outcome in one
transaction, by row id alone as the code does; `RecordFails`, `Crash` and
`Alert` are the ways a pass is cut short or ends. `Enqueue`, `Clear`,
`RemoveDestination`, `ToggleDestination` and `RetryFailed` are the rest of the
system. The unit of time is the delivery timeout (10 s): a request takes at most
one, and clocks are relative (age of a lock, rest of a delay), so the state
space is finite without a bound on time. `Stalls` says whether time may pass
while a process works between two requests.

A full pass of the code may take 50 x 1.5 requests of 10 s, 750 s, and the lock
goes stale after 600 s: another process can claim rows that are still being
sent. Nothing in the model assumes otherwise. `late` is history: rows that a
worker has held past the cutoff, until nobody holds them (`LetGo`). Of rows that
are not late leases are exclusive; a late row may be settled twice, and
`EventDelivery` says so (`Overrun`, `Settle`): otherwise an event is settled
once and reopened only by hand. `OutboxStolen` shows that the comment on the
cutoff promises more than that.

### Sessions

One business, one administrator of the platform, and tokens of owners, of
administrators and of sessions an administrator has borrowed. A call is a
sequence of queries and Redis commands: sign-in (insert, trim, evict, store,
track), use (`Get`, then `Verify` of a cached identity or `Load` from the
database, `Drop` or `Store`), sign-out, revocation, and the changes of the
business record with the clearing of the cache (`Gather`, `Wipe`). Redis loses
commands and keys when `Lossy`. `seen` is history: whether the token was valid
or invalid at some moment of the call, which is what "served while valid" has to
mean for a call that takes time.

### Approvals

One permission of one business. A call decides (`Ask` the cache, `Read` and
`Keep` on a miss, `Decide`, which asks for the emergency deny each time) and
then makes its change, is refused, or queues a request (`FindDuplicate`,
`StartInsert`, `Insert`). A review is one transaction: it locks the request and,
because the query joins it, the permission (`LockRequest`, `LockPermission`),
authorizes the change with queries on other connections, carries it out, clears
the cached policy, and only then commits. `List` expires old requests in one
statement. A statement needs one of `Pool` connections; waiting for one, or for
a row, ends by the timeouts of the pool (`GiveUp`). `ChangePlan` is any change
of what the policy is made of. The five queries that make a policy are one
`Read`. All requests are for the same change, so that each duplicates the
others; `recent` are those of the last five minutes, within which a duplicate
is looked for. `seen`, `missed`, `announced` and `since` are
history: the states of the deny during a call, requests inserted since its look,
the newest plan that all caches are rid of, and which that was when the call
began. What an approved change does is in the module of what it
changes.

### Linktrees

The pages of one business. An address is what a visitor asks for: a uid, which
a page has for ever, or a slug; a slug may be another page's uid, and wins.
The contents of a page are a version (`body`). Visitors `Look` in the cache,
`Check` a cached page against the database, or `Query` by slug and then by uid
and `Store`. Creating checks the slug, takes the advisory lock of the business,
counts and inserts (`Create`, `Lock`, `Count`, `Insert`); the dashboard's first
look makes a default page without the lock (`CreateDefault`, `InsertDefault`).
Changes commit and clear the cache after it (`Write`, `Switch`, `Archive`,
`Touch`, `Delete`, then `Clear`); `Touch` stands for every change of contents
alone, links included. `ApprovedUpdate`, `ApprovedDelete` and `Import` clear
nothing visitors read. A failing statement and a lost process are the branches
that change nothing; a process lost between commit and clearing is a clearing
that Redis did not get. Left out: tombstones (whether a missing page is
answered 404 or 410), other uids for imported pages, a business that is
suspended, and the platform's own pages, which are read the same way under
another key. `shown`, `rivals` and `announced` are history.

### Onboarding

Tickets are what Redis holds for one use: e-mail codes with their attempts,
states of a Google sign-in, and hand-offs. `Verify` consumes the ticket, `Judge`
compares, `PutBack` writes it again with one attempt less, `Grant` and `SignUp`
are what the right code gets. An answer sent from another host finds the ticket
and loses it (`elsewhere`). `SignUp` is the transaction that uses an invitation
and opens, or reopens, an application; `Fill`, `Submit`, `Decline` and `Approve`
are its life, `DeleteBusiness` its end. `Reservable` and `Assignable` are the
trigger and the unique indexes on subdomains, which every statement that writes
a name or a status meets. `Shop` is any other business; only it is edited:
`StartRename` reads its name and takes another one that is vacant, or, when other
fields are edited, the same one with no look; `Rename` writes that name, whatever
the name is by then. `guesses`, `granted`, `lost`, `joined` and `racing` are
history; `racing` are the people who reserved a name while an edit was about to
write it. Left out: rate limits, challenges of accounts that do not exist, the
linking of identities, and conflicts of e-mail addresses, which are a sign-in
that fails.

### CustomDomains

Checks and selections are callers; each reads the row (its `xmin`: `changed`),
asks the outside world, and writes only if the row is as it was. `later` and
`overtaken` are history: they order the lookups of one row; so is `verified`, the
rows to which a proof was recorded since they were added. `Sweep` and `Take` are
the minute's maintenance of each process, which claims a batch in one statement
and checks it afterwards. Time is not counted: leases run out, claims grow old
and rows fall due at any moment. `Prompt` says that a claimed row is checked
before it falls due again: a batch of 50 in five workers with two DNS tries of
2.5 s is done long before the five minutes are over.

### MediaStorage

Assets are storage keys; a record holds at most one. Uploads write the file and
then the row; saves read what the record held, commit, and then look, unlink
and forget what they replaced; imports restore files; the cleanup of each
process selects a batch and deletes file and row one by one; a starting process
lists the directory and inserts the rows that are missing. `same` tells whether
the row a cleanup deletes by id is still the one it selected. An error in a
cleanup the timer began is an unhandled rejection and ends the process.

### PageAnalytics

The one module that goes below transactions, because the code relies on row
locks there. Each transaction takes the locks of its statements in the code's
order; a statement sees what was committed when it began (`Scan`), waits for a
locked row (`Take`) and deletes with a row what refers to it at that moment
(`Cascade`); waiting in a circle aborts one transaction (`DetectDeadlock`).
These rules of PostgreSQL under READ COMMITTED are taken as given and are marked
external in the map. A request brings an event (`Arrive`), of a form's page or
another, as a submission or not; events can arrive again at any time, since the
browser retries them. `DeleteFormData` is the owner's deletion of a form's data,
which locks the form as ingestion does; `ClearPages` is the dashboard's clearing
of analytics, which does not. Either takes visitors and sessions with the
deleted events, and with those whatever events of other pages they got
meanwhile; `cleared` is history, the pages whose events may have gone without a
lock on their form. One session per visitor, one kind of total per page,
people and no bots (a bot's event is stored and never totalled). The rollup per
action and the outbox rows belong to the same transactions and add no order of
locks of their own.

### Forms

The forms of one owner. A save is `SaveForm` (read the form, validate the draft by the
status that was read), `Connect`, `TakeLock` (the advisory lock of the owner,
waited for on a connection), `Write` (is the title taken, and are revision and
status as they were known?) and, when nothing was written, `Confirm`, which asks
on a second connection whether the form is gone. `Create` and `Duplicate` go the same
way. A title is its slug, since nothing else about it matters: the only writers
form the slug from the title. `SetStatus`, `DeleteSubmissions` and `Delete` are
one statement or a transaction that holds the row. A page is one opened public
form with its one request id (`PublicFormPage`); `Submit` is one request, stored
or refused, whose answer may be lost. Questions are a definition, complete or
not; `Fits` says that answers to other questions may still pass, because copies of
a form keep the ids of its questions. The analytics of a response are in
`PageAnalytics`. Left out: the archive flag, which only the list reads, the plan
and status of the business, and the rules of single answers.

### AnalyticsQueue

Each tab has its copy of the queue and at most one request under way; a tab's
task is atomic, since localStorage is synchronous. `Add`, `Click`, `Flush`,
`Hide`, `Close` and `Open` are the tab's; `Serve` and `Break` the server's and
the network's; `Acknowledge` and `Retain` what the tab makes of the answer. A beacon, a
redirect hop or the request of a closed tab is `carried`: it arrives or is lost
and nobody hears the answer. `excused` is history: events that were answered,
cut off by the limit, or only in the memory of a tab that closed.

## Runs

Deadlock detection is off where the system may come to rest (all sessions over,
everything delivered, every event settled); the runs of the outbox have it on.

| run | instance | checks |
|---|---|---|
| `OutboxLeases` | 2 rows (one malformed), 2 workers, batch 2, cutoff 2, which a rejected pair outlasts; 2 attempts, 1 fault, 1 manual retry; three stories | `AttemptIdentifiesClaim`, `SettledOnRecord`, `HealthyFailsOnlyExhausted`, `LeaseExclusive`, `KeepsPromise`, `EveryRowSettles` |
| `OutboxStolen` | the same without fault or retry | expected violation of `LiveRequestNotStolen` |
| `SessionsUsed` | 2 owners', 1 administrator's and 1 borrowed session, cap 1, 2 calls at a time, lossy Redis, 1 change of the business, 1 crash; two stories | `ServedWhileValid`, `BorrowedStaysBorrowed`, `RefusedForCause`, `CapRespected` |
| `SessionsStaleName` | 2 owners' sessions, 1 call at a time, 1 rename | expected violation of `ClearedNameNotServed` |
| `ApprovalsDecided` | 2 requests, 2 callers, 2 connections, lossy Redis, 1 change of the plan or 1 alarm; three stories | `CarriedOutOnce`, `EmergencyStops`, `StaleOnlyByOverlap`, `PolicyCatchesUp`, `EveryCallEnds` |
| `LinktreesPublic` | 2 pages, 3 addresses (two uids; one of them and another name are slugs), limit 1, a visitor and an editor, lossy Redis, 1 edit of a page, 1 import; two stories | `PagesWithinLimit`, `ClearedStaysCleared`, `ServedIsPublic`, `PageCatchesUp` |
| `OnboardingOnce` | 3 tickets (1 log-in, 2 sign-ups, 2 of them codes of 2 attempts), 2 people, 2 invitations, 2 names, 2 callers, lossy Redis; two stories | `UsedOnce`, `GoneForACause`, `NamesExclusive`, `TakenOnlyByOverlap`, `ApprovedHasBusiness` |
| `DomainsChecks` | 2 businesses, 2 rows, 1 hostname, 2 callers, 2 processes, 1 outage; two stories | `NewerResultStays`, `SelectionNotRestored`, `VerifiedNotReleased`, `ProvenIsRenewed` |
| `MediaKept` | 1 upload, 2 records, 1 caller, 2 processes, 2 faults | `NewUploadSurvives`, `UnusedIsCollected` |
| `AnalyticsTotals` | 2 visitors, 3 events (view, submission, click in a linktree), 2 requests, 1 deletion or clearing | `FormTotalsMatch`, `ResponsesCounted`, `EveryRequestEnds` |
| `FormsAnswered` | 2 forms, 2 titles, 3 definitions (1 incomplete), 2 editors, 2 connections, 1 page, 2 revisions; two stories | `ActiveIsComplete`, `AnswersFit`, `RetryKeepsReceipt`, `EditsEnd` |
| `QueueDelivers` | 2 events (one never accepted), 2 tabs, queue limit 1, 1 fault, 1 tab hidden or closed | `QueueTypeOK`, `KeptUntilAnswered`, `EveryEventSettles` |

The types of all modules are proved, for all sizes, and only one run checks them a
second time: the queue's `QueueTypeOK` carries the limit of 500 events. `SettledIsFinal` (which `KeepsPromise` implies),
`DecidedOnce`, `TwinsOverlap` and `ResponseHasItsEvent` are proved, too, and
no run repeats them.

*Several stories in one run.* Seven runs have a CONSTRAINT `OneStory`: a state
belongs to one of a few stories, for instance (linktrees) two callers who create
pages, or a visitor beside an editor. Each story has the actors its hazards
need; together in one instance they would only multiply. A behaviour is followed
as long as it stays in a story, so liveness is checked of behaviours that do.

Why the bounds are enough. Every hazard the runs aim at needs two actors and
one or two rows, and each property's mutant, a plausible mistake in the code, is
found within these bounds. In detail:

- *Outbox*: two rows of one destination are the smallest group that can be
  rejected and split. With cutoff 2 a pass of three
  requests outlasts it by one, in the proportion of the code's 75 to 60: most
  passes keep their leases, and the slowest loses its rows while it sends them one
  by one; an off-by-one in the cutoff shows (the mutant `StaleAtCutoff`).
- *Approvals*: two reviews fill the pool of two while each needs a third
  connection; one request with everything that can happen to it, with a change
  of the plan or an alarm, and two requests only for the duplicate, which nobody
  reviews meanwhile.
- *Linktrees*: the slug that is the other page's uid is the smallest contest
  for an address; one visitor, since visitors meet only through the cache,
  where a second would do what the first did before.
- *Onboarding*: two codes that let two people through with one invitation; two
  attempts, so that a code is put back once and used up after; two names and two
  people beside `Shop` for every conflict between reservation, assignment and block;
  two callers, so that one edit can write back the name another has changed.
- *Sessions*: the cap is 1 instead of 5, so that two sign-ins already exceed it.
  A second caller is enough for every race with a first one; `MaxChanges` and
  `MaxCrashes` bound the history.
- *Domains*: two rows so that one can expire while the other claims its
  hostname, both served by one process; for one row two processes that may die and a
  DNS failure, so that one takes over from the other; two callers so that lookups
  overtake each other.
- *Forms*: two editors fill the pool of two, one with the lock and in need of a
  third connection; two forms and two titles, so that a title can change hands;
  two complete definitions, so that questions can change under a page, and two
  revisions, so that they do.
- *Media*: one key, since operations on different keys never meet; two
  processes and a caller are the three parties that may delete it.
- *Analytics*: two visitors, because one request may wait for another's
  visitor; a linktree beside the form, because sessions are shared.
- *Queue*: the limit of 1 (500 in the code) makes every second event meet it;
  the batch of 2 is one more than the queue holds after it was cut; `FlushAt` 2 instead of 25.

Fairness, and why the code gives it:

- *Outbox*: a two-second interval starts a pass in every process
  (`onModuleInit`), a pass runs to its end because every request has a timeout,
  and time passes. Crashes are bounded; a process is restarted by its
  supervisor.
- *Approvals*: a call goes on, or gives up waiting: the pool ends the wait for
  a connection after 10 s and a statement after 30 s (`database.service.ts`).
  Redis keeps the lifetime of the cached policy, a minute.
- *Forms*: a call that was made goes on, or gives up waiting, by the same
  timeouts; nobody has to make one.
- *Linktrees*: calls go on, and Redis keeps the lifetime of a cached page, two
  hours. Edits are bounded, so that "in the end" means after the last one.
- *Domains*: the minute timer, calls that finish (DNS and HTTPS have timeouts)
  and rows that fall due. Nothing is assumed of the records but that they stay
  right from some time on.
- *Media*: the cleanup timer, the supervisor's restart, the passing of the
  grace period; automatic cleanup is taken as switched on, its default.
- *Analytics*: a statement is carried out, and who waits for a row gets it in
  turn (strong fairness: another transaction may hold the row again and again,
  but PostgreSQL queues the waiters); deadlocks are found.
- *Queue*: the fifteen-second timer of an open tab, answers that come (the
  fetch has no timeout of its own; the browser's ends it), and some tab that is
  opened again: events of a visitor who never returns stay in that browser until it is
  cleared, which no code can change. Hiding and closing are bounded, because tabs
  that were closed again before every timer would keep an event for ever.

What some of the results mean:

- `FormTotalsMatch` and `ResponseHasItsEvent` are about forms outside `cleared`:
  they hold of a form until somebody clears analytics through an endpoint that
  does not take the form's lock (`analytics.controller.ts`,
  `unified-analytics.controller.ts`), or deletes another form's data, which may
  take this form's events with a shared session. The comment in `ingest` speaks
  of a form's analytics "being cleared"; that is true of deleting the form's own
  data. `ResponsesCounted` holds throughout.
- `EveryRequestEnds` is not empty: ingestion holds the session and wants the totals,
  clearing holds the totals and wants the session, so deadlocks do occur and are
  resolved only by PostgreSQL's detection.
- `KeptUntilAnswered` counts an event as answered when its batch was answered,
  whatever the answer; see the divergences.
- `EveryCallEnds` (approvals) holds only because waiting times out: without it as
  many reviews as there are connections wait for each other for ever (the mutant
  `Patient`). So a burst of reviews fails after ten seconds instead of being
  worked off.
- `EditsEnd` (forms) is the same with saves: one that lost against another asks
  for a second connection while it keeps the owner's lock, for which the saves on
  the other connections wait.
- `LeaseExclusive` and `KeepsPromise` speak of late rows only to except them. The
  other properties of the outbox hold of those, too: the attempts are told apart,
  every status has its attempt on record, and every row settles. But an event may be
  sent to TikTok twice (with one event id), and one that was delivered may be
  recorded as failed by the slower worker.
- `StaleOnlyByOverlap` and `ClearedStaysCleared` say when a clearing lasts: if
  nobody was between reading the database and writing the cache. Who was puts
  the old policy or contents back until they expire (`PolicyCatchesUp`,
  `PageCatchesUp`). A call that has taken the older policy before the clearing
  still decides by it: the promise is about the cache and the calls that begin
  afterwards.
- `TakenOnlyByOverlap`: an edit of a business takes a name that an application
  reserved after the administrator's look, or gives the business back a name it
  had before another edit, because the trigger does not ask for reservations then;
  see the divergences. An edit that begins after the reservation cannot.
- `VerifiedNotReleased` is about claims, not about owners: removing a domain by
  hand frees its hostname at once.
- `CapRespected` allows for sign-ins that have not trimmed yet and for those that
  died before trimming: the next sign-in of the business makes up for them.

## Proofs

Proved for all values of the constants that meet each module's ASSUMEs (finite
sets of actors where a count needs it, special values that are no members, and
what the code's configuration guarantees, such as a pool with a connection):

| theorem | states |
|---|---|
| `TypeCorrect` in every `...Proofs` module, `FormsTypes`, `QueuesAreInOrder` | the types; for the queue also its limit, and that no event is in a queue twice |
| `TikTokOutboxProofs!LocksMatchStatus` | `LockedWhileProcessing` |
| `TikTokOutboxProofs!LeasesAreExclusive` | `LeaseExclusive` |
| `TikTokOutboxProofs!DeliveredStaysDelivered` | `SettledIsFinal` |
| `TikTokOutboxProofs!ImplementsEventDelivery` | every step is a step or a stutter of `EventDelivery` |
| `TikTokOutboxProofs!AttemptsIdentifyClaims`, `StatusesAreOnRecord`, `HealthyEventsAreNotFailed` | `AttemptIdentifiesClaim`, `SettledOnRecord`, `HealthyFailsOnlyExhausted` |
| `SessionsProofs!SessionsInvariant` | `TypeOK` and `SessionInv` are invariant |
| `SessionsProofs!OnlyValidSessionsServe`, `IdentityIsKept` | `ServedWhileValid`, `BorrowedStaysBorrowed` |
| `SessionsProofs!ValidSessionsAreNotRefused`, `SessionsAreCapped` | `RefusedForCause`, `CapRespected` |
| `ApprovalsProofs!ApprovalsInvariant` | the inductive invariant |
| `ApprovalsProofs!ApprovedIsCarriedOut`, `DecisionsAreFinal`, `TwinsNeedOverlap` | `CarriedOutOnce`, `DecidedOnce`, `TwinsOverlap` |
| `ApprovalsProofs!DenyStops`, `StalenessNeedsOverlap` | `EmergencyStops`, `StaleOnlyByOverlap` |
| `LinktreesProofs!LinktreesInvariant` | the inductive invariant |
| `LinktreesProofs!PagesStayWithinLimit`, `ClearingLasts`, `ServedPagesArePublic` | `PagesWithinLimit`, `ClearedStaysCleared`, `ServedIsPublic` |
| `OnboardingProofs!OnboardingInvariant` | the inductive invariant |
| `OnboardingProofs!TicketsAreUsedOnce`, `TicketsGoForACause` | `UsedOnce`, `GoneForACause` |
| `OnboardingProofs!NamesAreExclusive`, `ReservationsAreTakenByOverlap`, `ApplicationsMatchBusinesses` | `NamesExclusive`, `TakenOnlyByOverlap`, `ApprovedHasBusiness` |
| `CustomDomainsProofs!DomainsInvariant` | the inductive invariant |
| `CustomDomainsProofs!NewerResultsStay`, `SelectionsAreNotRestored`, `VerifiedAreNotReleased`, `PrimariesAreActive` | `NewerResultStays`, `SelectionNotRestored`, `VerifiedNotReleased`, `PrimaryIsActive` |
| `MediaStorageProofs!MediaInvariant`, `NewUploadsSurvive` | the inductive invariant, `NewUploadSurvives` |
| `MediaStorageProofs!ActiveFormsAreComplete`, `AnswersFitTheQuestions`, `RetriesKeepTheirReceipts` | `ActiveIsComplete`, `AnswersFit`, `RetryKeepsReceipt` |
| `MediaStorageProofs!OneSaveWrites` | of all saves of an owner's forms, one is between its look for the title and the end of its call |
| `PageAnalyticsProofs!AnalyticsInvariant` | the inductive invariant |
| `PageAnalyticsProofs!TotalsMatch`, `ResponsesAreCounted`, `ResponsesHaveTheirEvents` | `FormTotalsMatch`, `ResponsesCounted`, `ResponseHasItsEvent` |
| `PageAnalyticsProofs!EventsAreKeptUntilAnswered` | `KeptUntilAnswered` |
| `PageAnalyticsProofs!ClosingLosesNothing` | `SharedInv`: with localStorage, a tab alone keeps only what is too old, answered or cut off |

*The outbox's inductive invariant.* No theorem about the outbox assumes anything of
batch size, cutoff or timing. `LeaseExclusive` is not inductive: it does not say
where in its pass a worker has which rows. `LeaseInv` adds that (`Stage`) to what
holds of every row somebody holds that is not late (`Leased`): nobody else holds
it, and it is locked for that attempt, no longer than the cutoff, unless it was
deleted. A claim finds a row waiting or stale. A stale row that somebody holds
became `late` with the tick that made it stale, and a waiting row that is not late
has no holder, or `Leased` would say that it is processing; so the claim is the
only one. The proof has one lemma per
action and one for rows and workers an action does not touch. `SettledIsFinal`
and the refinement follow from `LeaseInv`: of rows that are not late, `Record`
finds them "processing".

*The outbox with overlapping leases.* `ClaimInv` asks nothing of time: rows may be
held by two workers at once, and what keeps them apart is the number of the
attempt. Every claim counts, so the numbers in the ledger and those that workers
hold of a row are all different and none exceeds the row's count
(`NumbersInv`); that lasts until a manual retry sets the count back to 0. A
permanent rejection is recorded for one row alone, which is at fault itself
(`RejectedAlone`), so a healthy row only fails when its attempts are used up.

*The sessions' inductive invariant.* `SessionInv` says for each point of a call
which call it can be, whose identity it holds, and what it has seen: a `get`
that got as far as storing an identity has seen its token valid, and the
identity it holds was made for the kind of its token. The proof splits `Next`
into the step of one caller (`Move`) and steps outside all calls, with a lemma
that the other callers keep their invariant.
`CauseInv` is about copies of identities, in the cache and in the calls that read
one for a token: each fits the token and is no newer than the business
(`FitsToken`). A copy that `Verify` refuses is then one of an invalid session, or
the subdomain has changed since. `BirthInv` is what `CapRespected` rests on: rows
are born one after the other, so that "the newest `Cap` rows" are well defined,
and a row that a sign-in is about to insert is held by that sign-in alone. The
proof counts: an insertion adds an owner's row and a sign-in at `Trim`; when
`Trim` ends, at most `Cap` rows are left; when it dies, `crashes` grows.

*Approvals.* Whoever is past `LockRequest` holds the row of its request, which
is pending and not carried out; that is what makes `CarriedOutOnce` and
`DecidedOnce` inductive. A caller about to fill the cache holds a policy no
older than `announced`, because a clearing counts only when nobody is about to
fill it. `SinceInv`: a caller about to decide took a policy no older than what was
announced when it began.

*Linktrees.* `LimitInv` ties the advisory lock to what its holder has counted:
between `Count` and `Insert` there is room for one more page beside the default
one, and nobody else inserts under the lock. `ClearInv` is the cache's
bookkeeping: no entry, and no visitor about to store one, is older than what was
announced. `ServedInv` relates the page a visitor is about to be shown to
`shown` and `rivals`.

*Onboarding.* A ticket is in exactly one place: in Redis with `left` attempts, in
the hands of one caller, or gone; `guesses` and the attempts left add up to
`Attempts` wherever it is (`TicketInv`). `NameInv` is `NamesExclusive` with what
the status of an application says of its name, and `RenamingInv`: whoever holds the
name that `Shop` has, or that an edit is about to write, is `racing`. An edit that
looked has found no holder, and one that did not has a name of which that was true
already.

*Domains.* `NewerResultStays` needs `OrderInv`: a caller that a later lookup was
written past will find its row changed. `VerifiedInv` does the same for
`VerifiedNotReleased`: a check that read a row as pending, before a proof was
recorded, will find it changed, so a recorded claim is never pending again and
`Add` has nothing to delete but what is pending. *Media.* `GraceInv`: what a cleanup
holds in its hands and still has a file is old or was used before.

*Forms.* `FormsInv` has four parts beside the two invariants. `RowInv`: no two
forms have one title, so a request can mean one form only. `DraftInv`: a
draft on its way is as complete as the status it was validated by asks, and
`Write` compares that status with the row's; without it `ActiveIsComplete` would
not be kept by a save. `LockInv`: the lock's holder is the one at `Write` or
`Confirm`. `PageInv`: what a visitor sees has a revision no greater than the row's,
and the same questions if the revision is the same; a deleted form's id never
returns, so revisions only grow. `AnswersFit` is then a comparison of revisions.
`RetryKeepsReceipt` is an action property: a refusal means that no form is at the
page's address or that the one there has no response of this page, and by `RowInv`
there is no other.

*Queue.* `KeptUntilAnswered` alone is not inductive: a tab may close, and what it
had in its memory is gone. `SharedInv` says that with localStorage a tab's memory
has nothing that is not in storage, too old, answered or cut off. When
another tab's writing takes an event out of storage alone, it has one of these
causes. Without localStorage, `Close` excuses what the tab
took along. `Without` takes events out of a queue by their ranks among
those that stay: facts about `SelectSeq`, a recursive definition, are
beyond the prover, and an ASSUME of `MCAnalyticsQueue` has TLC compare the two on
all queues up to length 4.

*Analytics.* The invariant says for every statement of a transaction which rows
it holds. A request on a form's page holds the form from its first statement to
its commit, and so does a deletion of the form's data, so that the events such a
deletion has found (`gone`) are still all of the form's events when it commits
(`OwnFormInv`). For visitors and sessions, which no lock keeps together, what
saves referential integrity is that the deleted row itself stays locked and its
events go with it (`OwnerInv`). `FormTotalsMatch` and `ResponsesCounted` then
are steps of finite cardinalities: one more with a commit, none after a deletion.

In every module the proof has one lemma for each kind of step and one saying that
actors which a step does not touch keep their part of the invariant. The
invariants were checked with TLC before they were proved.

*Only model-checked*: all liveness (`EveryRowSettles`, `ProvenIsRenewed`,
`UnusedIsCollected`, `EveryRequestEnds`, `EveryEventSettles`, `EveryCallEnds`, `EditsEnd`,
`PolicyCatchesUp`, `PageCatchesUp`), which
is out of the prover's reach, as is ENABLED. Every safety property that a passing
run checks is proved.

## Known divergences

Two runs show the code doing something else than its documentation says, and
are the entries of "findings" in PROJECT.json:

- `SessionsStaleName`: the set of a business's cached tokens expires with the
  token added last, so a rename clears only some of the cached identities.
- `OutboxStolen`: the comment on `STALE_LOCK_CUTOFF` says that a slow but live
  request is never stolen. The lock is one for the whole batch, and a full pass
  of rejected pairs (750 s) outlasts the cutoff (600 s).

Others came up while modelling and have no run of their own:

- A manual retry sets `attempt_count` to 0, and the attempt rows of the new
  round are dropped by ON CONFLICT; `SettledOnRecord` therefore speaks of rows that
  were never retried by hand.
- Two sign-ins of the administrator at once both delete the older sessions
  before either inserts its own, so both stay (docs/security.md says a new
  platform session revokes every older one).
- The batch endpoint answers `accepted: false` for any failure, a deadlock or a
  lost connection included, and the browser retires every event that was answered; the
  comment there says the client retires exactly those that will never be
  accepted.
- A row that fails for good beside a younger row of the same request raises no
  alert (`permanentlyFailed` looks at the first job's attempts).
- Of two checks of a domain the one that commits first wins, also against a
  newer lookup that has not committed; `NewerResultStays` is the direction the
  code does keep.
- Deleting a form's data can take away an event of another page, also of another
  form, that the same visitor sends at that moment
  (`unified-analytics.service.ts:1103`), though docs/forms.md promises that other
  pages' tracking is preserved; that page's total keeps counting the event.
- Between the check that a replaced upload is unreferenced and its deletion
  (`storage.service.ts:358-359`) another record may take it, which the comment at
  line 306 rules out.
- A review clears the cached policy before it commits
  (`approval.service.ts:284`), so the old list of pending requests can be
  cached again for a minute; two equal requests at once are both queued.
- Approved changes of a page, the second default page and imports leave the page
  visitors are shown in the cache for up to two hours (an import deletes the key
  without its `:sub:` part), where docs/coding-standards.md:285 asks to invalidate
  it after public changes. A rename leaves the entry of the old slug, which
  `Check` then refuses.
- An import matches pages by slug or uid, the default page included, which is a
  default page no more afterwards and may be archived; it takes no lock and
  asks for no limit.
- An approved deletion of a page writes no tombstone (docs/database.md:335-339),
  so its address is answered 404.
- `updateLinktree` writes back the status it read before its transaction and can
  undo a deactivation that came in between.
- Two saves of a page's links at once can leave the links of both, or ties in
  their order (`links.service.ts:289-390`); `trg_reorder_links` does not settle
  ties.
- The trigger on the subdomains of businesses asks for blocked names but not for
  reservations (`91_subdomain_policy.sql:48`), though the comment at lines 11-12
  calls the checks authoritative during concurrent writes: a business can take a
  name that an application has reserved (`TakenOnlyByOverlap` says when).
- `updateBusiness` writes back every field it read before its transaction, the
  status included: an edit of a name can undo a suspension that came in between
  (`business-administration.service.ts:740-743`, 799-811).
- A code sent from another subdomain is consumed before the host is compared, so
  the ticket is lost; whether Redis stored a sign-up session is not asked
  (`business-onboarding.service.ts:607`).
- A response whose receipt was lost is looked for with the form that has the
  page's address now (`forms.service.ts:321`): after a rename or a pause the retry is
  refused, where docs/forms.md says that a completed retry returns the original
  receipt, also after an edit. And when the address has passed to another form of
  the same revision, that form gets the response; `AnswersFit` and
  `RetryKeepsReceipt` therefore speak of the form the visitor was shown.
- `20_communications.sql:217` says that creating a business mirrors its seed of
  communications; `seedBusinessCommunications` has no caller.
- The list of columns that refer to uploads (`unreferencedSql`) does not name
  the advertising tables.

## What is not modelled

- Most lines of the repository are React pages and their styles and texts; they
  keep no state beyond a request, except the event queue, which is modelled.
- Pure reading and rendering: summaries, exports, sitemaps, SEO, the proxy.
- Validation of payloads, attribution, device and channel detection, templates
  and other contents.
- Configuration, health probes and metrics; mail is one SMTP call.
- In modelled components: the membership of users in several businesses, and
  cookies (sessions); conditions, field modes and scopes of a rule, and the
  permissions of administrators (approvals); tombstones, the order of links and
  the platform's own pages (linktrees); rate limits and linked identities
  (onboarding); the owner column of the inventory (media); the approved
  clearing of analytics, which stops after the totals (analytics); a
  localStorage that fails at some times and works at others (queue); the archive
  flag, the business's plan and status, and the rules of single answers (forms).
- Billing beyond what a change of the plan does to policies, retention,
  communications and migrations are components of their own and planned below.

## Plan

Done, in this order, the most important behaviour first:

1. `TikTokOutbox`, `EventDelivery` and `TikTokOutboxProofs`
2. `Sessions` and `SessionsProofs`
3. `CustomDomains` and `CustomDomainsProofs`
4. `MediaStorage` and `MediaStorageProofs`
5. `PageAnalytics` and `PageAnalyticsProofs`
6. `AnalyticsQueue`
7. `Approvals` and `ApprovalsProofs`
8. `Linktrees` and `LinktreesProofs`
9. `Onboarding` and `OnboardingProofs`
10. `Forms`

Next:

11. `Subscriptions`: assignment, extension, expiry and what they entitle to.
12. The order of links; retention and communications; the migration lock.

Proofs, in order: a module composing `AnalyticsQueue` with an abstract ingestion,
and an abstract specification that both it and `PageAnalytics` refine (each event
is counted at most once), which closes the path from click to total; a refinement
of `Approvals` to a request that is decided once; then `Subscriptions`.
