# A verification of cv-rest-mcp-server

The repository is a personal site as a service: a public CV (HTML, PDF, REST,
MCP), and behind a login an operator's tools for job postings - collect them
from companies' boards, compare them with the CV, tailor the CV to them. This
directory models the parts of it where state, failures and concurrency meet,
checks them with TLC on small instances, and proves the most important
properties with TLAPS for all instances. Paths below are relative to `src/`;
`services/portfolio/` is written `p/`.

`PROJECT.json` lists components, runs, mutants, the source lines behind every
definition, findings, hazards and theorems. This file explains them.

## 1. Inventory

The service is one asyncio process per instance (FastAPI on Cloud Run, several
instances at times), one PostgreSQL database, one Firestore collection for the
texts of postings, and one Pub/Sub topic. No handler holds a transaction or a
lock across two repository calls: every repository method opens and commits its
own session. So the unit of atomicity is the repository call, and everything
between two `await`s of one handler may interleave with everything else.

| Component | State it keeps | Operations | Interacts with |
|---|---|---|---|
| Refresh-token families (`p/auth/refresh_token_*.py`) | `refresh_token_families` (subject, current_hash, revoked), `refresh_token_index` (hash -> family) | create_family, rotate, revoke_by_token, revoke_all_for_subject | called by the auth handlers |
| Accounts and auth handlers (`p/auth/routes.py`, `user_service.py`) | `users` (is_active, roles) | login, refresh, logout, register, disable, enable | families, JWT signer |
| JWT middleware (`p/auth/middleware.py`, `crypto.py`) | none: tokens are stateless | authorise a request | every /api route |
| Middleware stack (`p/main.py`, `p/auth/middleware.py`, `guard_middleware.py`) | none | pass a request in and its answer out, or answer | JWT middleware, guard, CORS |
| Posting storage (`p/gaps/gap_service.py`, `gap_repository.py`, `job_posting_document_store.py`) | `job_postings`, `posting_analyses`, clusters in PostgreSQL; texts in Firestore | store, sync, delete, analyze, cluster | outbox (same transaction as the row), both stores |
| Outbox relay (`p/refresh_trigger.py`, `p/events/`) | `outbox` (published_at) | claim, publish, stamp, prune | Pub/Sub |
| Analysis worker (`p/analysis_worker.py`) | none of its own | handle one push message | storage; Pub/Sub retries and dead-letters |
| ATS board refresh (`p/refresh_trigger.py`, `GapService.sync_board`, `p/gaps/ats.py`) | `ats_boards` (etag) | fetch, sync every posting, close absent ones | portals, storage, worker or inline analysis |
| Posting intake (`p/gaps/routes.py`, `idempotency_repository.py`) | `idempotency_keys` | POST (with retries), DELETE | storage |
| Operator documents (`p/documents/`) | `operator_documents`, one row per tenant and kind | read with file fallback, write, revert, seed at boot | PDF service, matching |
| PDF service (`p/pdf_generator.py`) | LRU cache and in-flight table in memory, an executor's queue | generate, clear | documents; event loop and threads |
| Tailored revisions (`p/revisions/`) | `revisions` | create, list, promote, delete | documents |
| Tracked boards (`p/gaps/tracked_board*.py`) | `tracked_boards` | add, update, remove | read by the refresh |
| Rate limits and bans (`p/failban.py`, `guard_middleware.py`, ...) | strikes and bans in memory | strike, ban, expire | every request |
| Matching (`p/matching/`) | none | detect gaps, tailor, cluster | analyses, tailor route, the operator's skill bank |
| CV review agents (`p/cv_review/`) | task states of one call | extract, then criticise | model calls |
| Browser session (`frontend/src/auth/`) | access token in memory, one refresh at a time per tab | refresh, logout, me | auth handlers, cookie |
| Assembly, rendering, games, logging, terraform | - | - | - |

What is hard in this code, and what must hold:

- **Token families.** Look-up and rotation are different transactions; login,
  refresh, logout and disable overlap; a response may be lost after the commit.
  A token must be traded once, reuse must cut the family, a cut must last.
- **Posting pipeline.** Two stores without a common transaction, an outbox, an
  at-least-once unordered queue, handlers that die anywhere and errors that are
  logged and swallowed. No event may be lost, no row may lack its text, and the
  analyses must in the end describe the texts they belong to.
- **Board refresh.** The etag is recorded first and the postings afterwards, so
  a run that dies leaves the board behind a 304 it has not earned. A posting is
  classified, saved, written and analyzed in separate calls, with deletes in
  between. Rows must mirror the listing except where a fault is known to have hit.
- **Intake.** A client retries at once, after a failure, or much later. A key
  must create one posting and have one answer.
- **Documents.** Every booting instance seeds; operators edit meanwhile.
- **Accounts and tokens.** An access token cannot be revoked and carries the role
  it was signed with; every check of a handler looks at it and not at the row.
  Nobody may act as an administrator for longer than a token lives after he was
  one, and administrators may not lock everybody out by accident.
- **The stack.** Five layers wrap each other, any of them may answer, and only
  those around it see the answer. What a page may read and whether it may send
  its cookie depends on the order, which is that of the calls in reverse.
- **Bans.** Strikes and bans expire, are pruned on access only, and share a bound
  on memory; a ban is for some paths. Who offends must be banned, and only there.
- **Revisions.** A row, or a file when the insert fails, named by the second:
  the selector a client was given must lead to the CV that was tailored.
- **Tracked boards.** PATCHes overlap, each with some of the fields.
- **Tabs.** Tabs share a cookie and nothing else; a page is reloaded with its
  requests out; answers arrive in any order. No session may end without a
  reason, none may survive a logout, and no caller may wait for nothing.
- **Tenants and generations.** Some tables are read by posting id alone, with
  only the row-level policies between two tenants; in a deployment two analyzers
  write to one database.
- **Matching.** Two readers of one skill bank scan a text each with an alias table
  and an index of its own, and what a phrase means depends on the index: the
  report of gaps and the tailored CV must not contradict each other.
- **PDFs.** One event loop and a pool of threads share a cache and a table under
  a lock, and the entry of a finished render leaves the table later than its
  result enters the cache. One render per key, no stale answer, no entry that
  stays for ever.

## 2. Plan

Order: what the system would be judged by first.

1. `RefreshTokens` with its abstract specification `TokenLineage` - **done**,
   checked and proved.
2. `PostingPipeline` - **done**, checked; outbox and document invariants proved.
3. `BoardSync`, `PostingIntake` - **done**, checked and proved.
4. `Access` and `Accounts` (the decision of the gate, tokens that outlive a role,
   two administrators who disable each other) - **done**, checked and proved.
5. `TrackedBoards`, the registry `BoardSync` reads - **done**, checked and proved.
6. `BrowserTabs` over `TokenLineage` - **done**, checked and proved.
7. `Corpus` (tenants, generations of analyses) - **done**, checked and proved.
8. `Documents` and `PdfService`, which composes it; `Revisions`; `FailBan`;
   `PhraseCache`; `Matching` and `Clustering` - **done**, checked and proved.
9. `Gate`, the middleware stack around `Access` - **done**, checked and proved.
10. The inductive form of `NothingForgotten` - **done**, proved for handlers that
   do not work on one posting at a time; others break it.

Left, in this order: an abstract `EventualMirror` (a set of texts and the set
analyzed) that `PostingPipeline` implements; two overlapping refresh runs of one
board in a run (the theorems on closing speak of them already); where the windows
of `parser.py` begin and end, which are inputs now; and the tailor route as a
second caller of the posting intake.

Left out for good: rendering and themes, parsing of HTTP and HTML, logging,
scripts, the games page. They keep no state that a property could relate.

## 3. Modules

### TokenLineage, RefreshTokens, RefreshTokensProofs

`TokenLineage` is what the families promise a client: a lineage has at most one
valid token; redeeming it moves the lineage on; a revoked lineage is dead for
good. `RefreshTokens` has the two tables (`index`, and `subject`, `current`,
`revoked` per family), `users.is_active`, and one process per handler, whose
program counter is the next transaction:

| action | code |
|---|---|
| `LoginAuthenticate`, `LoginCreateFamily`, `Respond` | POST /auth/token: authenticate, create_family, response |
| `RefreshLookup` | first transaction of rotate(): find the family of a token |
| `RefreshRotate`, `RefreshLost` | the conditional UPDATE matched a row, or none |
| `RefreshReplay` | revoke the family, then 401 |
| `RefreshCheckUser` | the owner is read again after the rotation |
| `LogoutLookup`, `LogoutRevoke` | POST /auth/logout |
| `Disable`, `DisableRevokeAll`, `Enable` | flag first, families next |
| `Abort` | the process dies between two transactions, or the response is lost |

A token stands for its hash and is drawn when it is stored. `known` are the
tokens some client holds; who holds which is left open, so a stolen and a
retried token are the same case. `successors`, `returned`, `late` and `barred`
are history: no action reads them. Access tokens and passwords are left out; so
is the expiry of families, which the code leaves to the cookie.

### PostingPipeline, PostingPipelineProofs

A posting is an identity on a board; a row is an id; a content is what
`content_hash` tells apart. `SyncLookup`, `SyncSave`, `SyncUpsert` are the three
calls of `sync_ats_posting` (classify, Firestore, upsert with `record_event` in
one transaction); `SyncFail` ends it anywhere. `RelayClaim` ...
`RelayPrune` are `dispatch_outbox`. `messages` is Pub/Sub: a set, so delivery is
unordered, and a message stays until it is acknowledged, so it is delivered
again. `WorkerAccept` ... `WorkerAck` are `handle_posting_changed`, with every
read and save its own step, because it reads the posting up to three times.
`WorkerSwallow` is the code's habit of logging a failed read or save and going on
to a 200; `WorkerSkip` is the 200 when the inputs are missing; `DeadLetter` is
the end of the fifth attempt. These three are the ways in which an event that was
written is given up; the history `forgone` names the rows they hit, and a new event
for the row takes it off again.

There is a fourth way to go without an analysis, in which no event is written at
all: a sync has classified a posting as unchanged, and before it writes, another
sync or a DELETE changes the row; the upsert then gives it other content, or
inserts it anew, without an event. `Record` puts such a row in the history
`unannounced`, and `NothingForgotten` names both histories. That the docstring
rules it out is `ContentsAreAnnounced`, which `silent_change` refutes, and which
`OnlyRacesAreSilent` proves for syncs that nothing disturbs.

### BoardSync

One board and one portal that edits its listing at will; the etag of a listing
is its number. A run fetches (`Fetch`: 200 or 304), records the etag
(`RecordEtag`), takes the postings one by one, and closes what it has not seen
(`Close`). For a posting, `Lookup` reads the prior row and classifies, `Upsert`
writes the row, `AnalyzeRead` and `AnalyzeSave` are the two halves of the inline
analysis, and `SyncError`, `AnalyzeFail`, `RunDies` end any of them; `DeletePosting`
may fall between any two. The document is saved between look-up and upsert; texts
are filed by their content and never removed, so that its saving can be seen here
only when it fails, which is `SyncError`. The queue is in `PostingPipeline`.

`missed` and `excuse` are history: which jobs a fault has kept from being mirrored,
and why the content of a row may have no analysis: the analysis "failed", the run
had no inputs ("skipped"), or the row was deleted under a run that had found it
unchanged, and inserted again by it ("reinserted"). `BoardsProofs` has the theorems.

### PostingIntake

`store_job_posting` with its key reserved (`Arrive`), its body parsed afterwards,
the dedup look-up, the document, the row, the stored response and the reply
(`SendReply`), each a step, and `Crash` between any two. `created` and `replies` are history.
`PostingIntakeProofs` has the theorems.

### Access, Accounts

`Access` is `JWTAuthMiddleware` as operators: the tables of routes, what is
public, admin only, in need of cv:manage, and `Decide`, in the order of the
code. A path is its area below /api/v1 and whether a segment follows, which is
all the rules look at. `Accounts` applies them: `users` are the rows, `tokens`
the access tokens in use with the life they have left, and a request is let in
by `Call` and runs its handler in a later step, so that what the gate saw may be
out of date. `Disable` and `Revoke` are the two transactions of `disable_user`;
`Register` and `Insert` the look-up and the insert of a registration; `Login`
and `Refresh` read the row, `Issue` signs what was read. `TokensAge` is the
clock; it does not move while a request is at work, so a request is short
against the life of a token. `lastAdmin` and `authority` are history: how long
ago each user was an active administrator, and how long ago that was for
whoever changed shared data. `GateProofs` has the theorems of `Accounts`, `Gate`
and `FailBan`.

### Gate

The stack of `p/main.py`. A request goes in from layer 1 (`HeadersIn`,
`JWTAuthIn`, `GuardIn`, `CredentialedIn`, `CORSIn`) until one of them answers or
`Application` does, and the answer goes out through the layers around that one
(`HeadersOut` ... `CORSOut`). What `JWTAuth` decides is `Decide` of `Access`; what
the guard knows of a client is an input, since `FailBan` has it. An answer is its
status, who gave it, the origin and the credentials it allows, and whether it
has the security headers. Around the five layers Starlette puts one of its own,
`ServerErrorMiddleware`: `ApplicationRaises` is a handler that raises what nobody
handles, and the 500 that answers for it is sent past all of them. No layer keeps
anything for the next request, so a behaviour is one request. The layers that bind a correlation id or correct the
scheme are left out. Starlette's `CORSMiddleware` is external and modelled with
the parameters `main.py` gives it.

### FailBan

`failban.py` behind `guard_middleware.py`. A request passes the gate (`Arrive`,
where an expired ban is removed) and stays in `open` until its handler is done
(`Serve`) or finds it over a limit (`OverLimit`: `Strike`, with `_trim`).
`strikes` and `ban` are functions of the client; the order of the dict, which
`_trim` drops from the front of, is the relation `before`. Times are ages and rests, so `Tick` has no counter to bound. `recent` and
`dropped` are history: the strikes that ought to count, and whom the memory
bound has taken some from.

### Revisions

POST /cv/tailor after the CV is made: `StampRevision` names it by the second,
`InsertRevision`, `InsertRefused` and `InsertUnheard` (the commit reached the
database and the answer did not come back) are the outcomes of the insert,
`WriteRevisionFile` is the fallback with a second of its own. `LoadTailored` is
what ?tailored= finds for a selector while the database is up or down. CVs are
numbered in the order in which they were stamped, rows by `lastId`, which a
deletion does not take back. `CvProofs` has the theorems of `Revisions` and
`PdfService`.

### TrackedBoards

POST, PATCH and DELETE of the registry, and `Polled`, what /trigger reads. A
PATCH is `PatchRead`, which takes the row lock, and `PatchCommit`, whose UPDATE
carries the columns that differ from what was read (`Changed`). A DELETE reads
without a lock. `meant` is history: every field as the last committed PATCH
gave it. `BoardsProofs` has the theorems.

### BrowserTabs, BrowserTabsProofs

The tabs of one browser: `cookie` is shared, `authed` and `job` are a tab's
memory, `net` holds the requests and answers under way. The server is
`TokenLineage`, whose steps `HandleLogin`, `HandleRefresh` and `HandleLogout`
take: what `RefreshTokens` is proved to implement is what the page is checked
against. `TryRefresh` shares one request per page, `RefreshDone` resumes all who
share it, `Learn` is the page's reaction to an answer or to the lack of one,
`Reload` forgets the memory while requests are out. Access tokens are left out:
that one has expired is that a call is answered 401. The bounds of `Reload` keep
at most one request of an earlier page.

### Corpus, PhraseCache

`Corpus` has the postings of several tenants, the analyses by posting and
`ANALYZER_VERSION`, and the clusters. `Visible`, `VisibleAnalyses` and
`VisibleClusters` are the row-level policies for the role an instance connects
as; `Boot` is the check of the lifespan, which refuses any other. `Reported`,
`Roadmap` and `Mentioning` are the three readers. A gap of a report has the tier
and the group that the bank gave the skill at the time, and the roadmap has a row
for each term, tier and group. An analysis reads its posting
and saves later, and the posting may be deleted in between. `PhraseCache` is the
embedding cache of `cluster_posting`, shared by instances of two models.
`AnalysisProofs` has the theorems of both, and those of `Matching` and
`Clustering`.

### Documents, PdfService

`Documents` is one tenant's document of one kind: the row, the shipped file, and
the instances that boot and seed while another one serves. `Read` is the set of
answers a read may have: the row, or the file when the SELECT failed.

`PdfService` adds the requests (coroutines), the renders (futures on the
executor's threads), the cache and the in-flight table. An action is what runs
between two awaits, or under the lock. The look-up of the cache without the
in-flight lock and the second one under it are one action: nothing is done
between them. A future is in `stored` between `_cache_put` and its completion,
and in `done` or `failed` until the event loop runs `remove_inflight`; these two
windows are what the properties are about. Identities of futures are used again
when nothing refers to them.

### Matching, Clustering

`Matching` is the pure part of gap analysis. A word is the normal form of a
spelling, which may be a name of several words (`parts`); an atom is a name with
its aliases, its level and whether it is stale. A text is a set of phrases: what
follows a qualifier, with its level, and the text as a whole at level 0; a phrase
is the spellings that occur in it. What these lead to is `Mentions`, which is
`extract_mentions` for one list of atoms: in a qualified phrase the names of
several words come first and use up their words (`InPhrase`), then single words
by name or alias, and what has no level yet is taken from the whole text.

Each pass scans for itself. `Tier` and `Report` are `detect_gaps`: the normalised
text (`posting`), with one table and one index over bank, parking lot and
vocabulary. `IndexedAt` and `Tailored` are `tailor_with_gaps`: the text as it came
in (`pasted`), with table and index over the bank alone. What the fuzzy pass makes
of unknown words is an input.

`Clustering` is `cluster_vectors` one turn of a loop at a time: `VisitPair`
takes the pairs row by row, `FoundI` and `FoundJ` end the two calls of `_find`,
`FoundJ` unites, `VisitPhrase` and `FoundGroup` make the groups, and `Halve` is a
turn of the loop in `_find`, wherever it was called. Loops rather than a recursive
operator, so that it can be proved about. The properties compare the report with
the tailored CV, and the clusters with the connected components.

### Instances that share no state

Some modules share no state, and a run instantiates several of them: a variable
fixed at the start says which one moves, and the others stand still.
`MCRefreshRuns` has a refresh in its two settings, with a queue (`PostingPipeline`)
and without (`BoardSync`); `MCClients` has the two clients that repeat requests,
`BrowserTabs` and `PostingIntake`; `MCGateway` has `FailBan`, `Accounts`, `Gate`,
`Revisions` and `TrackedBoards`; `MCMatching` has `Matching`, `Clustering`,
`PhraseCache` and `Corpus`.

## 4. Runs

All runs finish within the five minutes; sizes are distinct states.

| run | question | instance | states |
|---|---|---|---|
| refresh_tokens | do the families keep their promises in every interleaving, and implement `TokenLineage`? | 1 user, 3 tokens, 3 handlers | 0.3 M |
| refresh_runs | with a queue: is any event, document or analysis lost? without: do rows mirror the listing, is every change analyzed, does only absence close? | 1 posting, 2 rows, 2 contents, 2 syncs, 1 relay, 1 worker, 2 events; 2 jobs, 2 contents, 1 run, 3 listings | 2.3 M |
| posting_converges | do analyses reach their texts under fairness? | 1 row, 1 sync | 0.2 M |
| stale_overwrite | is a newer analysis kept? **no**, with two handlers | 2 workers | - |
| silent_change | is every change of a row announced? **no**, with two syncs or a delete | 2 syncs, 1 worker | - |
| no_catch_up | does a run with inputs analyze what one without has stored? **no** | 1 job, 3 listings | - |
| clients | which replays does the page cause, does a logout last, is anybody left waiting; one posting and one answer per key? | 2 tabs, 2 jobs at a time, 3 tokens; 1 key, 2 texts, 3 handlers, 2 rows | 1.3 M |
| stuck_key | is a reserved key without a response in flight? **no** | 1 key, 2 texts, 2 handlers | - |
| pdf_service | one render per key, no answer from another CV, no key stuck in flight? | 2 CVs, 1 variant, 2 requests, 2 renders, 1 cache entry, 2 threads, 1 booting instance | 0.07 M |
| matching | do report and tailored CV agree, do clusters equal components, do tenants, generations and models keep apart? | 3 words, 2 bank atoms, 5 phrases; 2 tenants, 2 versions, 2 postings, 1 skill in 2 spellings; 3 texts, 2 models, 2 clusterers | 0.3 M |
| gateway | who is banned and where, who acts as an administrator, which page reads which answer, what becomes of revisions and of PATCHes? | 4 clients (1 blocked, 1 exempt), 2 paths, threshold 2, 2 open; 2 users, 2 requests, 2 tokens; 7 areas of paths, 4 tokens, 2 origins; 3 tailorings, 2 seconds; 2 boards, 1 slug, 2 editors | 0.9 M |
| seed_race | does seeding keep an existing row? **no** | as pdf_service | - |

Why the bounds suffice. Three tokens give a family two rotations, or a family
with one rotation beside a second one, and three handlers put a logout or a
disable between two refreshes. Two outbox events are enough for a stale one and
its successor, a batch of two for a partial failure, two rows for a delete and a
new insert of the same identity. Three listings allow a posting to go, to come
back, and to change between a fetch and the end of its run. One key and three
requests with two texts cover every pairing of retry and other text; a request
without a key stands for one with another key, since what a key does to another
is to insert the same text; two rows allow a duplicate. One cache entry and two CVs force an eviction on
every edit; two renders let the old and the new CV render at once. Three words
let every alias relation of two atoms occur, also an alias that is the other's
name or is claimed by both, and one may be a name of several words that holds the
others; five phrases give chains that are united out of order. Two strikes are a ban, so that one may expire, be dropped or be asked
about before the other; a blocked and an exempt client stand beside the two that
can be banned. Two users are enough for administrators who act on each other
and for one who is demoted while his token lives. Three tailorings in two seconds
put two or three into one second. Two tabs with two jobs between them share a
refresh, or refresh at once, and three tokens are a login with two rotations or
two sessions. Two spellings of one skill are one row or two. Every action fires
in some passing run.

Bounds that cut behaviour off, all in guards: `Tokens` (logins and rotations),
`Rows` and `MaxRows` (inserts), `MaxEvents` (the boards stop changing when the
outbox has had that many rows), `MaxVersions` (listings), `Futures` (renders not
yet forgotten; the executor's queue has no bound), `MaxOpen` (requests behind
the gate), `MaxTokens` (access tokens in use in `Accounts`, refresh tokens ever
issued in `BrowserTabs`), `MaxTailorings` and `MaxSecond`, `MaxJobs` and the one
request a reload leaves behind, `MaxPostings`, and the fields a PATCH may combine.
`CHECK_DEADLOCK FALSE` stands where behaviours end because a bound is used up, or
because an input has been read and there is nothing left to do. `returned` stops
counting at two. Symmetry is used on runs with safety and action properties only,
over sets whose members the specification treats alike; never with fairness.

What is narrower than it looks:

- `NothingForgotten` is checked with one push handler at a time, and proved for
  handlers that are never at work on one posting together. A second one,
  or the manual POST /postings/{id}/analyze, which does what a handler does
  without an event, overwrites newer analyses: that is `stale_overwrite`.
- `MirrorsBoard` is checked with one refresh run of the board at a time. Nothing
  in `p/refresh_trigger.py` keeps two apart, and two overlapping runs break it.
- `RepliesAgree` speaks of requests that share a key. Two rows for one text
  under different keys are accepted by the code (`p/gaps/routes.py:117-119`).
- `ReportAgreesWithTailoring` and `UnvouchedIsNotShown` are about banks in which
  no word stands for two atoms; other banks are in the run, and section 5 says
  what they lead to. The first is also about texts that are normal as they come
  in (of others the two passes scan different texts), and claims less of a skill
  that a longer name holds a word of (`Swallowed`): if only the wider index has
  that name, the report hears the skill without its level where the CV was asked
  for one, so the report may call covered what the CV leaves out. What the CV
  shows the report always has as presentable. Not modelled is an alias of
  several words that makes up a phrase by itself.
- `NothingForgotten` excepts what a swallowed fault has cost (`forgone`) and what
  no event was written for (`unannounced`); `silent_change` and `OnlyRacesAreSilent`
  say when the latter happens. `AnalysesConverge` excepts both, too.
- `ChangesAnalyzed` is checked with one run of the board at a time (two that
  overlap may save an older analysis last), and excepts failed analyses, what a
  run without inputs has stored, which `no_catch_up` is about, and rows deleted in
  the middle of their sync and inserted again as unchanged.
- `RoadmapIsBacked` speaks of rows of one term, tier and group. After an edit of a
  skill's group there are two rows of one term and tier; each counts its own
  postings, and the drill-down, which goes by the term, lists those of both.
- `SharedChangedByAdmins` bounds how old a claim may be, and does not say that
  it is current: the code accepts a role for as long as its token lives.
- `OffendersAreBanned` excepts clients whose strikes the memory bound took.
- `BankOutranks` is checked with parking lots whose skills have no aliases. A
  parked skill that the bank has too, with an alias of its own that resolves to
  something else, is reported as parked: `_tier_index` goes by key, not by name.
- `PinnedPageReadsAnswers` excepts the guard, whose refusals have no CORS headers,
  and the 500 for a handler that raised.
- `EveryEventIsOwed` is checked with one relay; that relays may overlap is in its
  theorem.
- `ReplaysAreExcused` names the replays the page cannot avoid: two pages at once,
  and a lost answer. `LogoutSticks` speaks of a logout that reached the server
  while nothing of another session was under way.
- `AnswersFit` asks for the same tag of theme and consent, not for the same
  spelling of the company: the key folds case and spaces on purpose. With one
  variant the run does not exercise the folding; a run with two spellings holds
  as well, but is too large to check liveness.

### Fairness

`posting_converges`: Cloud Scheduler calls the relay every minute
(`terraform/main.tf:214-246`), Pub/Sub redelivers what is not acknowledged
(`terraform/main.tf:268-297`) and does not refuse one event for ever (SF on
`RelayPublish`); a handler that is at work goes on (WF), and each message gets
its turn (SF on its start, since a handler may be busy with others). Relays
and handlers are killed finitely often. Nothing is assumed of the boards, which
simply run into `MaxEvents`, nor of deletes. The dead-letter topic is not kept
from taking a message: the rows it hits are in `forgone`.

`pdf_service`: the event loop runs what is ready (WF on a request's step and
on `remove_inflight`: `call_soon`, from a worker's thread, does not wake the loop
(in debug mode it raises), but the `call_soon_threadsafe` of `wrap_future` for the
request that waits for the same future does), the executor's queue is first come first served (SF on
`Run`, because a thread may be busy), and a render ends. A failed render is not
retried by itself. Clients need not be fair.

## 5. Disagreements between code and text

Five are violation runs over one property that states what the quoted text
says; `PROJECT.json` has the quotes and lines.

1. `stale_overwrite`: the worker's stale check and its saves are separate steps.
2. `silent_change`: a posting that was unchanged when a sync looked is written as
   unchanged, without an event, though another sync or a DELETE has changed its
   row since; the docstring says that nothing to re-analyze happened.
3. `no_catch_up`: an analysis hangs on the status of the sync that stored the
   posting (`p/gaps/gap_service.py:460`); what a run without inputs has stored is
   unchanged, or behind a 304, for the next one, and not analyzed by it, though
   the docstring says it will be.
4. `stuck_key`: a key whose request failed after the reservation gets 409 for
   ever.
5. `seed_race`: seeding reads, then upserts; an edit in between is lost.

The others have no run, most of them since a checked property implies how far
they go:

- **Disable.** A login past its password check when the user is disabled gets a
  live family afterwards (`p/auth/routes.py:310`; the docstring says that every
  family is revoked). `BarredSessionsCut` says that only such logins escape.
- **Outbox claims.** The locks of `claim_pending_events` end with its own
  transaction, before anything is published, so overlapping relays publish the
  same events (`p/gaps/gap_repository.py:579`). `EveryEventIsOwed` is proved for
  any number of relays and does not need the claims to be disjoint.
- **Aliases.** `_tier_index` (`p/matching/gap.py:171`) writes every key of every
  bank atom, so a later atom's alias takes the key of the atom it names, although
  the docstring promises "covered" for a term on the live CV. In the shipped
  `data/cv_baseline.json`, EXPLAIN ANALYZE is reported as "query optimization".
- **Administrators.** Two who disable each other, the second with a token issued
  before, leave none, and `seed_first_admin` does not enable again;
  `LastAdminFallsToStaleClaim` says that this needs a stale token.
- **Order of the gate.** `JWTAuthMiddleware` is added after the guard and so runs
  before it, while the comment at `p/main.py:233-243` and the guard's docstring
  say the guard is first. The middleware's own docstring puts the missing key
  (503) before the missing header (401); the code does the reverse. A login
  without a key is a 500, not the 503 of `p/auth/routes.py:162`.
- **Unhandled errors.** That 500, and any other for a handler that raised, has
  neither security nor CORS headers, because Starlette sends it from outside every
  layer the application adds; the comment at `p/main.py:234-236` says "on every
  response", the docstring at `p/main.py:182` "every HTTP response".
  `HeadersAreStamped` and `PinnedPageReadsAnswers` except it and nothing else of
  the application.
- **Tracked boards.** `p/gaps/tracked_board_service.py:42-44` calls the check on
  creation the only place the rule is ever checked, and a PATCH may take a slug
  away; /trigger then skips the board without a word. `UnpolledWerePatched` says
  that this is the only way. A clash of slugs is 404 on PATCH and 500 on POST.
- **Revisions.** `revisions.name` is unique and made of the second: a second
  tailoring in one second falls to a file, a third overwrites that file. A
  delete or a read by id with the database down is a 404. If the error came
  after the commit, there are a row and a file of one CV.
- **Tabs.** The comment in `AuthContext.tsx:73-75` calls `setAccessToken` the single
  choke point; the refresh of `apiFetch` goes around it, and a page may show the
  name and role of an earlier user when the answer of /auth/me is late. A logout
  whose request is lost leaves the session alive and the page signed out.
- **Analyzer versions.** After `ANALYZER_VERSION` is raised nothing analyzes
  unchanged postings again but the manual route, and a skill whose name changes
  case, or whose group is edited, has two rows in the roadmap, though the
  drill-down lists both under one.
- **Bans.** A second ban replaces the paths of one that still runs, and
  bans are never dropped to make room for strikes.

## 6. Proofs

tlapm checks every theorem; none has an assumption beyond the named ones of its
module (`NoneAssumption`, `PipelineAssumption`, `BoardAssumption`, ...), which say
that `None` is no value and that bounds are naturals. The sets of users, tokens,
requests, rows, relays, workers, runs, keys, tabs and jobs are arbitrary, and may
be infinite. Some theorems have a premise more: `OneRunMirrors`
and `NoChangeGoesUnnoticed` (one refresh run of the board at a time),
`NothingForgottenApart` (handlers are not at work on one posting together),
`OnlyRacesAreSilent` (nobody else writes a posting's row during a sync of it) and
`BankComesFirst` (see section 4). The theorems on `Matching` are
about every state with lists of atoms and a posting, not only reachable ones,
since there are no steps. A type invariant is among the runs' invariants only
where a bound is part of it (`PdfService`); elsewhere it is proved.

**RefreshTokensProofs.** None of the invariants is inductive: that a token has
one successor depends on a spent token never being current again, which depends
on new tokens being fresh, on the index leading to a family that holds the
token, and on what a request in flight carries. `Inv` joins `IndexInv` (the two
tables agree), `RequestInv` (what a handler holds at each point), `SpentInv` (a
traded or answered token is not current, or its family is revoked) and
`BarredInv` with the invariants. `Inv` is shown to hold initially and under each
handler's steps (`LoginStep`, `RefreshStep`, ...), and gives `TypeCorrect`,
`TokenIsTradedOnce`, `ReuseIsDetected` and `DisableCuts`. The action properties
`RevocationIsFinal` and `LostTokenIsFinal` follow from `Inv` and one lemma on
steps each. `Refinement` shows that every step is a step of `TokenLineage` or a
stutter under the mapping lineage <- index, valid <- `Valid`, dead <- revoked.

**PostingPipelineProofs.** `EveryEventIsOwed` needs that only accepted events
are about to be stamped (`SentInv`) and that whatever a process holds is in the
log (`HeldInv`); `DocumentBehindRow` needs that a sync that reaches its upsert
has saved its document (`SavedInv`). The worker and the relay frame the store,
the syncs frame the claims, so the lemmas are one per process. Results:
`TypeCorrect`, `OutboxLosesNothing` (for any number of overlapping relays,
also those that claim the same events) and `RowsHaveDocuments`.

`NothingForgotten` is not inductive, for two reasons. An event that is
acknowledged before its outbox row is stamped is pending and no help any more,
so only events count that Pub/Sub has to deliver or has not accepted yet
(`Owed`, `Served`). And a handler may hold a text its posting has lost: then it
must not be the only hope of that posting (`Excused`), or what it has done so far
must be good for the present text (`UpToDate`). `ServedInv` joins these per
handler. TLC agreed with it before it was proved, for one handler (1.1 million
states) and for two that are kept apart (0.25 million). `NothingForgottenApart`
assumes []WorkApart, `OneWorkerForgetsNothing` has it for nothing. Pub/Sub does not
promise `WorkApart`: `stale_overwrite` is what happens without it.

**BoardsProofs.** `BoardSync`, for any number of runs of one board: what a run has
read and what it has still to sync make up the listing it was sent (`Typed`), and
`ClosedOnlyWhenAbsent` follows. The other two are false for two runs that overlap,
so their theorems assume that there is one at a time (`OneRun`). For
`ChangesAnalyzed` the text an analysis holds is that of its row as long as the row
lives, and a row taken for unchanged is so or has been deleted (`OfTheRow`, in
`AnalysesInv`). For `MirrorsBoard` the etag on record is never ahead of the listing
it stands for (`Abreast`), and a listing taken for current is current. `TrackedBoards`: under
the lock the row that was read is the row that will be written
(`LockedRowsStand`, `LocksExclude`), and so the columns that changed are as good
as the whole patch (`ChangedSuffices`).

**PostingIntakeProofs.** The row of a key is a lock that is never released. One
request at most gets past it (`OneOwner`); while it works nothing has been
answered and nothing created (`OwnersUnanswered`); what is replied is what is on
record (`RepliesOnRecord`). Hence `RetriesCreateOnce`, `RetriesAgree`,
`ResponseIsFinal`.

**GateProofs.** `Accounts`: what a token claims is backed by how recently its owner was
an administrator: `lastAdmin` plus the life that is left never exceeds a whole
life (`TokensAreBacked`), for requests in flight as well. That gives
`SharedIsAdministered`; `LastAdminIsSafe` follows from the refusal of oneself.

`FailBan`: strikes are kept oldest first, and those a client still has to answer
for are the end of its latest strikes, fewer than the threshold, and all of them
unless the cap took some (`History`). The code prunes a deque when it looks at
it, the history forgets as time passes; lemmas on `Live` say that this comes to
the same, for any times, thresholds and caps. Hence `BannedInTime`;
`BansCoverWhatWasOverrun` looks at the step that makes a ban.

`Gate`: what an answer carries at each layer on its way out (`Pinning`,
`Readability`) is inductive; the order of the layers is what makes it so.
Hence `LayersAnswersAreStamped`, `OnlyThePinnedPage`, `SessionAnswersAreReadable`,
for any paths, tokens, origins and any configured one, the 500 for a handler that
raised excepted.

**CvProofs.** `PdfService`: the in-flight table leads to a future of its key and
misses none that is still live (`TableInv`), a request waits for a live future of
the key it asks for (`RequestsInv`), and an entry of the cache is a PDF of what
its key says (`CacheFits`), a key being good for one document only (`KeysFit`).
These give `RenderedOnce` and `AnswersFitWhatWasRead`, for any number of requests,
threads and cache entries. `Revisions`: an id is given out once (`IdsInv`), a row
belongs to one tailoring (`RowsInv`), a file to one that was told its name, though
perhaps not to the only one (`FilesInv`), and only what has been stored is told
(`StepsInv`). Hence `TailoredAreKept`.

**AnalysisProofs.** `Corpus`: the one role an instance serves under is the one
the policies bind, and what is stored of an analysis is filed under the version
that made it; the rest is what the queries and policies say. `PhraseCache`: a row's
vector was made by the model the row names, however the instances overwrite
each other's rows. `Matching`: where no spelling is shared (`Apart`), a word
resolves to an atom in either table exactly if it is a spelling of it
(`CanonicalClaims`), so single words lead to it in both scans or in neither, and
the key of its tier is its name (`BankTiers`). The wider index has more names of
several words to spend others on, so in a qualified phrase it hears of an atom what
the bank's own hears, or less (`WiderHearsLess`); of one text both hear the atom or
neither does, the wider one at no firmer level (`SameText`). Hence
`ReportAndCvAgree`. `MentionsAreReported` needs none of this, only that every name
has a tier (`NamesHaveTiers`).

**BrowserTabsProofs.** The invariant follows the tokens through cookie, requests
and answers. A token on its way to the browser is nowhere else and not yet
traded (`NewInv`); of the traded ones, the cookie's is excused or the answer that
replaces it is under way, a request's is excused, and two requests with one
token excuse it (`ReplayInv`). After a logout all that is left belongs to a
revoked family (`OutInv`). `NoneWaitsInVain` is inductive with the types.

`Clustering`: what a recursive `Find` would compute is not defined, since nothing
could be proved of it here; the invariant says instead that there are roots and
depths that fit the forest (`Forest`): a link keeps the root and lowers the
depth. Halving keeps both (`HalvedForest`), which is where a cycle would come in
without the depths. Linking a root joins two trees (`UnitedForest`), and trees are
the components of the pairs visited so far (`Components`, `JoinComponents`). Hence
`ClustersAreTheComponents`, for any number of phrases and any similarity. That
`_find` ends is not stated, though the depths are what it falls along.

Only model-checked is liveness (`AnalysesConverge`, `InflightClears`), which needs
ENABLED. Every other invariant and action property of a passing run is a theorem.

## 7. Not modelled

`PROJECT.json` lists every component with its reason. Beside the plan's items:
pruning after seven days and the expiry of cookies are a free choice of time;
only `Corpus` has several tenants, the other modules speak of one; the bytes of
texts, PDFs and HTTP answers are model values; hashing of passwords and
signatures are taken to work; a rate limit is open or closed, how it counts is a
library's affair; the name and role a page shows are left out; the review agents
keep nothing between requests; the bucket as a source of the CV is left out
(`CV_DATA_GCS_URI` is empty unless a deployment sets it, and nothing under
`terraform/` does); the synchronous `generate_cv_pdf` is only called by tests.
Scores, embeddings and the bounds of phrases are inputs of `Matching`: so the
window of `parser.py` (line 307), which cuts what follows a qualifier at 40
characters even in the middle of a word ("javascript" may become "java"), shows
up only as a spelling in a phrase that the text did not mean.
