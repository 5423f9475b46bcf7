# Print colour calibration and release: verification

TLA+ models of the backend (`src/backend`) and of the web client
(`src/frontend`) of the print colour calibration platform, the TLC runs that
check them on small instances, and TLAPS proofs of the properties that matter
most. `PROJECT.json` lists the runs, the lines each definition translates, one
mutation per checked property, the findings, the hazards and the theorems.

```
tlc -workers 2 -config records.cfg RecordRefinement      # any run of PROJECT.json
tlapm RecordAnswerProofs.tla                             # any *Proofs module
```

## 1. Inventory

Four kinds of record (press unit, print run, colour proof, release decision) go
through the same layers: route and role middleware, handler, service,
repository, database. The code of the four kinds is nearly the same; what makes
them different is data (graph, gates, locks, revisions).

| Component | State | Operations | Talks to | What makes it correct |
|---|---|---|---|---|
| Workflow graphs (`constants/status.go`, checks in `service/*.go`) | none | `CanTransition`, review gate, lock, deletable | services | clients and server agree on what is permitted |
| Record services (`service/{press_unit,print_run,color_proof,release_decision}.go`) | local copy of the record per request | Create, Update, Transition, Delete, Get, List, StatusCounts | repositories, security service | every version is one permitted change of the version before it; one winner per version; answers agree with effects |
| Record repositories (`repository/*.go`) | rows, revision rows | insert, conditional write with revision, soft delete, get with preload, list, counts | database | row and chain agree; codes are never given twice |
| Handlers, DTOs (`handler/*.go`, `dto/*.go`) | none | bind, call, map errors to answers | services | a refusal has no effect |
| Authentication, roles (`middleware/auth.go`) | token claims | expiry, rank and set checks | routes | nobody writes below operator, deletes below admin; a role is served no longer than its token lives |
| Security service (`service/security.go`, `repository/security.go`) | users, audit rows | login, append audit, list, summary, history | services, database | audit rows tell the truth; readers miss rows for known reasons only, and figures do not contradict each other |
| Rate limiter (`middleware/ratelimit.go`) | Redis counters, map per instance | count, fall back, clean up | Redis | a window's budget is handed out once per place that counts |
| Start-up (`database/database.go`, `cmd/server/main.go`) | tables | connect, migrate, seed, ping Redis | database, container restarts | nobody serves a half-seeded database; seeds go in once |
| Store and page of the client (`stores/factory.ts`, `EntityPage.tsx`) | items, flags, dialog, query | load, createRecord, transition, search, page, confirm | backend, session | what is offered is permitted; what is confirmed is done or refused |
| Session of the client (`useAuth.ts`, `api/client.ts`) | session in localStorage, session and loading flag per tab | initialize, switchRole, request with its 401, reload; logout (no caller) | backend, other tabs | a tab shows the session it sends; a page comes to a session |
| System handler (`handler/system.go`) | none | login, audit list, summary, history; overview, health, runtime | security service, services | the page size it names is the one that is used |
| Audit page, formatting, configuration, request context | none or read-only | reads | backend | - |

Behaviours that are hard here:

- **Check on a copy, write later.** Every service reads a record, checks it,
  and writes with `WHERE id = ? AND version = ?` where the version is the
  client's, not the one of the copy that was checked. Delete compares neither.
- **Several statements per request.** The write and its revision are one
  transaction, the audit row a statement after it, the answer a further read
  of two statements (row, then `Preload("Revisions")`).
- **Failures in between.** Any call may fail after others have committed; two
  of the four operations ignore a failed audit insert, two return it; a
  process that stops cuts requests off.
- **Two counters for one limit.** Each failed Redis call moves one request to
  the instance's own map, and the failed call may have counted it too.
- **Seeding by count and insert**, over tables in which withdrawn rows keep
  their unique codes.
- **Overlapping calls of the page**, answered in any order, with dialogs that
  outlive refreshes and errors.
- **Two copies of a session**, one in the memory of each tab and one stored for
  all of them, which part ways when another tab signs in or when a 401, however
  late, clears the stored one.
- **Pages of a list that moves.** Each page is a count and a query of its own,
  over an order that every change rearranges (records) or that leaves rows of
  one moment in any order (audit rows, which also arrive late).

The hazards at their lines, with the properties that cover each, are in
`PROJECT.json`.

## 2. Modules

```
Workflow <- RecordService <- RecordInvariants <- RecordServiceProofs -----------------------+
         |       |               |                                                          |
         |       +- MCRecord-    +- RecordRefinement --INSTANCE--> RecordLedger -> Workflow |
         |          Service              |                                                  |
         |                               +-----> RecordWorkflowProofs <---------------------+
         |                                               +-- RecordAnswerProofs
         +- Workbench <- WorkbenchProofs,  MCWorkbench
Startup <- StartupProofs,  MCStartup
RateLimiter <- LimiterProofs,  MCRateLimiter
Session <- SessionProofs
Paging <- RecordPages --+- MCReaders
       <- AuditTrail  --+- ReadersProofs
```

**Workflow** holds the rules of the four services as one record per kind:
initial status, graph, gated, frozen and deletable statuses, whether revisions
are kept and which fields they copy, seeded statuses; and the role checks of the middleware. `Kind` says
which service is meant, so that each other module is written once.

**RecordService** is one kind with its handler, service, repository and tables,
serving concurrent requests. Each request is a goroutine with a `pc`:

| `pc` | next step in the code | actions |
|---|---|---|
| `idle` | role check, `repository.Get`, business checks | `BeginCreate`, `BeginUpdate`, `BeginTransition`, `BeginDelete`, `BeginGet` |
| `checked` | `CreateVersioned`, `UpdateVersioned` (or `Store.Update`), `Store.Delete` | `InsertRow`/`InsertRejected`, `WriteRow`/`WriteConflict`, `SoftDelete`/`DeleteMissed` |
| `written` | `security.Audit` | `AppendAudit`, `AuditFails` |
| `fetch` | first statement of `repository.Get` | `FetchRow`, `FetchMissed` |
| `preload` | the preload of the revisions | `FetchRevisions` |

`DatabaseError` and `Interrupted` end a request at any point. A transaction is
one step, on the word of the database: `InsertRow` and `WriteRow` write a row and
its revision. `job` is the
request's local variables (`current`, `before`, the input); `answer` is what the
client is told. Business fields are abstracted to the request that wrote them
last, in three groups (`Fields`) that the revision builders copy or leave out
together: evidence (with name, risk, metric and related code), ownership
(facility, owner, category) and context (description, effective date). A lost
update shows as a wrong author. A revision copies the first two groups of a
print run and the first of a release decision (`Rules.copied`, `Snapshot`), so
that what it says of the row is said of those fields only; the rest of an
earlier version is gone once the row is overwritten. `PredictedVersions` separates
two environments: empty, clients send only versions that the record has or had
when they send (`HonestClients`, which is what the web client does); otherwise
they also claim versions that do not exist yet, which the handlers accept.

**RecordLedger** is what the kinds with revisions promise: per record a
sequence of versions that only grows, each operation at one moment, checked
against the record at that moment. **RecordRefinement** maps the service to it:
the ledger of a record is its chain of revisions (statuses, authors and copied
fields), the withdrawn records its tombstones; only the three writes are steps of the ledger.

**RateLimiter** has the Redis counters, the map of each instance and the
requests on their way. The window's number is the clock; it may advance between
the naming of the Redis key and the fallback, which reads the clock again.
`RedisFails` leaves open whether the increment was applied. That `INCR` and
`EXPIRE` are one step is what `TxPipeline` asks for.

**Startup** has instances that start on one database: connect, then count and
insert for each of five tables, ping Redis, serve. A rejected insert, a failed
call or a kill ends the process, which is started again
(`restart: unless-stopped`). The rows of a table are abstracted to how often the
seed rows were inserted, whether one of them is live, and whether any other
live row is there; while somebody serves, clients change the last two.

**Workbench** is a page and its store against the backend, while other people
change records. A call is sent, answered and delivered in three steps, in any
order among calls. The backend is taken at one moment per call, which
`RecordRefinement` justifies for the writes; a write that was done may still be
answered with an error. One dialog asks about a transition, with the record as
it was shown; the other creates a record under a code made of the clock, a new
one for each confirmation (`ConfirmCreate`). What waits for a call closes the
dialog when it is back (`Close`), whichever it is by then. The default query
selects all live records, any other query any of them. `SwitchRole` replaces the
page, so that dialogs and query are lost while the store's records stay.

**Session** is how several tabs of one browser sign in: `stored` is
localStorage, `session` and `loading` the memory of each tab. `useEffect` is the
flag `due`, set when the page or the notice in its place is mounted;
`Initialize` is the effect. `SwitchRole`, `SignedIn` and `NotSignedIn` are the
login and what becomes of it, `Send` and `ApiArrives` any other request with the
token that is stored when it is sent, `Load` a reload. Behind them are the
accounts and a clock: `AnswerLogin` signs a token with the role of the moment,
`Answer` accepts a token for as long as it lives and asks no account.
`ChangeAccount` is external: no route changes an account. A failed call of the
login may come back as a 401, since the handler answers every error with it.

**Paging** has what the lists share: page sizes as the handler and the
repository bound them, the orders that `ORDER BY` leaves open, `OFFSET` and
`LIMIT`, and the number of pages `usePagination` takes a total for.
**RecordPages** is a reader who turns the pages of a record list (newest change
first) while others create, change and withdraw records, each change under a time that
was taken before its statement; **AuditTrail** has the
readers of the audit log: pages, summary (its queries are separate steps; the
count of distinct actors is left out) and history, while requests change
records, take the time of an audit row some time after the change and insert it
later still. **MCReaders** runs one or the other, since they share no state.

**MCWorkbench** adds the query that the records shown answer, as history for
`v_filter`. The other `MC*` modules add only symmetry sets.

## 3. Runs

Passing runs with what they show:

| Run | Instance | Shows |
|---|---|---|
| `records` | 3 requests, 1 release decision, 2 roles, failures everywhere | the service implements the ledger (`ImplementsLedger`); each step of a row is permitted (`StepsFollowWorkflow`); the chain of revisions is unbroken and its last entry agrees with the row in the fields it copies (`RevisionChain`) and follows graph and gates (`HistoryFollowsWorkflow`); one winner per version (`AtMostOneWinner`); audit rows name the revision that took `before` to `after` (`AuditMatchesRevision`); answers agree with effects (`AnswerMatchesEffect`); readers' revisions cover the version they see (`DetailCoversVersion`); the inductive invariant of the record proofs (`RecordInvariants!IInv`) |
| `races` | 2 requests, 2 colour proofs, 1 code, no symmetry | a code belongs to one record for ever (`CodeIdentifiesOneRecord`), a conflict has a winner (`ConflictHasWinner`), every admitted request ends (`EveryRequestAnswered`) |
| `limiter` | 3 requests, 3 keys, 2 instances, 3 windows, limit 1, threshold 2 | no place that counts, Redis or the map of an instance, hands out more than the limit for a key and a window (`AdmittedWithinBudget`), nobody is refused early (`RefusedOnlyOverBudget`), old buckets do not pile up (`StaleBucketsBounded`) |
| `startup` | 2 instances, 2 faults, 5 tables, no symmetry | `ServesSeeded`, `SeedsOnlyFreshTables`, its own inductive invariant (`Startup!IInv`); an instance comes up unless all rows of a table are withdrawn (`ComesUpUnlessBlocked`) |
| `workbench` | 4 calls, 1 decision that the page or somebody else creates, 2 queries, 2 roles, 2 changes by others, no symmetry | what was confirmed is done or refused for a change (`RefusedOnlyWhenChanged`, `ConfirmedIsApplied`); the loading flag comes back (`LoadingEnds`) |
| `session` | 2 tabs, 2 accounts, tokens of 1 unit, clock to 1, one role switch, one changed account, one mishap, no symmetry | roles are served no longer than a token lives (`OnlyWhileGranted`); a tab shows what it sends (`ShowsWhatItSends`); the notice stays in one case only (`StuckOnlyByOtherTab`); only a refused login or 401 for another token clears one that works (`GoodTokenStays`); pages come to a session (`SignsIn`) |
| `readers` | 4 records, pages of 1 and 2, 3 changes; 2 entities, 3 changes, history of 1 | how many untouched records a reader may miss (`RecordsMissedForAReason`: no more than left the list) and why a reader of audit rows may miss one (`AuditsMissedForAReason`); without writes the pages are a partition (`QuietWalkShowsOnce`); the figures of a summary do not contradict each other (`SummaryOnlyGrows`); a history shows the later change first (`HistoryInOrder`) |

One type invariant is checked for each state module.

**Bounds and why they are enough.** Requests interact only through one row and
its revision and audit rows: two writers race, and the third request is the
reader, the deletion or the writer that comes after the race. One record is
enough where the property is about one record, since rows do not influence each
other except through codes, which `races` is about: one request withdraws the
holder of the code, the other asks for the code again. The record runs that pass
have clients that send versions they were given (`PredictedVersions = {}`, what
the web client does); `v_overwrite` adds version 2, which the first of two
racing writers is about to produce, and the theorems say which properties hold
for such clients, too. The four kinds differ in their rules only by constants:
release decisions, colour proofs, print runs (`v_audit`, `v_create`) and press
units (`v_filter`) each have a run, and the theorems cover every kind.

A limit of 1 with 3 requests makes each place that counts overflow; three
windows cover counting, expiry after two windows and clean-up, and three keys
exceed the clean-up threshold of two. Four calls of the page are the first
load, a write that is confirmed again after a lost answer, and its reload, or
two loads that bring newer records under an open dialog, and a write; two
changes by others let a record be created and then change while a dialog is
open, and the role can be switched under it. `v_create` has five calls, enough
for two confirmations before the first is back. Two instances race at every table, and each of two faults can hit either
of them. Two tabs are one that acts and one that interferes; a clock that moves
once over tokens of one unit has fresh and expired tokens side by side. Three
changes move records over each boundary between pages of one and of two, a
fourth record may be created, and page sizes asked for go from below the least
to above the largest (`AskedSizes`).

Bounds that are artefacts of the models are named where they stand: `IdsLeft`,
`MaxWindow` and the limit on how long a Redis call lasts in `Tick` (two clock
readings of a request are less than a minute apart), `MaxFaults`, `MaxCalls`,
`MaxDialogs`, `MaxChanges`, `MaxTime`, `MaxSwitches`, `MaxMishaps`, `MaxWrites`,
`MaxStamp`; and a behaviour of `MCReaders` ends with its reader. Requests are
sent once, and calls, mishaps and changes are bounded, so all models but
`Startup` may stop when nothing is left to do: their runs do not look for
deadlocks. Start-up never stops, and its run does look for them.

**Symmetry** is used for requests, keys, codes, instances and records, which no
definition tells apart; not in runs with liveness. Record ids of `RecordPages`
are numbers, for ties are broken by them.

**Fairness.** `RecordService`: `WF(Proceed(r))` for each admitted request: the Go
scheduler does not abandon a goroutine and a database call returns; faults are
not required to happen, and nobody is forced to send a request. `Startup`:
`WF` of each process's next step, `Start` included: the compose file restarts
the container. `Workbench`: calls are answered and delivered, for the server
and the proxy have time limits; nothing is assumed of the user. `Session`: for
each tab, the effects of mounted components run, and its login is answered and
delivered; neither a successful login nor a request of the user is required.

### Findings

Each is a run in which TLC finds the state the repository says cannot be.

- `v_delete`: Delete checks the status on a copy and then deletes by primary
  key; a decision released in between is withdrawn although it is resolved.
- `v_audit`: a transition is committed before its audit row is inserted; when
  the insert fails or the process stops, the change is not in the log.
- `v_overwrite`: Update checks the lock on its copy but writes where the
  *client's* version matches; an edit claiming the version that a concurrent
  release is about to produce overwrites the released decision and takes it
  back to draft. It needs a client that predicts a version; the web client
  sends no edits.
- `v_filter`: the page can end up showing, as "current filter", the answer to
  another query: a slow answer replaces a newer one, and the reload after a
  transition always asks for the first page without search text.
- `v_create`: the create dialog says that one record will be created; a second
  confirmation, or one after a lost answer, carries a new code of the clock and
  creates a second record.

Four further behaviours are at the edge of a property, and the repository makes
no promise about them; a hazard that no property covers for this reason says so in
`PROJECT.json`.

- `ComesUpUnlessBlocked` (`Blocked`): once every row of a table is withdrawn, the
  seed counts none, its insert meets the codes of the withdrawn rows, and every
  start ends the process until a record is created through an instance that
  still runs.
- `StuckOnlyByOtherTab`: a tab that was loaded without a session, and finds one
  that another tab stored before its effect runs, takes it over without taking
  the loading flag back, so that its notice stays.
- `AnswerMatchesEffect`: a creation or an edit whose audit insert failed is
  answered with success, and the log misses it.
- `ShowsWhatItSends`: after a 401 the page goes on showing its session while its
  requests are sent without one.

## 4. Proofs

TLAPS proves the following for every value of the constants that satisfies the
named assumptions of the modules; eight modules hold the proofs.

**Records**: for every kind, any number of requests, records, codes, roles and
claimed versions, from `KindAssumption`, `NullAssumption`, `RolesAssumption` and
`VersionsAssumption`:

| Theorem | Statement | For |
|---|---|---|
| `RecordServiceProofs!TypeCorrect` | `[]TypeOK` | all clients |
| `RecordServiceProofs!OneWinner` | `[]AtMostOneWinner` | all clients |
| `RecordServiceProofs!ChainUnbroken` | `[]RevisionChain` | all clients |
| `RecordServiceProofs!CodesUnique` | `[]CodeIdentifiesOneRecord` | all clients |
| `RecordWorkflowProofs!StepsPermitted` | `StepsFollowWorkflow` | honest clients |
| `RecordWorkflowProofs!HistoryPermitted` | `[]HistoryFollowsWorkflow` | honest clients |
| `RecordWorkflowProofs!ServiceImplementsLedger` | `Spec => ImplementsLedger` | honest clients, kinds with revisions |
| `RecordAnswerProofs!InvariantHolds` | `[]IInv` | all clients |
| `RecordAnswerProofs!AnswersAreTrue` | `[]AnswerMatchesEffect` | all clients |
| `RecordAnswerProofs!AuditsAreTrue` | `[]AuditMatchesRevision` | honest clients |
| `RecordAnswerProofs!DetailsAreCovered` | `[]DetailCoversVersion` | all clients |
| `RecordAnswerProofs!ConflictsAreWon` | `[]ConflictHasWinner` | honest clients |
| `RecordAnswerProofs!RequestsAdvance` | `[][\A r : AdvancesOnly(r)]_vars` | all clients |

The argument, part by part:

- `TypeInv` adds to `TypeOK` what each request's local variables hold at each
  point (`JobsComplete`) and that existing rows are complete (`RowsComplete`).
  Without it a write could take an undefined version from a job.
- `StepIsQuietOrWrites` shows that every step either leaves rows, revisions and
  the jobs of writers alone or is one of the three writes of one request; every
  later proof has one case for the quiet steps and one for each write.
- `WinnersAreAhead`: a row stays ahead of every version that was written over.
  A second winner would need the row to be at that version again.
- The chain: with `TypeInv`, a write adds exactly the revision of the next
  version, and a row's version changes in no other way.
- `SnapshotsHold`: what a request checked on its copy is still true of the row
  *if the row still has the version that the write will compare*. This is why
  checks on an old copy are good enough, and it is where honest clients are
  needed: a version that was claimed ahead belongs to a later row than the copy
  (`v_overwrite`).
- `AuthorsWrote`: the author of a revision is past its write, so that the role
  found in its job is the role it acted with.
- The refinement needs the chain to read a record as a sequence of versions: a
  write appends one entry to it, checked against the last one (`SnapshotsHold`
  again), a withdrawal takes the record out, and a quiet step changes neither.
- Answers and audit rows are true when a request gives them, from what its job
  remembers, and stay true because rows only move ahead, revisions stay, and a
  withdrawn row stays withdrawn.
- `RequestsAdvance` needs types only: each step of a request leads to a later
  `pc` and no step of another request touches its `pc`, `job` or `answer`, so
  that it takes five steps at most. Together with the fairness this is why
  `EveryRequestAnswered` holds; that a step is enabled until then is TLC's part.

`IInv` in `RecordInvariants` is the conjunction `TypeInv`, `WinnersAreAhead`,
`SnapshotsHold` and `AuthorsWrote`; the run `records` checks it.

**Limiter**, for any number of requests, keys, instances and windows, from
`LimitAssumption`, `SizesAssumption`, `RedisAssumption` and `FiniteAssumption`
(there are finitely many of each, so that they can be counted), and for
`Retention >= 2`: a call that was begun in the last minute may still increment
its counter in this one, and a counter that was dropped before that would start
anew. The code keeps counters for two windows.

| Theorem | Statement |
|---|---|
| `LimiterProofs!BudgetHandedOutOnce` | `[]AdmittedWithinBudget` |
| `LimiterProofs!NobodyRefusedEarly` | `[]RefusedOnlyOverBudget` |
| `LimiterProofs!StaleBucketsDropped` | `[]StaleBucketsBounded` |
| `LimiterProofs!TypeCorrect` | `[]TypeOK` |

The invariant relates every counter to the requests it was incremented for: the
bucket of the current window *equals* the number of requests charged to it
(`LocalCounts`); a Redis counter that may still be incremented is *at least*
that number, since lost replies count too (`SharedCounts`), and at most the
number of its rivals (`SharedRivals`). A request is admitted on its own count,
so that at most `Limit` of those charged to one place are. The sum over places
is not bounded by `Limit`: an instance that has to fall back starts its own
count, and the code means it to.

**Start-up**, for any number of instances and faults (`MaxFaultsAssumption`):

| Theorem | Statement |
|---|---|
| `StartupProofs!Inductive` | `[]IInv` |
| `StartupProofs!ServesOnlySeeded` | `[]ServesSeeded` |
| `StartupProofs!SeedsAreFirst` | `SeedsOnlyFreshTables` |
| `StartupProofs!TypeCorrect` | `[]TypeOK` |

The invariant says that the tables a process has behind it are seeded
(`Behind`), so one that serves has them all; hence clients, who need an instance
that serves, never touch a table before it is seeded; hence a table that was
never seeded is empty, which makes the insert of a late starter a second one and
the unique index reject it.

**Web client**, for every kind and any number of records, queries, calls, tabs
and users:

| Theorem | Statement |
|---|---|
| `WorkbenchProofs!OffersAreHonoured` | `[]RefusedOnlyWhenChanged` |
| `WorkbenchProofs!ConfirmedOnly` | `[]ConfirmedIsApplied` |
| `WorkbenchProofs!TypeCorrect` | `[]TypeOK` |
| `WorkbenchProofs!BusyOnlyForCalls` | `[](loading => calls # {})` |
| `SessionProofs!TabsShowWhatTheySend` | `[]ShowsWhatItSends` |
| `SessionProofs!NoticeMakesWay` | `[]StuckOnlyByOtherTab` |
| `SessionProofs!RolesExpire` | `OnlyWhileGranted` |
| `SessionProofs!GoodTokensStay` | `GoodTokenStays` |
| `SessionProofs!TypeCorrect` | `[]TypeOK` |

- Workbench: whatever the page knows of a record, in its list, a dialog or a
  call, is true of the row while the row has that version (`Knows`), and
  whatever a dialog asks about was offered to the role that would send it
  (`Permitted`, from `OffersArePermitted`: the page's table against the graphs).
  A switch of roles must therefore close the dialogs.
- Workbench, types: two calls that ask for the same are told apart by a number,
  and there is a free one as long as fewer calls are on their way than may be
  sent. `CallsCounted` therefore counts them: those on their way are no more
  than those sent, and each write keeps room for its reload. An open create
  dialog has an opening to count for (`PageTyped`). `BusyOnlyForCalls` is what
  the liveness of `loading` rests on, and needs no fairness.
- Session: a token is no younger than the last moment its account held its role
  (`TokensGranted`, with `HeldUntilNow`); a login's token names its tab
  (`OwnLogins`); a tab that was loaded without a session has none until its
  effect runs (`FreshPages`); what was refused stays refused, for tokens do not
  become valid again (`RefusalsLast`).

**Readers**, for any finite set of records with numbers as ids, any number of
changes and ticks, and any sizes of pages, asked for or largest, from
`IdsAssumption`, `SizesAssumption`, `BoundsAssumption` (`RecordPages`),
`AuditSizesAssumption` and `AuditBoundsAssumption`:

| Theorem | Statement | Of |
|---|---|---|
| `ReadersProofs!RecordsMissedOnlyForAReason` | `[]RecordsMissedForAReason` | `ListSpec` |
| `ReadersProofs!QuietPagesPartition` | `[]QuietWalkShowsOnce` | `ListSpec` |
| `ReadersProofs!ListTypeCorrect` | `[]ListTypeOK` | `ListSpec` |
| `ReadersProofs!AuditsMissedOnlyForAReason` | `[]AuditsMissedForAReason` | `AuditSpec` |
| `ReadersProofs!FiguresOnlyGrow` | `[]SummaryOnlyGrows` | `AuditSpec` |
| `ReadersProofs!HistoryShowsLastFirst` | `[]HistoryInOrder` | `AuditSpec` |
| `ReadersProofs!AuditTypeCorrect` | `[]AuditTypeOK` | `AuditSpec` |

No induction over pages is needed, for what a page holds follows from counting.
`OrderIsBijection`, `AboveFitsBefore` and `BeforeIsAbove` say of `Orders` that a
row has at least as many rows before it as are above it in every order, and
exactly as many in a total one; so a row is on the page that the number of rows
above it (`Ahead`, `Later`) says, and `PagesHoldTotal` says that the pages that
are turned hold the total, given that handler and repository use one size
(`SizesAgree`).

- Records: a record that nobody touched and that was not shown (`Missing`) has
  all rows of the pages behind the reader ahead of it, or it is one of those that
  slipped behind the reader (`Skipped`). A change or a creation takes nothing
  from what is ahead of an untouched row (`AheadStays`), whenever its time was
  taken; a row that leaves the list takes one away from each row behind it, and
  since no two rows have as many ahead of them (`AheadIsPlace`), exactly one row
  can slip over the edge of the page (`FewSlip`). So those that slipped are never
  more than those that left (`FewAreSkipped`), and at the end they are all that
  was missed (`FewAreMissed`). While nobody writes, what was shown is the list up
  to the page (`ShownIsPrefix`).
- Audit rows: a row with a stamp of its own that was not seen has at least all
  rows of the pages behind the reader above it (`NotSeenIsBehind`); a row that comes late only adds to what is above
  the others.
- Summary: what a query returned is no more than what the log has by now
  (`FiguresLag`), and the groups of a grouped count add up to the rows that were
  counted (`GroupsAddUp`). `Sum` counts a set of pairs, since a fold's value
  would need induction.
- History: what was in the log when a change was made has a stamp that is no
  later (`KnownEarlier`), and so comes below it.

TLC checked each of these invariants on the instance of its run before it was
proved.

**Only model-checked.** All liveness (`EveryRequestAnswered`,
`ComesUpUnlessBlocked`, `LoadingEnds`, `SignsIn`), which is out of reach of the
proof system. Every invariant and every safety property of steps that a passing
run checks is a theorem, and so is the refinement.

## 5. Plan

Done: `Workflow`, `RecordService` with its ledger, all its safety properties and
the refinement proved; `RateLimiter` proved; `Startup` proved; `Workbench` with
creations, proved; `Session` proved; the readers of records and of the audit log,
proved.

What could follow, in this order:

1. `RecordPages` and `AuditTrail` over `RecordService` itself in place of their
   own small writers.
2. `Session` and `Workbench` composed: requests of an open dialog that are sent
   with the role another tab stored. The two are joined today by `role`, which
   is constant while a page is mounted: what a second tab does to an open dialog
   is not in `Workbench`.

## 6. Not modelled

- The overview's four counts and `StatusCounts`: reads without a rule that
  relates them. Health, session and runtime information: reports of one value.
- Password hashes, the signature of tokens and the shape of the header: a token
  is its claims, and the page always sends the right password.
- `logout` of the client: nothing calls it.
- The dialog with a record's details and the audit page: they show an answer
  and keep nothing that is sent back.
- The bounds of a summary's window and a history's limit (`dto/common.go`):
  one value of each is taken.
- Request ids, panic recovery, logging, headers: a request is its own id here.
- Configuration parsing: done once before the server starts; its values are the
  constants of the models.
- Malformed input and bad ids (400): they reach no service.
- Formatting, layout, containers, proxy and scripts.
