# Verification of service-template-go

TLA+ specifications of the service, the TLC configurations that check them on
small instances and proofs that TLAPS checks for every instance. The source in
`src/` is the reference: every definition names the code it stands for in
`PROJECT.json`, under `map`.

## The system

`server serve` is one process: an HTTP server in front of PostgreSQL. It offers
create, get, update, delete and list on users, and the same on the accounts a
user owns. A request passes

    otelhttp > Recovery > RequestID > Logger > OpenAPI validator > mux
      > handler > domain service > repository > pgx pool > PostgreSQL

and everything from the handler on runs in the goroutine of the request. The
process keeps no state between requests except the pool. State is in two
tables, `users` and `accounts`, and in the cursors clients carry from one list
request to the next. So the interesting concurrency is between statements of
different requests, and between the requests of one walk through a list.

### Inventory

| component | state | operations | what is hard | what makes it correct |
|---|---|---|---|---|
| keyset pagination (`handler/response.go`, `List`, `ListByUserID`, `paginateUsers`, `paginateAccounts`) | none of its own; the client's cursor is a row id | list a page, follow `next` or `prev` | every page is a snapshot of its own; ids commit out of order; the row of a cursor may be gone; over-fetch, reverse, trim | nothing skipped, nothing twice, exact windows, usable links |
| users (`handler/user.go`, `domain/user`, `user_repository.go`) | table `users` | create, get, update, delete | overlapping statements on one e-mail; cancelled requests whose statement commits later; partial updates | unique e-mails, atomic effect of each request, no lost patch |
| accounts (`handler/account.go`, `domain/account`, `account_repository.go`) | table `accounts` | create, get, update, delete | creation against deletion of the user; cascade | no account without its user, deleted is final |
| error mapping (`mapError`, `mapDomainError`) | none | error to domain error to status | what a status lets the client conclude | the status tells what happened, only 500 leaves it open |
| schema (`migrations/`, `postgres/migrations.go`) | two tables, a version | up, down | crash between a step and its record; two migrators | constraints hold; version equals schema |
| OpenAPI validator (`http/openapi`) | the parsed document | check a request | differs from the checks of handler and domain | nothing unchecked reaches the database |
| router and middleware (`http/router.go`, `http/middleware`) | headers and status of the answer, the request's id | wrap a request | panics, headers already written, contexts and writers of different depth | one answer and one record per request, which agree |
| start-up (`app.New`, `telemetry.Setup`) | resources taken so far | build everything | failure after some resources were taken | a failed step is reported and gives back what it says it does |
| life cycle (`app.Run`, `gracefulShutdown`, `serveCmd`) | server, pool, providers | serve, drain, close | signal against failing listener; drain timeout; `pool.Close` waits | drained before closed; ends |
| pool (`postgres.NewPool`, pool metrics) | connections | acquire, release, close | exhaustion | bounded, returned, whoever waits is served |
| health (`handler/health.go`), query tracer (`postgres/otel.go`) | the span of a call | probe, record | a pool that is used up | the liveness probe answers all the same; every call is recorded |
| configuration (`config`, `cmd/server/main.go`) | none | resolve settings for `serve` and `migrate` | two ways to the same setting; 64 bits narrowed to 32 | both use one database; the pool is what was asked for |
| telemetry, logging, JSON:API types | little or none | | | |

## Modules

| module | contents |
|---|---|
| `Paging` | pagination as operators: the checks of a query (`SpecRejects`, `parsePageRejects`), `clamp`, the SQL (`Selected`, `Precedes`, `Fetched`), the page (`paginate`) and the query of a link (`paginationURL`) |
| `PageWalk` | the accounts table with its sequence, inserts that commit late or never, deletes and the cascade, and a client that opens pages and follows links |
| `PageWalkProofs` | the theorems about `PageWalk` |
| `Api` | the eight requests on single users and accounts and what is refused before any SQL is sent |
| `Service` | these requests in flight: send, one SQL statement at its commit, failure, cancellation, and the answer some time after it |
| `ServiceHistory` | `Service` with what clients have asked for and have been told |
| `Directory` | the abstract specification: every request acts in one step |
| `ServiceProofs` | the invariant of `Service` and what follows from it; that it implements `Directory`; the theorems about `ServiceHistory` |
| `Lifecycle` | `server serve` from its first resource to its exit: `telemetry.Setup`, `app.New`, `Run`, `gracefulShutdown`, with the server, the pool and the gauges |
| `LifecycleProofs` | the theorems about `Lifecycle` |
| `RowLocks` | the statements as PostgreSQL runs them: implicit transactions, row and key locks, index entries, cascades, deadlocks, and `updated_at` |
| `RowLocksProofs` | the theorems about `RowLocks` |
| `Migrations` | `migrate up` and `migrate down` by several processes that may die |
| `MigrationsProofs` | the theorems about `Migrations` |
| `RequestPipeline` | one request through middleware, validator, mux and handler, and back |
| `RequestPipelineProofs` | the theorems about `RequestPipeline` |
| `PoolQueue` | the requests that share the pool, by the way they use it, and the tracer |
| `PoolQueueProofs` | the theorems about `PoolQueue` |
| `Config` | environment, `.env`, defaults and flags of `serve` and `migrate` |
| `ConfigProofs` | the theorems about `Config` |
| `MCPageWalk`, `MCService`, `MCServiceHistory`, `MCLifecycle`, `MCRowLocks`, `MCMigrations`, `MCRequestPipeline`, `MCPoolQueue`, `MCConfig` | instances for TLC |

`PageWalk` extends `Paging`; `Service` and `Directory` extend `Api`, and
`Service` instantiates `Directory`. `RowLocks` extends `Service` and implements
it, so that the chain is `RowLocks` (locks), `Service` (statements), `Directory`
(requests). The others stand alone: what a request does to the tables, how it
gets its answer out and when the process may be taken down meet only in the
pool. `Config` ends where `Lifecycle` and `Migrations` begin.

### `Paging` and `PageWalk`

A row is its `BIGSERIAL` id, the only column paging looks at. The SQL is stated
by what it may return (`Fetched`: sorted, selected, cut at `LIMIT`), while
`paginate` follows `paginateUsers` and `paginateAccounts`, which are the same
code for two types. The two Go branches (`Before` set or not) share one
definition: `more` is the over-fetched row, and each link is given under the
condition of its branch. `GET /users` has no `user_id` filter; it is the case of
a single owner. Query parameters are numbers, or
`Malformed` for text that does not decode, or `Absent`. An empty `page[size]`
counts as `Malformed`: the validator refuses it before `parsePage` would read
it as absent.

`PageWalk` splits an insert: `BeginInsert` draws the id, `CommitInsert` makes
the row visible, `AbortInsert` leaves a gap. Each `ListByUser` is one step,
since the statement reads one snapshot and nothing else of the request touches
shared state. `dir`, `seen` and `stable` are history: the direction of the
client's current run of requests, what the run has returned, and what was there
to be returned at its start and has been since.

### `Api`, `Service`, `Directory`

The checks before the SQL are stateless and run in the request's goroutine, so
`Api` gives them as predicates on a request: `BadRequest` (validator and
handler, 400), `Unprocessable` (domain service, 422). `Service` then has one
step for the statement to be sent (`Send`), one for it to take effect
(`InsertUser` ... `EraseAccount`) and one for the answer (`Respond`). Every
repository method is one SQL statement outside any transaction block, hence a
transaction of its own; PostgreSQL makes it atomic, with the unique index and the
foreign key checked at that point. What a statement has found is the answer its
goroutine is about to give (`Reply`), and other statements may commit, and other
answers be given, before it does: answers come in any order. A request whose
context ends, or whose connection breaks, will be answered 500 by `Abandon`; the
backend keeps the statement with nobody to report to, and may yet commit it or
fail. Since that answer is given later too, the same step stands for a result
that is lost after its commit. `Fail` is a statement that did not commit.

Ids of created rows are part of the request in the model and drawn by
`uuid.New` in the code; `Fresh` makes them new. Clients name ids of rows there
are or were, a stranger's, or text that is no uuid.

`ServiceHistory` keeps what was promised: creations that were acknowledged
(`created`), ids a DELETE was sent for (`doomed`), ids an answer of 204 or 404 has
told to be gone (`missing`), and the requests that name one of those and came
after that answer (`late`). Only they are bound by it. A `GET` that read its row
before a `DELETE` committed may answer 200 after the 204, and the 404 of a
`DELETE` that came second may be given before the 204 of the one that came first.

`Directory` promises that each request acts in one step between its call and its
answer (linearizability), and that only 500 leaves open whether it has acted,
will act or never acts. `Service` implements it under the mapping `Dir` of
`Service.tla`: tables to sets of records, abandoned statements to `limbo`.

### `Lifecycle`

`pc` is the main goroutine, with a label for each call that can fail or wait:
`StartProvider` and `ExporterFails` for each of the three providers, `NewPool`,
`RegisterPoolMetrics`, `NewValidator`, `Listen`, the `select` of `Run`
(`OnSignal`, `OnServeEnd`), `Drained` or `ShutdownFails` for the return of
`server.Shutdown` (its deadline, or an error of closing the listener, which it
gives only when no connection is left), `Deregister`, the two halves of `pool.Close` (it refuses new
connections, then waits for those in use) and `Flush`. `cause` is the error the
process ends with, `ok` for an exit status of 0. Beside it run `Serve` (the
goroutine that feeds `errCh`), the signal, the deadline of the shutdown context,
the metric reader in the gauges' callback and, per connection of a client, the
goroutine of `net/http`: idle, waiting for a connection of the pool (`Acquire`
ends it, or `GiveUp`), at a statement (`Finish`), answering. An endpoint for telemetry is configured or not.

`net/http`, `pgxpool` and the metric SDK are outside the repository and are
modelled by what their documentation promises to this code: `Shutdown` stops
accepting, closes idle connections and returns without an error only when none
is left; an acquire waits until a connection is free, the pool closes or its
context ends; `Unregister` waits for a collection that is under way. A request
uses one connection at a time, as every repository method does.

Fairness is weak fairness of what the runtime schedules: the main goroutine,
`Serve`, the end of a callback that only reads counters. `Deregister` competes with the metric reader for a `sync.Mutex`,
which hands itself to a goroutine that waits too long, hence strong fairness.
Nothing is asked of clients, handlers or statements: they may hang for ever.
What else a property needs it names itself as its premise: `SignalEnds` that
timers run (`Timers`), and `DrainCompletes`, which asks nothing of the deadline,
`Patience`: statements end, answers are taken, idle connections are closed, and
connections of the pool are handed out in the order they were asked for. The last
two are strong, because a client may send on one again and again, and because a
connection of the pool may come and go. Nobody is asked to give up: whoever
waits for a connection is served.

An exit of 0 does not say that `Serve` has not failed. When its error and the
signal are there together, `select` may take the signal, and nobody reads `errCh`
any more. `CleanExit` says what 0 does mean, that the shutdown was complete.

### `RowLocks`

A statement of `Service` is one step; PostgreSQL takes several. `Begin` starts
the implicit transaction and takes `NOW()`. `LockUser` and `LockAccount` wait
for the row of an `UPDATE` or `DELETE` and read it again. `ShareKey` is the
foreign key of a new account, which shares the key of its user: with a patch of
the name it gets along, with a delete or a change of the address, a column of a
unique index, it does not. `EnterIndex` makes the entry of an `INSERT` or of an
`UPDATE` that changes the address, and waits where an entry is not committed or
its owner may be about to give it up. `Cascade` waits for the accounts of a user
that goes; `CommitUser`, `CommitErase` and `CommitAccount` show everything.
`Blocks` derives who waits for whom from the steps the statements are at,
without lock tables. A circle of waits is a `Deadlock`, which `mapError` does
not know, hence a 500. Two patches that swap the addresses of two users get
there. `updated_at` is the column, of users only, `floor` is history: what
`updated_at` of its row was when a request was sent.

`LFairness`: statements go on, weakly; a lock is handed out in the order it was
asked for, so who can have it again and again gets it, strongly.

### `Migrations`

`pc` follows one process of `migrate up` or `down` through golang-migrate: open
(which makes the table of versions under the lock and may wait for it), take the
advisory lock, read the version, and for each file mark its target dirty, run
it, mark it clean. The library and PostgreSQL are external and modelled by what
their sources say to this code. `Break` is a process that dies or loses its
connection at any step, with or without the effect of the statement it was at.
The two files are modelled by when they run through and what they leave.

`Fairness`: processes go on; both ways of taking the lock compete, hence strong
fairness for them. Nobody is asked to die.

### `RequestPipeline`

`at` is where the one goroutine of the request is on its way down and back.
Handlers are abstracted to the statuses they may answer (`Statuses`), since what
they do is in `Service`; the modelled state is what the layers share by
reference: the headers set, the answer sent, the status the logger's writer has
seen, the id in the context. `Sent` is `net/http`: what comes after the first
header is lost. The mux answers some requests itself: 404 and 405 as text, and
what is not a clean path (`//users`) by a redirect that has a page of HTML for a
`GET` and neither body nor type for others. A `HEAD` is routed like a `GET` and has
no body. A panic can come from any layer below `Recovery`, which has the
writer and the context from above `RequestID` and `Logger`.

### `PoolQueue`

Requests by how they use the pool: not at all (`Live`), one ping, one statement,
or a statement whose rows are read while the connection is held (`List`).
`queue` and `holders` are pgxpool's. Who gives up leaves the queue from where it
stands. A dial may fail, a statement may fail or
have its rows left in the middle, and a client may go while its request waits.
`Fairness` asks handlers to return and nothing of the database; `WaitersServed`
has as its premise (`StatementsEnd`) that dials and statements end as well.

### `Config`

One setting stands for the strings, which have flags, and one for the numbers,
which are narrowed; `Half` is half the width of the narrow integers. `serve` and
`migrate` run side by side with the same environment and flags, and both take
their URL by code of their own (`ApplyFlags`, `resolveDBURL`). A value may be
unset, empty, or not a number, in the environment as in `.env`.

## Runs

| run | question | instance and why it is enough |
|---|---|---|
| `page` | does a walk see everything that stays, and nothing twice? is every page the right window with exact, accepted links that lead back, for every query? does the inductive invariant hold? | 2 owners, 4 ids, default size 1, domain maximum 2, document maximum 3, sizes and cursors absent, out of range and good: the clamp in force, pages shorter than, equal to and longer than the rows, walks of several pages both ways with rows coming and going before, behind and at the cursor |
| `page_links_null` | are the links null exactly on the last and the first page, as `api/openapi.yaml:370` and `:374` say? | 3 ids; violated |
| `service` | do types, unique addresses and the foreign key hold, and is every request one atomic step of the directory? | 2 users, 1 account, 1 address and the empty one, 2 names, 2 requests in flight, 2 backends: takeovers of an address, patches of different fields of one user at a time, a cascade, a delete and a create that overlap, an abandoned statement that meets one of another request; 311,124 states |
| `service_history` | what do answers of 201, 204 and 404 let a client conclude? | 2 users with 2 addresses, 1 account, creates and deletes of both and reads of the account: answers in another order than their commits, deletes that race with each other, with reads and with creates of accounts; 867,996 states |
| `lifecycle` | does an exit of 0 mean an orderly end, is the pool closed after the last request and the gauges before it, does a signal always end the process, and does a drain serve everybody and end when statements end? | 2 clients and 1 connection: one request has the connection and hangs while another waits for it; every failure of the start |
| `lifecycle_setup` | does a failed telemetry set-up shut down what it has started, as `telemetry.go:56` says? | violated |
| `row_locks` | are statements that lock, wait and are cancelled as good as the single steps of `Service`? when may `updated_at` go backwards? | 1 user with 2 addresses and 2 names, 1 account, 2 statements at a time, 2 times: creates, patches and deletes of the account against patches and the delete of its user, patches of the address against patches of the name, and a patch that begins before and commits after another |
| `row_locks_end` | the same for users, and does every statement end? | 2 users, 2 addresses, 2 statements: enough for one to take what the other gives up, and for a circle |
| `migrations` | what do the recorded version and a reported success say, with crashes everywhere? does the inductive invariant hold, and does every command end? | 2 processes, each command after command: one dies or holds the lock, one waits; what is proved is proved for any number |
| `request_pipeline` | one answer, one record, and do they agree, whatever panics? | every kind of request, `HEAD` and unclean paths included, with and without an id of its own; one request is all there is, since requests share nothing here |
| `pool_queue` | does anybody wait for a free connection, is any lost, is whoever waits served, and does the liveness probe answer when the database does not? | 4 requests, 2 connections: both in use, two wait, one gives up |
| `config` | is the pool what was asked for, and do both commands use one database? | 4-bit integers for 32 bits, numbers from below the least to several times the largest narrow integer, all combinations of two URLs, empty and unset |

Only `service`, `service_history` and `row_locks` use symmetry, the first two
of ids, addresses, slots and backends, the third of slots and backends only: no
definition orders the members of these sets and none of the requests of the
instance names one. Their properties are safety properties, so it is sound.

Bounds: `Midnight` (the clock), `FewAnswers` (in `service` and `row_locks`, at
most one answer that is yet to be given: beside a second one only abandoned
statements could still go on; `service_history`, whose properties are about the
order of answers, has no such bound), `Migrator` (processes that migrate),
`Request` (requests that use the pool at a time), `Number` (what a number may
spell), `MaxId` (ids of the sequence), `OpenSizes` and
`OpenCursors` (first requests), `Slot` (requests in flight), `Backend`
(statements at work), `Inputs` (requests clients make; each instance has its own selection, since all
requests over all ids are too many), `UserId` and `AccountId`, since a uuid is
used once, `Conn` (connections of clients) and `MaxConns` (of the pool). No run turns deadlock checking off.

### Properties

- `NothingSkipped`, `NoRepeats`: a walk in one direction, whatever happens
  between its pages.
- `OnwardLinkExact`, `PageIsWindow`: one page against its snapshot.
- `LinksAccepted`, `RoundTrip`: a link against the request it becomes. The two
  caps of the page size differ in the instance only; both are 100 in the program.
- `Integrity`: the unique index and the foreign key across overlapping
  statements, including those nobody waits for any more.
- `CreatedStays`, `GoneIsFinal`: what an answer of 201, 204 or 404 lets the
  client conclude about the rows, and about requests that come after it.
- `ImplementsDirectory`: all answers and effects at once.
- `CleanExit`: the exit status against signal, requests, gauges, pool and
  providers, for an `errCh` that is closed in the middle of a shutdown as well.
- `PoolOutlivesRequests`, `GaugesSeeOpenPool`: the order of the shutdown against
  goroutines that are still at work.
- `SignalEnds`: a signal ends the process although requests may hang and
  `pool.Close` waits without a limit.
- `DrainCompletes`: with statements that end, everybody who waits for a connection
  is served and the drain ends; only a deadline cuts a request off.
- `StatementsAreAtomic`: `RowLocks` implements `Service`, so everything the
  `service` runs show of statements in one step holds of statements that lock.
- `StatementsEnd`: whoever waits for whom.
- `UpdatedAtAdvances`: the start of a transaction, which is its `NOW()`, against
  the order of commits; they may disagree for patches that overlap, and only for
  those.
- `CleanMeansWhole`, `DirtyIsNear`, `DirtySticks`: the recorded version against
  the schema, with processes that die at any statement.
- `SuccessTellsTruth`, `CommandsEnd`: a command's result against the database;
  it comes to one.
- `RecordTellsStatus`, `LeavesOneRecord`, `PanicHidden`, `AnswerHasId`,
  `RecordsNamed`: the answer, its documents and its id against the records, for
  panics before and after the header.
- `NobodyWaitsIdle`, `HoldsNothing`, `WaitersServed`, `LiveAnswers`: the pool
  under requests that come, fail and give up. `NobodyWaitsIdle` is mostly about
  pgxpool's queue as it is modelled here; the other three rest on it.
- `PoolAsAsked`, `SameDatabase`: the settings in use against what the operator
  has set, wherever.
- `WalkInv`, `ServiceInv`, `ShutdownOrder`, `MigrationInv`: the inductive
  invariants of the proofs.

## What the checks found

1. `next` and `prev` are not null exactly on the last and the first page
   (`page_links_null`). The link against the direction of travel is given without
   looking whether a row is there, and an empty page has no link at all.
2. `telemetry.Setup` leaves the log and metric providers running when the trace
   exporter cannot be made (`lifecycle_setup`).

Seen on the way, without a run that shows them violated:

- A `PATCH` can store an empty e-mail address, which a create refuses: the
  domain service checks only creates, and the validator knows no format `email`.
- The record of a recovered panic, and of a failure to answer it, does not carry
  the id of its request: `Recovery` stands outside `RequestID`. `RecordsNamed`
  says that these are the only ones.
- A database call that never gets a connection leaves neither span nor metric,
  although `otel.go:32` speaks of every call: pgx calls the tracer on a
  connection. `HoldsNothing` allows that.
- An error of `Serve` that is there together with the signal may be dropped, and
  the process exits with 0 (`app.go:103`).

## Proofs

`PageWalkProofs` proves, for every page size, every default and maximum, every
set of owners, every bound on ids and every set of first queries:

- `TypeCorrect`, `WalkComplete` (`NothingSkipped`), `LinksAlwaysAccepted`,
  all from `WalkInvariant`;
- `WalkNoRepeats`, `OnwardLink`, `PageWindow`, action properties that follow
  from the same invariant;
- `RoundTrips` (`RoundTrip`);
- `WalkAdvances`: each link onwards lies beyond the one before. It is what can be
  said without fairness of a walk coming to its end, and no run checks it.

The assumptions are `PageSizeAssumption` (a positive default no larger than the
domain's maximum), `RawAssumption` (the two markers are no integers) and
`WalkAssumption` (the listed user is an owner, the sets are sets of
parameters).

`NothingSkipped` is not inductive: it speaks of a walk only at its end. The
invariant `WalkInv` adds what holds on the way. `Owed`: every row of `stable`
has been returned or lies beyond the onward link. `Behind`: no returned row
lies beyond it. `StillListed`: stable rows are in the table. `LinkedAccepted`:
a page with links answers an accepted query. The argument has two parts. The
lemmas `ForwardSound` and `BackwardSound` say of `paginate`, for any set of ids
and any rows the SQL may return, that the page is a window of the selection and
its onward link is its last (first) row exactly when more is behind it;
`PaginateSound` and `PagesSound` combine them. Then each step keeps `WalkInv`:
`TableStep` for inserts and deletes, which can only shrink `stable`, and
`StartStep`, `ContinueStep` and `ServeStep` for requests, where the onward link
of the old page is the cursor of the new query, so that what was owed is
selected.

`RoundTrip` follows from the page alone, since it asks what a table that stands
still answers: `WalkInv` only says that the query was accepted. A page is a
window of what its statement selects (`IsWindow`): ascending, no longer than the
page size, and of that size if it leaves anything out, and what it leaves out
comes behind it in the order of travel. Of a set of ids there is only one window
of a size and an order (`SameWindow`). Two windows are nested, the smaller is
full (`Within`), and ascending sequences of the same items are the same
(`SameSequence`, by counting: `Counted`). It remains that both pages are windows
of one set. `BackFromNext` and `BackFromPrev` say that the query on the way back
selects the rows up to (from) the cursor onwards, whatever page was between.
`WindowFromEnd` and `WindowFromStart` say that the page the client left is a
window of these too, seen from its other end: there was a link onwards, so it
was full, or else all that it leaves out is behind it.

`ServiceProofs` proves `ServiceInvariant`, and from it `ServiceTypes` (`TypeOK`)
and `TablesWhole` (`Integrity`), for any sets of users, accounts, addresses,
clients and backends and any requests among them. The assumptions are
`NoneAssumption` and `SlotAssumption` (`None` is no row, request or client).
`Integrity` alone says nothing of statements that have not acted yet, nor that a
row of the table comes from a request; `ServiceInv` adds `TypeOK`, `Attached`
(every statement at work was let through, and what waits for it waits for this
one only, and with the same request),
`NoStrangers` (a stranger's id is never in a table) and `Drawn` (ids of rows have
been drawn, those of inserts at work have not, each belongs to one). Each
statement has a lemma
of its own; the interesting ones are `InsertUser` and `PatchUser`, where `Taken`
at the commit keeps addresses unique, and `EraseUser`, where the cascade keeps
every account with its user.

Its second part proves `ServiceImplements` (`ImplementsDirectory`), from
`ServiceInv` and one assumption more, `AbsentAssumption` (an absent attribute is
no address). The directory is what the tables show: `User` and `Account` of
each row; in limbo are the statements nobody waits for. The lemmas `PutUser` ...
`DropHoldings` say what a change of one row makes of the directory, and for
each statement a lemma (`InsertUserActs` ... `EraseAccountActs`) says that rows
and reply are the outcome of its request (`Acts`). `Drawn` is needed for the
inserts, which would otherwise replace a row. Then `ActsInDirectory` maps a
statement somebody waits for to `Perform`, any other to `Settle`;
`FailInDirectory`, `AbandonInDirectory`, `ReceiveInDirectory` and
`RespondInDirectory` map the rest to `GiveUp`, `Settle`, `Refuse`, `Invoke` and
`Respond`.

Its third part proves `CreationsLast` (`CreatedStays`) and `GoneStaysGone`
(`GoneIsFinal`), with `KeyAssumption` (no id is both a user's and an account's,
the two wrong ids are neither's). An answer is decided at the commit and given
later, so neither is inductive for the answers given alone: `HistoryInv` says what
it says of those about to be given as well (`Acks` and `Known`, with
`created` and `missing` in them). `Created`: an account that was created, while it
is there, has the owner it was created for. `Stays` is `CreatedStays` for `Acks`.
`Deleting`: a DELETE at work, even one nobody waits for, was sent for its id.
`Gone`: what is known to be gone was drawn and is in no table. `Named` and `Late`:
a request names ids that were drawn or wrong ones, and one that came late still
names what it came too late for. So a statement of a late request finds nothing,
and the answer it leaves is none that `GoneIsFinal` forbids (`LateKept`).
`StatementRows` bounds what a statement does to rows, `StatementTruthful` ties its
answer to them, `SlotSteps` says what a step does to one slot.

`RowLocksProofs` proves `LocksInvariant`, and from it `LocksImplement`
(`StatementsAreAtomic`, the refinement of `Service`), `TablesWholeUnderLocks`
(`Integrity`), `LocksImplementDirectory` (`ImplementsDirectory`, by both
refinements) and `UpdatedAtOrdered` (`UpdatedAtAdvances`), for any sets of
users, accounts, backends and requests and from the assumptions of `Service`. A
statement decides under its locks and commits later; the refinement takes its
commit for the step of `Service`, so what it has decided on must still be so
then. `LockInv` adds to `ServiceInv` that it is: `StepTyped` (which statements
get where), `Held` (rows and keys that are locked are there, the
address about to be entered has no other owner) and `Exclusive` (no two
statements hold what excludes each other). Taking a lock establishes its part
from an empty `Waits` (`LockUserKeeps` ... `EnterIndexKeeps`, over
`AdvanceKeeps`), the commit of one statement leaves the parts of the others
alone because of `Exclusive` (`CommitUserKeeps`, `CommitEraseKeeps`,
`CommitAccountKeeps`, over `OthersKeep`), and `LockStep` and the three
`Commit...Step` lemmas map each step. Deadlocks are any cancelled statement to
that proof. `CirclesRotateAddresses` says who they can be: in a set of statements
that each wait for one of the set and keep one of it waiting, all are patches
of users, and each wants the address that the user of another has. So no
creation, no delete and no request on an account is answered 500 for a
deadlock. Who is waited for is past its row, and who waits has not decided yet
(`WaitFacts`); a delete at its cascade waits for commits only. It is stated of
sets, since the circle of `Deadlock` is a transitive closure, which is a
recursive function: a statement that waits for itself by way of others is in
such a set.

`LifecycleProofs` proves `OrderInvariant`, and from it `ExitTellsTruth`
(`CleanExit`), `PoolClosesLast` (`PoolOutlivesRequests`), `GaugesGoFirst`
(`GaugesSeeOpenPool`) and `LifecycleTypes`, for any finite set of client
connections and any size of the pool (`ConnAssumption`). None of the three is
inductive: they hold because of what happened many steps before. `ShutdownOrder`
ties each point of the main goroutine to what may be at work: no server before
`select`, draining only after a signal, no connection after `drain`, an open
pool up to the deregistration, gauges only with an open pool. Its run checks
`TypeOK` as one of its conjuncts.

`MigrationsProofs` proves `MigrationsInvariant`, and from it `CleanWhole`
(`CleanMeansWhole`), `DirtyNear` (`DirtyIsNear`), `DirtyStuck` (`DirtySticks`)
and `SuccessTrue` (`SuccessTellsTruth`), for any set of processes
(`NoOneAssumption`). `CleanMeansWhole` says nothing of a dirty version, through
which every change of the schema goes; `MigrationInv` adds `Owned` (the lock and
the steps under it belong to one process) and `Progress` (what the process at
each step has found and done to version and schema). Each step then only has to
be matched against the one process that holds the lock.

`ConfigProofs` proves `PoolIsAsAsked` (`PoolAsAsked`) and `SameDatabaseServed`
(`SameDatabase`) for integers of every width, any numbers and any URLs. The
invariant `ConfigInv` says what each step has found (`Resolution`); the
arithmetic of the narrowing is the lemma `NarrowFacts`.

`RequestPipelineProofs` proves `PipelineInvariant`, and from it
`RecordsTellStatus` (`RecordTellsStatus`), `OneRecordLeft` (`LeavesOneRecord`),
`PanicsHidden` (`PanicHidden`), `AnswersHaveId` (`AnswerHasId`) and
`RecordsAreNamed` (`RecordsNamed`), without an assumption. TLC checks them for the
paths there are; the theorems show why they hold. Most of them speak of the end of a
request only, or of records that are not there yet. `PipelineInv` adds, besides
types (`Typed`), what is so at each point of the way: nothing is written before
the handler (`Begun`), an answer has the id there is in the context (`Answered`),
without one nothing but the answer to a panic is left to do (`Unidentified`),
until its end a request is only mentioned by errors (`Ongoing`), the logger has
seen what was sent (`Captured`), there is one document or a reason for none when
the handler is done (`BodyTold`), and one record ends the request, after which
there are only errors (`Ended`). That the k-th record is the one that ends it,
rather than that there is one, is what makes `LeavesOneRecord` provable:
`EndFacts` has its two sets of records as one singleton and one empty set.

`PoolQueueProofs` proves `PoolInvariant`, and from it `NobodyWaits`
(`NobodyWaitsIdle`) and `NothingHeld` (`HoldsNothing`), for any number of requests
and connections (`MaxConnsAssumption`). The two together are nearly inductive.
`PoolInv` adds that nobody is twice in the queue, without which whoever is served
or gives up could still be there, and that the holders are finite, without which
they could not be counted. `AppendFacts`, `TailFacts` and `RemoveAtFacts` say what
the three ways into the queue and out of it do to its members; `AcquireKeeps`,
`ReleaseKeeps` and `GiveUpKeeps` use them, and `MoveKeeps` does for the steps
that touch neither queue nor connections. `ReleaseKeeps` is the interesting one: a
connection is handed to the first in the queue, so that it is never free while
somebody waits.

All safety properties and action properties that passing runs check, type
invariants included, are stated by a theorem. Only model-checked is liveness
(`SignalEnds`, `DrainCompletes`, `StatementsEnd`, `CommandsEnd`, `WaitersServed`,
`LiveAnswers`), which rests on fairness and `ENABLED` and is out of the reach of
TLAPS. That the models do not deadlock is left to TLC for the same reason.

## Not modelled

- `balance`, the currency of a stored account: no operation reads them back.
- Wording, encoding and layout of documents, spans, metrics and logs; JSON:API
  types, which hold no state; `version`; the fan-out of a record to two sinks.
- `updated_at` of accounts, and `created_at`, which is written once; the order in
  which PostgreSQL hands out a lock (any waiter may be next, see `LFairness`).
- Reads of lists in `Service`: a list reads one snapshot and is the subject of
  `PageWalk`.
- The two repositories may run against read replicas or another isolation level
  only if somebody configures so; the models assume one primary and the default.
- `serve` on a database whose schema is missing or goes away: every statement
  fails, which is `Fail`; nothing in `serve` looks at the version.
- The race inside `net/http` between a connection found idle and a request that
  arrives on it: `Shutdown` is taken at its documentation's word. So are the
  health checks, life times and the minimum of connections of `pgxpool`.
- A second signal: `stop` is deferred, so it changes nothing before the exit.
- Requests of the method `CONNECT`, and `OPTIONS *`, which `net/http` answers before
  the router.
- Mocks and tests.

## Plan

1. Proofs: what the remaining liveness rests on, as far as it is safety: what a
   drain of `Lifecycle` waits for, and who holds the lock of `Migrations`.
2. Proofs: `CreatedStays` and `GoneIsFinal` of statements that lock, which needs
   the history of `ServiceHistory` beside `RowLocks`.
