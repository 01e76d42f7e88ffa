# TLA+ development for the seven banking services

This directory holds TLA+ modules, TLC configurations and TLAPS proofs about the
banking API that the repository implements seven times: `n-tier`, `hexagonal`,
`onion`, `clean`, `ddd`, `cqrs-es` and `cqrs-es-nestjs`. Paths below are relative
to the root of the repository. `PROJECT.json` is the machine-readable index: which
lines each definition translates, which properties each run checks, which
hazards they are aimed at.

To check it: `tlc -config <X>.cfg <M>.tla` for the runs, `tlapm <M>Proofs.tla` for
the proofs.

## 1. The system

One domain (`PROBLEM.md`): accounts are opened with a balance, a transfer moves an
amount between two of them, a transfer without funds is recorded as FAILED. Every
variant is a stateless NestJS process in front of Postgres (READ COMMITTED, the
default), so what runs concurrently is requests between two `await`s on one event
loop, several such processes, timers, and shutdown hooks.

| Component | State it keeps | Operations | Hard behaviour | What makes it correct |
|---|---|---|---|---|
| Event-sourced command side (`cqrs-es/src/commands`, `domain`, `infrastructure/event-store`) | `events` with UNIQUE (aggregate_id, version), `snapshots` | create account; transfer = load two streams, decide, append to three, project, snapshot | every query is an await; optimistic concurrency; snapshot read and written apart from the append; death between statements | no overdraft, both sides of a transfer or none, snapshots are replays, conflicts only on contention |
| The same in `cqrs-es-nestjs` | the same tables; aggregates with uncommitted events | the same, by way of `AggregateRoot.apply` and `commit` | the object changes before the append, its expected version must not | the same steps on the tables |
| Projections (`projections`) | `account_read_model`, `transfer_read_model` | project one event; rebuild | separate statements after the append, in any order among requests | the lag is exactly the projections still to come; a rebuild restores |
| Queries (`queries`) | none | read the read models, or the stream | read what projections left | answered by the common contract |
| Idempotency interceptor (`infrastructure/idempotency`) | `idempotency_keys` | find, replay, execute, store | overlapping retries, death between execute and store, swallowed errors | replays agree; what is stored never runs again |
| Outbox (`infrastructure/outbox`) | `outbox` | poll, publish, mark | overlapping timers and instances, exit inside a flush | at least once; duplicates only from overlap or exit |
| Locking transfer (`n-tier`, `hexagonal`, `onion`, `clean`, `ddd`) | `accounts`, `transfers` | create account; transfer = check, BEGIN, lock two rows, update two, insert, COMMIT; FAILED row after a rollback | lock waits, also of the FAILED row's foreign keys, deadlock rings, failing statements, death between rollback and record, rounding | no lost update, balances explained by records, every request answered |
| DDD domain events | `domain_events` | saved with the transfer's row | on failure saved by a statement of its own | events and records agree |
| Pool, health, shutdown (`database.ts`/`drizzle.provider.ts`, `health`, `main.ts`, in all seven) | pool, readiness flag | connect, release, hooks on SIGTERM | the pool ends before readiness flips and before HTTP drains | the process ends; late probes fail |
| Configuration and authentication (`config`, `auth`, in all seven) | none | a check at start, a decision per request | three files read the same settings; a bypass outside production | nobody unverified in production; a challenge is a 401 |
| REST layer (controllers, DTOs, filters, throttler, in all seven) | a throttle window per handler | route, guard, validate, handle, map errors to statuses | errors are raised, renamed and caught in different layers of each architecture | one contract for all seven |
| Metrics, tracing, logging | counters | record | reads the status before the filter sets it | observers |

**How they meet.** A request passes the throttler, the JWT guard, the metrics
interceptor (in the event-sourced variants also the idempotency interceptor), the
validation pipe and one handler; what the handler throws goes to the variant's
exception filter. The append commits events and their outbox rows together; the
outbox publisher reads only that table. The handlers call the projectors themselves,
after the append. All of them take connections from one pool per process.

## 2. Modules

| Module | Role |
|---|---|
| `Ledger` | abstract specification of money: open, complete a transfer in one step, decline one found short |
| `EventSourcedBank` | the cqrs-es command side and projections, await by await; the inductive invariant |
| `EventSourcedReadModels` | sums over the streams; read models against streams |
| `EventSourcedLedger` | refinement mapping from the bank to `Ledger` |
| `ReadModelRebuild` | `AccountProjector.rebuild` composed with the running bank |
| `NestEventSourcedBank` | the cqrs-es-nestjs handlers and aggregates, composed with the rebuild, and the mapping to `ReadModelRebuild` |
| `LockingTransfer` | the n-tier transfer, with Postgres row locks, and the statements all five variants issue |
| `HexagonalTransfer`, `OnionTransfer`, `CleanTransfer`, `DddTransfer` | the transfer as each architecture divides it among services, entities, units of work and repositories |
| `LockingVariants` | one of the five in each behaviour |
| `LockingLedger` | refinement mapping to the same `Ledger`; balances against records |
| `Idempotency` | the interceptor |
| `OutboxRelay` | the outbox publisher |
| `GracefulShutdown` | pool, readiness and shutdown hooks of one process |
| `RestPlatform` | configuration, guards, probes, errors: what the seven servers copy from one another |
| `RestServer` | one server process and the way of a request through it; a variant's parts are its parameters |
| `NTierApi`, `HexagonalApi`, `OnionApi`, `CleanApi`, `DddApi`, `CqrsEsApi`, `CqrsEsNestApi` | each variant's controllers, services, repositories and error map, and its instance of `RestServer` |
| `SevenServers` | one of the seven in each behaviour; the contract |
| `TotalsProofs` | facts about the sum of a function, the sum the models take over accounts, transfers and events |
| `EventSourcedBankProofs`, `NestEventSourcedBankProofs`, `LockingLedgerProofs`, `IdempotencyProofs`, `OutboxRelayProofs`, `GracefulShutdownProofs`, `SevenServersProofs` | theorems |
| `MC...` | small instances for TLC |

Operators with a comment "Mutant of X" are plausible bugs in X. They are not part of
any specification; replacing X by one of them makes TLC report a property, which shows
that the property depends on that code.

### EventSourcedBank

State: `log` is the `events` rows of each account by version (its index *is* the
version), `transferLog` the last event of each transfer's own stream, `snap` the
`snapshots` table (a missing row is `Empty`, as `loadSnapshot`'s null leads to
`Account.reconstitute([])`), `listed`/`shown`/`transferRow` the two read models,
`pc`/`req`/`held` the handler of each request: where it is, its body, its local
variables. The `balance` field of an event is a history variable: the value a
replay arrives at. It stands in for the fold of `Account.apply`, which keeps the
module free of recursion; `LoadedIsSumOfEvents` compares it with the plain sum of the
events.

Each `await` of `InitiateTransferHandler.execute` is an action:

| Action | Code |
|---|---|
| `Receive` | request parsed, amount checked |
| `LoadSourceSnapshot`, `LoadSourceEvents`, `LoadDestSnapshot`, `LoadDestEvents` | the two queries of `loadAccount`, for each account; the last one also runs `debit` and chooses the branch |
| `AppendCompleted`, `RejectConflict` | `appendMultiple`: the transaction commits, or a row violates the UNIQUE index (`UniqueViolation`) and the append is lost |
| `AppendFailed`, `ProjectFailed` | the stream and the row of a transfer without funds |
| `ProjectDebit`, `ProjectCredit`, `ProjectCompleted` | three projections, three statements |
| `SnapshotSource`, `SnapshotDest` | `maybeSnapshotAccount`: read the stream, then upsert |
| `OpenAccount`, `ListAccount` | `CreateAccountHandler`: append, then project |
| `Abort`, `AbortOpening` | the process dies or a query fails between two awaits |

`appendMultiple` is one step: its INSERT is checked against the UNIQUE index under the
lock Postgres takes on index entries, and the transaction does nothing else that
another request sees in part. Two transfers in opposite directions can wait for one
another on that index; Postgres then cancels one of them (40P01), which is a query that
fails: `Abort`.

`Known` restricts requests to ids a client can have seen, or that belong to no account.
Account ids are drawn at random and reach clients in an answer or from the list.

### ReadModelRebuild and NestEventSourcedBank

`ReadModelRebuild` adds three variables to the bank and the steps of `rebuild`: DELETE, SELECT,
and one statement per event in version order (ties between accounts in any order).
`ListConflict` is the primary-key violation a handler meets when the rebuild has already
inserted its row, which cannot happen without a rebuild. No route calls `rebuild`; tests
do, and the README of cqrs-es promises it.

`NestEventSourcedBank` runs either variant on the same tables. Its own state is `local`,
what a handler of cqrs-es-nestjs holds: the aggregates *with* the events they have
raised, and the versions noted before `debit` and `credit`. `Event`, `On`, `ApplyNew` are
`AggregateRoot.apply` and its `on...` handlers; `LoadFromHistory` the fold of them;
`BuildEventRows`, `Violates`, `InsertEvents` the store. `Held` takes the raised events off
again (`AsLoaded`), and under that mapping every step is one of `ReadModelRebuild`.

### LockingTransfer and its variants

State: `open`/`balance` the `accounts` table as committed, `holder` the row locks that
`SELECT .. FOR UPDATE` takes (`Lock`), `record` the status of `transfers`, and per request the rows
read under lock and the updates not committed yet. `Rollback` and `RecordFailed` are separate: the
FAILED row is inserted in the catch block, after the transaction, on a client of its own.

That INSERT is not free of locks. `transfers` references `accounts` twice
(`n-tier/src/database/schema.ts:12` and `:15`, `migrations/0001_ambiguous_microbe.sql:10`, and the schemas
of the other four), and Postgres checks a reference by locking the row it names FOR KEY SHARE,
which waits for a FOR UPDATE of another transaction and makes one wait. So `InsertTransfer` is two
steps: the source's key, then the destination's (the order of the two constraints), with which the
statement has all it needs and commits. In between, at stage `shareDest`, the request is one of the
`Sharers` of its source, and `Lock` waits for it. The COMPLETED row is inserted by a transaction
that has both rows FOR UPDATE already, so its references take nothing new.

`Wanted` and `WaitsFor` are Postgres' wait graph over both kinds of lock. `Deadlocked` is exact: a
request is deadlocked if it is in every set that holds those it waits for and those its members wait
for, that is, if it waits for itself along some path. `BreakDeadlock` cancels the statement of one of
them (40P01). `StatementFails` is any other failure while the process lives, at any statement, those of
the FAILED row included: `statement_timeout`, no client of the pool within `connectionTimeoutMillis`, a
lost connection. Both answer 500 and leave what is committed. `Abort` is the death of the process.

Three simplifications: the transaction of a dead process is rolled back at once, where Postgres
takes until it notices; a COMMIT whose answer is lost counts as the completed request it is in the
tables; and a waiter may be overtaken by one that came later, which Postgres' tuple locks prevent for
some of them.

The unit of money is half a cent. `Rounded` and `Column` say what `numeric(15,2)` and
`toFixed(2)` make of a computed balance: a whole number of cents stays, half a cent goes to
one neighbour or the other, since the double is a little above or below it.

The other four variants issue the same statements (`SelectAccount`, `SelectSource`,
`SelectDest`, `SetBalance`, `InsertAndCommit`, `RollBack`, `InsertTransfer`) from other places:
hexagonal and onion by `TransferService` through the unit-of-work port, onion with the
decision and both balances in a pure domain service (`DomainExecuteTransfer`), clean with
entities that debit and credit themselves (`MayDebit`, `Debited`, `Credited`), ddd with `Money`
and aggregates whose domain events are saved in the transaction (`SaveTransfer`) or, for a
failed transfer, by a second statement outside it (`SaveFailed`, `SaveEvents`).

### Idempotency

A key stands for (key, endpoint), a body for its hash, a response for the attempt whose
handler produced it. `Execute` is the moment the handler's events commit; `FailAfterCommit`
is a handler that commits and then throws in a projection or a snapshot, so that the
client sees an error and nothing is stored; `PersistResponse` is `ON CONFLICT DO NOTHING`, with
its error swallowed. `cached` and `exposed` are histories used only by properties. The
interceptor, like the outbox publisher, is the same file in both event-sourced variants.

### OutboxRelay

A flush of an instance selects unpublished rows (`Select`), and for each of them logs
(`Publish`) and updates (`Mark`). `Select` starts at any time when the slot is free and
does not look at other flushes, as `setInterval` does not. A failing query rejects a
promise that nobody awaits; `main.ts` turns it into `process.exit(1)`: `Exit`. `Restart` is
the orchestrator (external).

### GracefulShutdown

`Sigterm` starts Nest's hooks in Nest's order, of which `pool.end()` is the first
(`Sigterm`, `PoolEnded`), the readiness flag the second (`SetFlag`), and closing the HTTP server
the last (`CloseServer`, `ExitProcess`). The pool's behaviour (`Connect`, `Serve`, `Release`) is
pg-pool's and external: `connect` is rejected once the pool is ending, and its pending
queue is no longer served, so a queued request leaves by `connectionTimeoutMillis`.

### The REST servers

`RestPlatform` defines once what the seven servers have copies of; each `...Api` module
names its own copy (`EnvSchema`, `CanActivate`, `SkipIf`, `Catch`, ...), so that a variant that
departs from the others changes in one place. `RestServer` takes these as parameters:

| Action | Code |
|---|---|
| `Start` | `validateEnv` in `ConfigModule`, then `listen`; a refused environment is an unhandled rejection and the process exits |
| `Arrive` | routing; `/docs` is a middleware outside production, an url without a route is a 404 that meets no guard |
| `Throttle`, `NextWindow` | `ThrottlerGuard`, with a window for each handler and client address (the model has one client), which comes first because `AppModule` registers it before `AuthModule` registers the other |
| `Authenticate` | `JwtAuthGuard.canActivate` and, behind it, passport's strategy, if there is one |
| `ServeOperational` | probes and the scrape |
| `Serve`, `ServeFailing` | validation pipe, controller, handler, filter; one of the handler's statements may fail and leaves what is committed |
| `EndPool`, `RaiseFlag` | what SIGTERM does to every route |

A handler is a function from a request and the tables to the tables after each of its
commits and a status or an error (`Done`, `Throw`, `ThrowAfter`), with its checks in the code's order
(`Checked`). Here the statements of concurrent handlers do not interleave: that is what the
modules above are about. What is modelled per variant is which layer checks what, which
error it raises, by which name the filter knows it, and which table a query reads.
`Count` is the metrics interceptor: it reads the status Nest has set for success, so a failed
request is counted under 200 or 201, and requests refused by a guard are not counted.

## 3. Runs

| Run | Instance | Shows |
|---|---|---|
| `es_safety` | 2 accounts and an unused id, 3 transfers with any of 5 bodies, opening balances -1, 0, 2, a snapshot at every second version, aborts anywhere | all safety properties of the streams, snapshots and read models, and `ImplementsLedger` |
| `es_variants` | 2 accounts, 2 transfers with any of 4 bodies, either variant, snapshots, aborts; the rebuild beside two transfers in one direction | cqrs-es-nestjs implements the protocol of cqrs-es; requests are answered; undisturbed read models catch up or are restored |
| `es_partial_update` | 2 transfers, aborts | `NoPartialUpdate` fails |
| `crud` | 3 accounts; in n-tier 3 transfers round a ring, one of which may be more than any account has; in the other four variants 2 transfers there or back, or back with such an amount, and a third request that is invalid; an opening balance refused, aborts, failing statements; 103,327 states | safety, `ImplementsLedger`, and liveness through deadlocks of two and three, FAILED rows among them |
| `crud_self_transfer` | transfers from an account to itself | `RecordsExplainBalances` fails |
| `crud_sub_cent` | transfers of half a cent | `MoneyIsConserved` fails |
| `idempotency_faults` | 4 attempts, 2 keys or none, 2 bodies, failures | replays and repeats |
| `idempotency_overlap` | 3 attempts, no failures | `AtMostOnce` fails |
| `outbox_flushes` | 3 events, 2 instances with one flush each, batches of 2, 2 exits | nothing lost, duplicates excused, everything published |
| `shutdown_sigterm` | 2 commands of 2 checkouts, 2 probes, 1 client, death anywhere | shutdown and probes |
| `rest_api` | 2 requests at a server of each of the 7 variants, 3 possible accounts, a window of 1, failing statements; production with everything set (25 kinds of first request, 5 of second), development with every reading of issuer and audience, production with something missing | authentication, probes, the contract, what answers promise |
| `conflict_409` | the same for the event-sourced variants | `ConflictsAre409` fails |

**Why the bounds are enough.** Overdraft, lost updates and stale snapshots need two
transfers on one account. The third transfer lets a snapshot be overwritten between two
handlers' reads and lets a transfer succeed while two others conflict. In `es_safety` one unused id covers
404, the amount 0 and the balance -1 cover validation, the balance 0 and the amount 2 cover "short" and
"exactly enough". `SnapshotEvery` is 10 in the code; 2 makes
the snapshots happen within a stream of at most four events. In `es_variants` two transfers
are enough for a conflict, for a snapshot and for events on either side of a rebuild's
SELECT; `projector.rebuild` is the same file in both variants, so it runs beside one of them. Three transfers and three
accounts are the smallest ring that is not a pair, and a FAILED row's INSERT, with the source's key
and waiting for the destination's, closes a cycle with one transfer the other way; that the other four variants issue the
same statements is also proved (section 5), so they need no ring of their own. Three outbox rows exceed a batch of two
(`BATCH_SIZE` is 100). A replay that disagrees needs four attempts: two that
execute at once and a replay after each stored its response. One pool client makes the pending queue fill. `MaxExits` bounds process
exits in `OutboxRelay`; the other modules have no counter, because every request is
sent once. In `rest_api` the second request is what follows the first: it reads what that
has written, fills the throttle window of its handler or probes the server; a limit of 1 makes the second
request to a handler the one too many.

`crud` excludes self-transfers and amounts below a cent because of the findings below, which are
about them; what holds for them too is proved (section 5, `TransfersAtomic` and `BalancesBounded`), and TLC
agrees when `RecordsBoundBalances` and `TransfersAreAtomic` take the place of the property in
`MCLockingVariants_self.cfg` and `MCLockingVariants_subcent.cfg`.
`es_safety` includes self-transfers, since there they meet the UNIQUE index and are refused.

`CHECK_DEADLOCK FALSE` is set everywhere because a finite set of requests ends: the
stuck states that would matter are what the liveness properties exclude.

Symmetry over transfers, attempts, commands and probes is used only in runs without
liveness; accounts are not symmetric.

**Fairness.** Handlers (`Handle`, `VariantHandle`, `Execute`, `ListAccount`) are weakly fair: Node
resumes a handler whose query has returned, and a query returns or is cut off by
`statement_timeout`. `BreakDeadlock` is weakly fair as a whole: Postgres' detector runs after
`deadlock_timeout` and cancels one statement of a cycle. `StatementFails` has none, so
no liveness result rests on a timeout. A free lock is granted: a FAILED row's INSERT that waits for
its key has it in the end, since every transaction that holds the row ends
and the requests are finitely many. In the outbox the timer and the restart are weakly fair; in
the shutdown module so are the hooks and the timer of a queued request. Arrivals, aborts,
exits and signals are never fair; `rest_api` has no liveness and no fairness.

## 4. Findings

Five runs expect a violation; each quotes its sentence in `PROJECT.json`.

1. A handler that dies between its two account projections leaves the balances that
   `GET /accounts` shows debited and not credited (`PROBLEM.md:19`).
2. In the variants with an accounts table a transfer from an account to itself computes both
   new balances before either UPDATE; the second wins and the balance grows by the amount
   (`PROBLEM.md:19`).
3. Amounts below a cent pass the DTO, and each balance is rounded by itself, so such a transfer
   makes or destroys money (`PROBLEM.md:19`).
4. Two overlapping attempts with one Idempotency-Key both execute
   (`docs/production-best-practices.md:128`).
5. A lost append is answered 500: `isUniqueViolation` looks for the SQLSTATE on the error
   itself, and the version of drizzle-orm in `package.json` hands the driver's error on as the
   cause of its own (`cqrs-es/README.md:112`).

Met while reading, without a run of their own:

- the FAILED record that `PROBLEM.md:18` asks for is lost if the process dies between the rollback
  and the INSERT, and also while it lives, if that INSERT is the victim of a deadlock on the keys of
  its accounts, times out or gets no client; the client is then told 500
  (`DeclinedIsRecorded` excuses these and nothing else). In ddd a death or a failure between that
  row and its event leaves a record without one (`EventsMatchRecords` excuses it explicitly);
- on SIGTERM the pool ends before HTTP drains, so a request in flight is turned away at its
  next query, which `docs/production-best-practices.md:95` does not want;
- a rebuild that meets a transfer between its append and its projections applies it twice,
  where `cqrs-es/README.md:31` says "at any time" (`UndisturbedIsRestored` speaks of the other accounts);
- `transfer_read_model` has no rebuild, so a transfer cut off before `ProjectCompleted` never
  gets a row; `cqrs-es/test/transfer-command.integration.test.ts:333` speaks of projections
  "in the same transaction", which they are not;
- a transfer without funds is a 400 in five variants and a 201 in the event-sourced ones, as
  `cqrs-es/README.md:137` says; the contract in `SevenServers` has both;
- the metrics count failures under the status of success, and what guards refuse not at all.

## 5. Proofs

**The event-sourced bank** (`EventSourcedBankProofs`), for any accounts, requests,
balances, snapshot interval and number of concurrent handlers, with or without
aborts: `TypeCorrect`, `NeverOverdrawn`, `SnapshotsAreReplays`, `FailuresAreJustified`, all from
`Invariance`. The constants' assumptions are those of `EventSourcedBank`. `NoOverdraft` is not
inductive: an append may overdraw unless the handler's aggregate is the replay of the
prefix its version names and that version is still the last. `IInv` therefore adds that
snapshots and everything a handler holds are replays of prefixes (`SnapshotIsReplay`,
`HandlerOK`), which survives appends because a prefix never changes (`ReplaySurvivesAppend`),
and that replaying newer events on such a base gives the whole stream (`ReplayIsWhole`).
Then at the append, no `UniqueViolation` means equal versions, hence equal balances, and
debit's old check applies to the stream as it is. `Existing` says that only created
accounts have events: the type invariant alone would allow a listing of an empty stream.

**Entries** (same module, on top of `Invariance`): `DoublyEntered` and
`ConflictsAreContention`. `Authored` says who wrote which row: version 1 creates the account,
every later version is a transfer's. `AppendedRows` computes a transfer's rows after an append,
`EntryKept` and `ContendedKept` carry what a transfer has, or lost to, through the growth of
the streams, `QuietStep` covers the steps that append nothing. At a refused append the
last row of a stream above the loaded version is another transfer's, because the
refused one has no row of its own yet and the creation has version 1.

**Sums** (`TotalsProofs`). The library's sum (`SumFunction`) is a recursive function on
the subsets of a set, and the library's induction theorems cannot be used here because they
take an operator. Each fact is proved by its least counterexample instead: among the finite
sets for which it fails one has no smaller one for which it fails (`LeastSet`), and
removing one element from it gives a contradiction. This gives that the recursion has a
solution (`SumsUpExists`), that the order in which elements are taken does not matter
(`SumWithoutOne`), and what adding, removing, changing or moving an amount does to a total. Every
sum below is over a set that is finite *so far* (accounts opened, requests that arrived), so the
sets of accounts and transfers themselves may be infinite.

**The totals of the event-sourced bank** (same module), for any constants:

- `MoneyConserved` and `LoadedBalanceIsSum`. `TotalsInv` says that each row's balance is the row
  before it and its own amount (`Replays`), hence that a balance is the sum of the events
  (`BalanceIsSum`). An append adds one row to each of two *different* streams
  (`AppendMoves`): that they differ is the UNIQUE index refusing a transfer to oneself.
- `ReadModelOnlyLags`. `LagInv` is the property; `ViewInv` adds what it rests on: nobody names an account
  before its creation is answered, so a listing always shows a stream of one row, and
  what is projected is committed. Without the former a credit could be projected
  before the row exists and be lost.
- `Refinement == Spec => ImplementsLedger`. One lemma for each step that is visible in the ledger
  (`OpenRefines`, `AppendCompletedRefines`, `LoadSourceRefines`, `AppendFailedRefines`); every other
  action stutters (`Invisible`). A transfer is found short when its source is loaded, when
  the stream's balance *is* the aggregate's, by `ReplayIsWhole`.

**The rebuild** (same module): `RebuildRestores`, the action property `UndisturbedIsRestored`, for any
number of accounts, events and handlers. The invariants of the command side hold beside a
rebuild too, since they say nothing of the read models (`BankInv`, `BankStepKeeps`). `RestoreInv` says that
while a rebuild runs every account a handler works on is `disturbed`, and that the row of any other
account is what the projected prefix of its stream makes of it, the events left in `todo`
being the rest of that stream. The step that uses the ORDER BY is `ProjectNextRestore`: the event taken
has the least version in `todo`, so it is the next one of its account.

**Both event-sourced variants** (`NestEventSourcedBankProofs`). `Implementation` proves the property
`ImplementsEventSourced`: it is the refinement of the protocol by cqrs-es and cqrs-es-nestjs. In the latter
what a handler would hold (`Held`) is its objects without the events already on them, so
`ObjectsInv` says at which stages an object has which event on it and that the versions noted
are the ones before those events. Three facts carry the proof. `Loading`: `loadFromHistory`, a fold
of the library, counts events and takes their balances one by one; like the sums it is
proved by least counterexample, with `LoadsExists` for the recursion. `AppendImplements`: two rows
built from the versions noted collide with the table or with each other exactly if
`UniqueViolation` says so. `SuccessImplements`: what is projected from the events on the objects
is what cqrs-es projects from the request. The loads need the streams to be what the bank's
invariants say, so `VariantInductive` carries these along the refinement. From it come `MoneyIsSafe`
(overdraft, snapshots, failures, double entry, conservation) and `RebuildsRestore`, for both
variants, beside a rebuild.

**The locking transfer** (`LockingLedgerProofs`), for any accounts, requests and number of
transactions, self-transfers and amounts below a cent included: `TypeCorrect`, `NeverOverdrawn`, `NoLostUpdate`. Its
`IInv` says of each stage that the transaction holds the rows it has read, that they are as
it read them, and exactly what it may write (`Writes`). `OtherTransaction` is the frame: a
transaction keeps this while others move, since a commit writes only rows the committer
holds (`CommitInv`).

Its variants: one lemma per architecture (`HexagonalStep`, `OnionStep`,
`CleanStep`, `DddStep`) that every step of its handler is a step of the n-tier handler, or, in
ddd, one of the two statements that save a failed transfer with its event. So the invariant
carries over (`VariantInvariance`), and with it `VariantsNeverOverdrawn` and `VariantsLoseNoUpdate`.
`EventsAgree` proves `EventsMatchRecords`: the invariant `EventsInv` says that an unsaved transfer has
neither record nor event, and that one at `saveEvents` has its FAILED row and no event yet.
`VariantTypeCorrect` is the type invariant.

The tables of the five variants, for every request the DTOs and services accept, with no hypothesis
on amounts or accounts:

- `TransfersAtomic` proves the action property `TransfersAreAtomic`: the accounts and the records
  change only as an account opens (`AccountOpens`), as a whole transfer completes whose source can pay
  (`Moves`: debit and credit of the balances of that moment, each rounded by itself, the credit alone
  if the two accounts are one), or as a transfer is declined (`Declines`) that saw under its lock that the source
  was short (`ReadsSource`). `TablesInv` says that the column holds whole cents, that a transaction has
  written nothing but the two computed balances, in their order, and that a request beyond its
  rollback was short. With the locks' invariant, what it writes is computed from the balances
  it replaces (`CommitMoves`); `StepEffect` says of every step of every variant which of these it is.
- `BalancesBounded` proves `RecordsBoundBalances` from it: a balance is the opening balance and the
  completed transfers in, minus those out to others, give or take half a cent for each completed transfer of a
  part of a cent. `MovesRecords` is its step; `RoundedByTheAmount` why it is half a cent at most.

Findings 2 and 3 are exactly the two terms by which this is less than PROBLEM.md asks for. On
requests that have neither, it is `RecordsExplainBalances`, which `crud` checks together with
`ImplementsLedger`.

**Idempotency** (`IdempotencyProofs`): `TypeCorrect`, `ReplaysAlwaysAgree`, `CachedNeverExecuted`. The invariant says
what a row is derived from (an execution of the same key and body) and what each stage
knows about its key. `RepeatsAreExposed` adds `Alone`: while a key is not exposed one attempt at
most is on its way, the key has no row until that attempt stores one, and every execution
is the stored one or about to be.

**Outbox** (`OutboxRelayProofs`): `TypeCorrect`, `NothingLost`, whose invariant adds that what is being
marked was published, and the action property `SettledForEver`.
`OnceUndisturbed` proves `DuplicateIsExcused`. Its invariant `Orderly` holds until flushes overlap
or a process exits: at most one flush runs, and what it has yet to publish, or nobody has
selected, was never published.

**Shutdown** (`GracefulShutdownProofs`): `LateProbesAlwaysFail`. The flag is set late, so
the invariant `NoLateQuery` rests on the pool: after the signal it is ending, and a request
that arrives then never reaches its queue. `TypeCorrect` is the type invariant, which says that the
queue holds exactly the waiting requests, each once: `QueueInv` is it with positions in place of
sets, and three lemmas say what joining, leaving from the head and leaving from the
middle (a timeout) do to the positions.

**The seven servers** (`SevenServersProofs`), for any deployments, requests, accounts, number
of slots and throttle limit. One lemma per variant (`NTierStep` ... `CqrsEsNestStep`) reduces its
instance of `RestServer` to one generic step (`ServerStep`) in terms of the variant's handler,
its filter and the shared guards; the invariants are then proved once.

- `OnlyVerifiedAreServed`, `ProbesAlwaysServed`, `ChallengesAreTold401`. `ProgressInv` says that a request
  beyond the router is at a process that accepted its environment; `SettingsAgree` and `AdmittedUnverified`
  that the three readings of the settings (schema, guard, registration of the strategy)
  agree in such a process.
- `AnswersAreContracted`, `AnswersAreOnRecord`. One lemma per variant (`NTierContract` ...
  `CqrsEsNestContract`) that its handlers, with their checks in their own order and their errors under
  their own names, satisfy the contract. The lemmas on `Checked` say which check decides;
  the `...Words` lemmas what status the variant's filter makes of each error. `TablesInv` adds that
  finitely many accounts are open and, in the variants with one accounts table, that
  they are the listed ones.
- `TypeCorrect`, with `CountersInv`: an answer is counted at most once.

The theorems about answers and `TypeCorrect` state the hypothesis `UnlimitedIds`: the ids that new accounts can
get are never used up. It stands for `randomUUID`; a run's three ids exceed what its two
requests can create.

Only model-checked: the liveness properties (`EveryRequestAnswered` of the event-sourced and of the
locking transfers, `VariantCatchesUp`, `DeclinedIsRecorded`, `EveryEventPublished`, `ShutdownCompletes`), which rest
on fairness, and no installed backend proves them; and, of the locking variants, `ImplementsLedger` and
`RecordsExplainBalances`, which hold only of requests that the code does not insist on, so the theorems say instead
what holds of all. `ReadModelOnlyLags` covers less than a reader may expect: it is of the bank
without a rebuild (beside one the read model may be anything for the accounts in `disturbed`).

## 6. Not modelled, and abstractions

- JavaScript numbers beyond half a cent, and sums above 2^53: amounts and balances are integers.
- Timestamps, messages and response shapes; owners are named or blank, ids known, unknown or
  malformed. Presenters, DTO classes and the Swagger document have no behaviour but these.
- Nest's order of hooks, guards, interceptors and pipes, passport, the throttler, pg-pool, drizzle's
  error wrapping and Postgres are external: modelled as the code relies on them.
- The waiting of one INSERT for another in `appendMultiple` (section 2).
- Pool gauges, tracing and logging only read. Migrations, container files and CI have no run-time
  behaviour. Of the schemas, the keys that decide something are in the modules: the version of an
  event, the idempotency key, the foreign keys of `transfers`, the scale of a balance. NOT NULL, defaults and the
  largest balance of `numeric(15, 2)` are not.
