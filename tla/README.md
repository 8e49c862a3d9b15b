# A TLA+ verification of the cloud commitment portfolio optimizer

This directory specifies the parts of the optimizer whose correctness depends
on interleavings, locks, crashes, retries, or arithmetic. TLC checks the models
on small instances, and TLAPS proves the safety properties of all of them for
every instance (section 5). Paths are relative to the root of the repository;
`PROJECT.json` has the file and the lines of every definition.

## 1. The system

An API process (several requests at once) and a worker process (possibly
several of them) share a PostgreSQL database, an object store and, optionally,
Redis. They never talk to each other directly: a request writes rows, the
worker polls for them, and triggers in the database enforce the status
transitions of the rows. The worker loop runs one cycle a second, in the order
forecasts, optimizer runs, expiry of approvals, backtests, events for other
systems. Two external systems are reached over HTTP by the adapters: a
notification hub and a workflow engine. Operators run three commands beside
the processes: migrations, first-run setup and the provisioning of an
administrator.

    API handlers --insert/update--> PostgreSQL rows <--claim/update-- worker cycle
      |    |                        (locks, triggers,                    |
      |    |                         unique indexes)                     |
      |    +---put---> object store <------------put/get-----------------+
      +--limits--> Redis                                                 |
                                        hub, workflow engine <---fetch---+

### Components, state, operations

| Component | State | Operations that change it | What makes it correct |
|---|---|---|---|
| Optimizer runs (`core/optimizer-runs`) | `optimizer_runs`, `recommendations`, snapshot, frontier and output objects | `createRun`, `processNext` | one processor per run; status backed by what was stored; inputs valid when queued; every claimed run ends; the choice respects the policy |
| Approval workflow (`core/approvals`) | `approvals`, status of `recommendations` | `createPending`, `decide`, `expireDue`, the hooks behind a commit | approval and recommendation agree, one approval, final decisions, nothing expires early, no deadlock, nobody is told of what did not happen |
| Ecosystem outbox (`core/adapters`) | `ecosystem_events`, `workflow_execution_id` | `enqueue`, `claimNext`, `markSent`, `markRetry`, `markFailed`, `setWorkflowExecutionId` | sent only if accepted, one request per claim, ended events stay, events end |
| Forecasting, backtests (`core/forecasting`, `core/backtests`) | models, runs, report rows, artifacts | create, `processNext` | as optimizer runs; forecasts and replays add up and look at no future month |
| Worker process (`apps/worker`) | the poller, the current cycle, resources | start, cycle, close | every stage gets its turn, close waits for the cycle |
| Optimizer policies (`core/optimizer-policies`) | rows | create, patch | what a run uses stays what it was |
| Price tables (`core/price-tables`) | versions and their status | create, activate, block | no overlap of active tables, stale ones stay out |
| Imports (`core/imports`) | `import_batches`, `usage_line_items` | `createImport` | all or nothing, usage reconciles with the declared totals |
| Login sessions, users, passwords (`core/tenant/auth-*`, `users-*`, `user-password-*`) | families, tokens, users, credentials | login, refresh, logout, create, patch, reset | one usable token per family, reuse ends the family, changes of a user end its sessions, an administrator remains, no deadlock stays |
| API keys, setup, provisioning (`core/tenant`) | `api_keys`, audit rows, the first tenant | rotate, initialize, `provisionFirstAdmin` | one key in force per chain, setup accepts every well-formed history, the first administrator is given a password once |
| Registration (`core/tenant/registration-*`) | `registration_requests`, tenants, keys | register | at most one tenant per request, all or nothing, true answers |
| Cloud accounts (`core/tenant/cloud-accounts-*`) | rows with an optimistic version | create, patch, deactivate | a version names one content, no lost update |
| Authentication and authorization (`apps/api/plugins/auth.ts`, `core/tenant/rbac.ts`, routes) | the request's actor, buckets | the preHandlers of a protected route | a handler runs only for who was entitled; same rights on every path; budgets hold |
| Limiters, Argon executor (`core/shared`, `core/tenant`) | windows, a bounded queue | `consume`, `run`, `close` | bounds kept, refusals free, no waiting at a free place |
| Notifications (`core/notifications`) | notices, preferences | emit, list, read, replace | one per recipient and event, locks hold |
| Reports (`core/reports`) | `report_snapshots`, rendered objects | `get` | what is rendered is what was frozen, and is kept |
| Listings (every repository's `list`) | none; a cursor held by the client | list | a walk is in order and misses nothing that was there |
| Job queue, managed cache, object store (`core/shared`) | Redis keys, one cached resource, files | `enqueue`, `get`, `close`, `putObject`, `getObject`, `deleteObject` | pushed once, one live resource, atomic objects |
| API process (`apps/api/bootstrap.ts`) | its resources, signal handlers | start, signals | nothing stays open, handlers keep their resources |
| Migrations runner (`core/db`) | the ledger, the schema | the gate | each file once, in order |
| Audit log, scenarios | rows | insert, list | their listings |
| Dashboard, web pages, configuration, Zig kernel | none | reads, rendering, parsing | no steps to interleave |

### What is hard

- *Interleavings of transactions.* Requests lock the recommendation first,
  decisions and the expiry the approval first; the expiry skips locked rows.
  Refresh and logout lock the family before the tenant, patches and resets the
  tenant before the families: they deadlock, and the database breaks the tie.
- *Times that do not follow commits.* `now()` is the begin of a transaction.
  `updated_at` as an optimistic version, `created_at` as the key of a page, and
  `revoked_at` under a chronology check all depend on it.
- *Leases without owners.* The outbox remembers when an event may be claimed
  again, not by whom it was claimed: a slow worker reports late. Runs of the
  worker's other queues have no lease: a worker that dies leaves its run
  running.
- *Several commits for one outcome.* A run stores artifacts, inserts a
  recommendation and completes in separate transactions; a report is inserted,
  rendered and marked; an idempotency key is set before its job is pushed. Any
  of them may take effect and still report an error.
- *Lost replies.* A commit that took effect is reported as a failure:
  registration, imports, provisioning and the migrations have to cope.
- *Triggers.* A statement that looks harmless is refused when the trigger does
  not know the transition.
- *Stale reads.* Inputs are checked long before the row is inserted; a role is
  read before the limiter waits; a file is opened before it is compared.
- *Asynchronous code in one process.* Between two awaits anything may run: the
  shared cache of a resource, the executor's places, a signal during start.

`PROJECT.json` lists these hazards at their lines, with the properties that
cover them and, where none does, why.

## 2. Modules

| Module | Models |
|---|---|
| `RecommendationDecision` | the promise of the approval workflow: request, decision and expiry as atomic steps on committed data |
| `Approvals` | `core/approvals` statement by statement, with row locks, rollbacks, the unique index and the triggers of migrations 0019 and 0021; implements `RecommendationDecision` |
| `DecisionEvents` | what follows the commit of a request, a decision or an import: notices and outbox rows |
| `JobLifecycle` | the promise of every worker queue: submitted once, taken by one worker, ended at most once by its taker |
| `OptimizerRuns` | `createRun` and the worker's `processNext`, with the policy, forecast and price rows they depend on; implements `JobLifecycle` |
| `Worker` | the worker process with its cycle of five stages, and the forecast and backtest queues; implements `JobLifecycle` |
| `Economics` | forecast, candidates, recommendation and replay as functions |
| `Outbox` | `core/adapters`: enqueue, leasing claim, request, execution id, outcome |
| `OptimizerPolicies`, `PriceTables`, `CloudAccounts` | their writes under triggers, advisory locks and optimistic versions |
| `Imports` | `createImport`: object, three parsers, control totals, transaction, notices |
| `Sessions` | login, refresh, logout, patch of a user, reset of a password as transactions with row locks |
| `Routes`, `Requests` | every protected route; a request's way through authentication, authorization and its limiter |
| `Registration` | the transaction behind `POST /api/tenants/register` and its repetitions |
| `RotationChains`, `ApiKeys` | the check of key histories; rotations, registrations and repeated setups around it |
| `AdminProvisioning` | the operator's command beside the API's transactions |
| `Notifications` | emission, preferences and their locks, reading |
| `Listings` | every listing of the API: sort key, filters, page, cursor |
| `Reports` | `get` of a report by overlapping readers |
| `ArgonExecutor`, `SessionLimiter` | the bounded executor of password hashes; the rolling windows of login and refresh |
| `JobQueue`, `ManagedCache` | the Redis queue; the cache behind every resource of a process |
| `ObjectMap`, `ObjectStore` | the promise of one key of an object store; the local store system call by system call, which implements it |
| `ServerLifecycle` | the API process from start to exit |
| `Migrations` | the migration gate with several runners |
| `Approvals_proofs`, `OptimizerRuns_proofs`, `Outbox_proofs`, `Worker_proofs`, `Identity_proofs`, `Process_proofs`, `Reports_proofs`, `ObjectStore_proofs` | the theorems of section 5, in a module for each suite |
| `MCApprovals`, `MCOptimizer`, `MCOutbox`, `MCWorker`, `MCIdentity`, `MCProcess`, `MCApi`, `MCStorage` | for TLC: the suites of section 3, which extend the modules, put their steps side by side and add bounds |

Operators whose comment starts with `Fault:` are not part of any specification.
Each is a plausible mistake in the definition that follows it (a dropped guard,
a missing lock, an unchecked error). With the definition replaced by it, TLC
finds the property named in the `mutants` of `PROJECT.json` violated: the
properties depend on the code as it is. Variables commented `(history)` record
what a property needs to remember; no guard reads them.

### How the modules are connected

`OptimizerRuns` and `Worker` share `JobLifecycle`. `ApiKeys` extends
`RotationChains`, `Requests` extends `Routes`. `Reports`, `OptimizerRuns`, `Worker` and `Imports` use the
object store as one that reads what was put last; `ObjectStore` shows that the
local store is one. `DecisionEvents` begins at the commits of `Approvals` and
`Imports` and ends at the rows `Notifications` and `Outbox` begin with.
`Registration` is one committing step of `ApiKeys`. `AdminProvisioning` and
`Sessions` share the tenant lock and each has the other's transactions as far
as they touch its rows.

### Notes on the modules

**Approvals.** State: the clock, the committed status of each recommendation,
the committed row of each approval, and `tx`, the open transaction of each
process with its next statement, the row locks it holds and the rows it has
written. `createPending` is `BeginRequest`, `LockRecommendation`, `ReadContext`,
`InsertApproval` (the partial unique index waits for an uncommitted competitor
and fails on a committed one) and `Commit`; `decide` is `BeginDecision`,
`LockApproval`, `UpdateRecommendation` (matching only a row that awaits
approval, and not looking at its count), `UpdateApproval`, `Commit`;
`expireDue` takes the locks of the due approvals at once (`LockDue`: SKIP
LOCKED, ordered, limited), then those of their recommendations one by one
(`ExpireRecommendation`). `Rollback` is possible in every state.

**OptimizerRuns.** State: forecast, policy and price rows; `rows` and
`recommendations`; the objects stored per run; the program counters of
handlers and workers. Each statement that commits on its own is an action with
an outcome in which it took effect and the caller saw an error. The claim is
two steps, the locked SELECT and the UPDATE with its commit. Which candidate
wins is in `Economics`; here a recommendation is found or not.

**Worker.** A process is a cycle of stages; any call of a stage may fail, a
process may die or be told to stop at any point and is started again. Forecast
and backtest runs are the jobs; the other stages succeed or throw.

**Economics.** The evidence (history, policy, price items) is any of a small
set; the forecast, the frontier, the recommendation and the replay are computed
from it as the services do, in integer cents, with the rounding of the code.
What the code sorts is here what its ranks say: the k-th value has fewer than k
values below it, and a candidate's place is the number of those ahead of it, where
ties stay in the order of the price items, as a stable sort leaves them.

**Outbox.** Time is abstracted to `due`: a lease or a backoff may end at any
moment after it was set, also while a slow worker still waits for its reply.
`Claim` is one step because the row lock covers the whole transaction. The
transitions the two triggers let through are `EventTransition` and
`ApprovalTransition`; every update asks them.

**Sessions.** Tokens are chains of states, oldest first; that an idle time is
over is a flag. A transaction advances by its lock statements; the tenant row
stands for the user and credential rows, which everyone locks right behind it.
A process that waits for a lock that waits for it is chosen as the victim.

**Routes, Requests.** `Routes` lists each protected endpoint with the actions
its preHandlers require, the bucket it draws on and the operations its handler
calls; `Requests` takes a request through it while administrators change what
its actor may do. The bucket is that of the rolling-window limiter, in its
local and Redis modes; in `trusted_edge` mode the application counts nothing and
relies on a proxy in front of it, so `WithinBudget` is about the other two. A
bucket, here and in `SessionLimiter`, is the set of its entries: what the code
reads of the list is how many are in the window and which is the oldest.

**Registration, ApiKeys, RotationChains.** The advisory lock of a key is a hash,
so `LockOf` may map two keys to one lock. `ApiKeys` lets a setup read the
counts, origins, keys and audit rows in statements of their own between which
rotations commit; two ghosts per setup remember whether anything was committed
since it began on a well-formed database (`quiet`) and which keys of the first
tenant were in force since (`seen`). `RotationChains` has the check a setup makes of
what it has read and what the check means (`IsForest`); that these are one holds of every
database, not only of reachable ones (`ForestsAreAccepted` of `MCIdentity` for small
ones, `OnlyForestsAreAccepted` for any).

**Listings.** Each listing is a record of its sort key, filters and limits;
`at` gives rows the time of their transaction's begin, so a row may appear
behind newer ones (`Behind`).

**ObjectStore.** One key; files are numbered in the order of their creation and
keep what was written; `path` is what the key names. `Open` and `Compare` are
separate steps, because a put or a delete may come in between. A put that fails tries to take its
temporary away; that `rm` may fail too, or find nothing because the directory was
moved or replaced, so failed writers leave temporaries as dead ones do
(`Cleanup`). The refinement mapping is at the end of the module.

**ServerLifecycle, ManagedCache, ArgonExecutor.** What runs between two awaits
is one step; the settling of every promise is a step of its own. What the
server has acquired and not yet closed is a set of resources with the fixed
order in which it closes them.

**Migrations.** A release has a directory of files; a runner plans from it,
waits for the lock, compares with the ledger and applies the files it plans, a
set, in the order of their versions. A session that breaks loses the lock and the open transaction.

**What is assumed of the surroundings.** Nothing in the code changes whether a tenant is
active while sessions exist, so logins and refreshes may find it inactive at any time
(`LoginLock`, `EvaluateRefresh`). In `Requests` a family of tokens ends when it is
revoked or its absolute expiry is reached, which the lookup of a cookie's user does
not tell apart. In `CloudAccounts` transactions begin at distinct microseconds: two that
shared one could give a version two contents. `ServerLifecycle` assumes that the sessions'
`onClose` hook is registered once the application is built (`plugins/auth.ts`,
`bootstrap.ts`). A signal that reaches a worker before `start()` is over ends the process,
because the handlers come after it (`apps/worker/server.ts`): for `Worker` that is a crash.
Notices of one event are emitted again one after the other, not at the same time. Of
the worker's stages, those behind the forecasts may break for one cycle or for good;
`NothingStarves` is checked with the adapters broken for good.

## 3. Runs

Eight runs check what must hold, four show findings (section 4). Each of the
eight is a suite of one `MC` module: a part of the system with the modules that
belong together, because they share a process, a database transaction or the
question that is asked. A variable `component`, chosen in the initial state,
says which module, under which bounds, moves in a behaviour; the variables of
the others stay as they are. The MC module extends the modules themselves, so
that a property of a run is the very definition a theorem is about; where a part
needs other values of the constants it has an instance of its own (`Live`,
`Lasting`). What a suite checks is the conjunction over its
parts, each with its own bounds. A property of a suite is named for what it
promises; it is put together from the properties of the modules, which have the
detail in their comments.

| Run | Parts: bounds |
|---|---|
| `approvals` | `race`: 2 handlers and 1 expirer on 1 recommendation, 2 approvals; `batch`: 1 handler, 2 expirers, 2 recommendations, batches of 2; `live`: 1 of each, 2 recommendations, batches of 1; `events`: 3 requests on 1 approval and 1 import batch, 2 failures |
| `optimizer` | `all`: 1 handler, 2 workers that may die, 2 runs; `crashing`: 1 worker, 2 runs; `lasting`: 2 workers, 1 run, no deaths; `freezing`: 1 policy, 2 administrators; `naming`: 2 policies, 1 administrator |
| `outbox` | `outbox`: 2 workers, 1 event that starts a workflow, given up after 2 attempts, 4 at most; `urgent`: 1 user, preferences of one row or of a row for each channel in one request, 2 emissions; `calm`: 2 users, 1 emission |
| `worker` | `failing`: 2 processes, 1 forecast and 1 backtest, any failure; `lasting`: 2 processes, 2 forecasts, a stage that always throws; `touching`: 3 price tables of one instrument, 3 requests; `labelled`: 2 instruments, 2 requests; `money`: histories of 3 months and 2 services, 4 policies, 3 price lists |
| `identity` | `provisioning`: 2 operators, 2 e-mails, 2 changes by the API; `crossed`: 2 requests of 2 administrators, of whom one has a session; `resetting`: 2 requests, 1 user, 2 tokens and 2 passwords; `crowding`: 3 requests, 1 user; `registering`: 2 clients, 2 keys of one lock, 4 bodies, 1 failure; `rotating`: 2 rotators, 1 setup, 2 rotations; `settingUp`: 2 setups, 1 rotation that may copy the marker note; both with 3 keys, 2 tenants, 1 failure |
| `process` | `executor`: 5 hashes, 2 places, a queue of 2; `cache`: 3 callers, 2 generations, 2 closes; `server`: 2 requests, 2 signals, 3 failures; `redis`: 3 calls, 2 keys, a list of 1, 1 expiry, 1 failure; `gate`: 2 runners of 2 runs each, 2 versions of 2 texts |
| `api` | `reports`: 3 readers, 3 rows, 2 edits; `mixed`: a user and a key on three routes, 2 requests, 2 tokens, 2 acts of administrators; `aging`: the same with 1 token that ages by a tick; `everywhere`: each protected route, 1 request, 1 act; `insisting`: the routes of the smallest limits, 11 requests in windows of 2 of 3 ticks; `logins`, `refreshes`: 2 accounts, 1 address or 1 family, limits of 2 and 3, 6 ticks, in the process and in Redis; `walking`: 3 rows over 3 ticks, pages of 1 and 2, 1 change |
| `storage` | `objects`: 2 callers, 2 values, 2 files; `parsing`: 1 import of any file in every format; `racing`: 2 imports of 4 files with failures and crashes; `patching`: 2 clients, 1 account, 5 transactions |

What they show:

| Run | Property | Shows |
|---|---|---|
| `approvals` | `TypeOK` | types; a transaction holds what its next statement needs |
| | `ApprovalsAreConsistent` | a recommendation and its approval agree in every committed state, it has at most one, none is expired early |
| | `DecisionsAreFinal`, `ImplementsDecision` | nothing reopens what is closed; the locking transactions implement the atomic workflow of `RecommendationDecision` |
| | `EventsAreHonest` | what is told behind a commit was committed, mirrors that fail fail no request, follow-ups were tried before the answer |
| | `EverythingEnds` | every transaction ends, a pending approval is decided or expired |
| `optimizer` | `RunsAreConsistent` | snapshot before row, outcome backed by what is stored, one processor |
| | `InputsValidWhenQueued`, `ImplementsJobLifecycle` | a run is queued with an active policy and a completed forecast; its row goes through `JobLifecycle`, crashes and lost replies included |
| | `PoliciesAreFrozen` | a policy that has runs keeps the terms they were made under, and that is what its readers see |
| | `RunsEnd` | a queued run is claimed; a claimed one ends while no worker dies |
| `outbox` | `DeliveriesAreHonest`, `EndedEventsStay`, `EventsEnd` | sent means accepted, requests are counted, nothing is given up early, late outcomes change nothing, events end |
| | `NoticesArrive`, `NobodyElseChanges` | one notice for each recipient, urgent ones muted by locks only; a locked preference is changed by an administrator, a notice read by its recipient |
| `worker` | `JobsAreSound`, `ImplementsLifecycle` | completed means stored, a snapshot before a row, close waits for the cycle; the queues implement `JobLifecycle` |
| | `PricesAreUnambiguous`, `StaleTablesStayOut` | no two active tables of an instrument overlap, answers are true, a stale table does not become active |
| | `MoneyIsRight` | forecasts come from history; recommendations keep the risk budget, have a real saving and are not beaten; replays balance and know no future |
| | `NothingStarves` | runs are taken although a later stage always throws; activations are answered |
| `identity` | `SessionsAreSound`, `SessionsStayEnded` | a live session is current, one token is, lifetimes are bounded, an administrator remains, only the two crossed lock orders deadlock; what has ended a session is final and reuse ends it |
| | `RegistrationIsHonest` | all or nothing, true answers, a credential is shown once |
| | `KeysAreSound` | one key in force, one first tenant, setups accept the histories and report a key in force |
| | `OnlyTheFirstAdmin` | the command makes an administrator only for a tenant that has no other |
| `process` | `HashesAreBoundedAndFair` | the bounds, the order, no free place while somebody waits |
| | `ResourcesAreSafe` | one resource at a time, none lost, none handed out closed; nothing stays open, handlers keep theirs, failures show |
| | `DoneOnce` | a job is pushed once for its key; a migration takes effect once, in order |
| | `EverythingEnds` | hashes are answered, the cache opens again, a signal ends the process, the gate's runs end |
| `api` | `RequestsAreSound` | a handler runs for who was entitled since the request came, and within its route's limit |
| | `LimitsHold` | windows keep their limit, retry times are honest, refusals are free |
| | `PagesAreSound` | a walk is in order and misses nothing that was there |
| | `ReportsAreFrozen`, `RenderedIsFinal` | what is rendered is what was captured, the row of an answer is kept, rendered rows are final |
| `storage` | `AtomicObjects`, `TemporariesArePrivate` | the system calls implement the atomic map of `ObjectMap`; no writer loses or shares its temporary and no reader is given one, whatever failed and dead writers leave |
| | `ImportsAreSound` | whole files, the declared totals, the constraints of the table, notices of what is there |
| | `AccountsLoseNothing` | no lost update, deactivations hold, a version names one content |

Type invariants other than that of `Approvals` are conjuncts of the properties
above. Four facts about functions of the models, without a behaviour, are
assumptions TLC evaluates before it starts: `RoutesAgree` of `MCApi` (routes that
call the same operation of a service demand the same rights, over the whole
route table), `CostsAreDeclared` of `MCStorage` (a file that reconciles costs
what its request declared), `AlterationsAreFound` of `MCStorage` (two files that differ in
one row do not both reconcile) and `ForestsAreAccepted` of `MCIdentity` (a setup accepts
exactly the forests of rotations, over any 3 keys of 2 tenants with up to 2 audit
rows).

Why the bounds are enough for the cases to happen. Every lock order involves two
or three transactions, which each part has: a request, a decision and an expiry
on one approval; a refresh, a logout and a reset on one family; two patches on
one account; three activations of one instrument, of which two touch. Two
workers and two runs let a worker go on to a second run, or take over after a
crash, while another is in any state. In the outbox a worker must be able to
lose its lease twice while its attempt is still the first: `AttemptLimit` 4
leaves room for that, with `MaxAttempts` 2 in between. In `objects` two
files are what a reader needs to open one and find the other; in `reports` three
readers are a first, an overlapping one and a later one; in `cache` two
closes and two generations let a factory of the first fail after the second has
begun. Windows of two ticks with a third let one admission expire while another
stays. Real values (72 hours, five attempts, pages of 100) only lengthen the
same behaviours.

What bounds leave out on purpose: the notes of rotations in `rotating` are never the
marker of the first run. In `settingUp` they may be; setups then refuse the history
(section 4, "Marker notes"), so `quiet` begins false in such a database.

Bounds in guards: `MaxTime`, `LastTime`, `LastDay`, `MaxClock`, `MaxNow` (clocks),
`AttemptLimit` (the CHECK of the table), `MaxTokens`, `MaxVersions`,
`MaxPasswords`, `MaxFiles`, `MaxRows`, `MaxEdits`, `MaxChanges`, `MaxEmissions`,
`MaxGenerations`, `MaxCloses`, `MaxSignals`, `MaxRuns`, `MaxExpiries`,
`MaxArrivals`, `MaxWanted`, `MaxUpdates`, `MaxMicros`, `MaxLosses`, `MaxFailures` (how often something is made to
happen). Parts whose clock or counters end every behaviour, or whose processes
are done at some point, would deadlock in TLC's sense, so the suites are checked
without deadlock checking; a deadlock of locks would violate their liveness
properties (`EverythingEnds`, `NothingStarves`) or, for sessions,
`OnlyCrossedOrders`. Symmetry is used in the suites without liveness only
(`identity`, `api`, `storage`), over callers that nothing else tells apart. Other
names that nothing tells apart are handed out in one order by the part of the suite:
identifiers of runs in `all` and `crashing`, of tenants and keys in `rotating` and
`settingUp`, requests in `touching`, and the administrator with a session in `crossed`.

### Fairness

Liveness is checked in `approvals`, `optimizer`, `outbox`, `worker` and `process`,
for the parts named; their `MCFairness` repeats the fairness of the modules for
the part that is under way.

- *Row locks.* PostgreSQL grants a lock to its waiters in turn, detects
  deadlocks, and awaited statements settle: `SF` on the statements of
  `Approvals`, the updates and the advisory lock of `PriceTables`, and the
  advisory lock of `Migrations`; `WF` on what holds no lock yet. Nobody has to
  call, roll back or decide.
- *The worker loop* polls every second and catches what a stage throws; the
  process is restarted when it ends (`restart: unless-stopped`,
  `docker-compose.prod.yml:131`): `WF` on a worker's steps in `OptimizerRuns` and
  `Worker`. A claim may fail and is tried again in a later cycle: `SF` on its
  commit. `RunsEnd` assumes that the stages before do not throw in every cycle;
  `NothingStarves` shows what a stage behind does not change.
- *Outbox.* `fetch` settles because of its own header and body timeouts; leases
  and backoffs run out (`WF` on `BecomeDue`); `claimNext` takes the event that
  has been due for longest (`SF` on `Claim`).
- *One process.* Microtasks run, promises of hashes, factories, disposers,
  handlers and closers settle: `WF` in `ArgonExecutor`, `ManagedCache` and
  `ServerLifecycle`.
- Crashes are never required. They are excluded where a claimed run must end
  (part `lasting` of `optimizer`), because a dead worker's run does stay running;
  `JobLifecycle` states that as `Abandon`.

## 4. Findings

The first four are runs that expect a violation; `PROJECT.json` quotes the
sentence of the repository that the code contradicts.

1. *Decisions after the window* (`approvals_window`, `DecisionInsideWindow`).
   `decide` checks the status and never `expires_at`; an approval can be approved
   after its expiry until a worker cycle has expired it.
2. *Stale prices* (`optimizer_stale_prices`, `StalePricesBlockRecommendations`). A
   table is judged stale when it is activated. One that was fresh then is used
   for recommendations however old it gets.
3. *Execution ids* (`outbox_execution_id`, `ExecutionIsStored`).
   `setWorkflowExecutionId` keeps the status of the approval; its trigger raises
   for every such update. The id is never stored, the accepted event is sent
   until the attempts are used up, and ends failed. `NoExecutionIsStored` proves
   it for every instance.
4. *Repeated enqueue* (`outbox_enqueue_again`, `EnqueueIsIdempotent`). `ON CONFLICT
   DO UPDATE` is meant to return the row that is there; the trigger refuses the
   update.

The modules also have the steps of these divergences from what the repository
says, which no run states as a property:

- *Malformed files.* A Parquet file that cannot be read is answered 500
  (`readParquetRows` lets the exception through), a number of nineteen digits
  503; "malformed or drifting files quarantine without partial canonical rows"
  (`docs/audits/phase-2-close-out.md:13`).
- *Marker notes.* A rotation may carry the note with which setup marks the first
  key (`core/tenant/api-key-rotation-input.ts:71`); every later setup is refused as
  ambiguous.
- *Acknowledged jobs.* A call that stops between its reservation and its push
  (`core/shared/jobQueue.ts:95`) leaves a key under which repetitions are told that
  a job was accepted that is nowhere; "Never [...] acknowledge work that was not
  persisted" (`.agent/knowledge/foundation/jobs-queue-adapter.md:20`). No caller of
  `enqueue` exists yet.
- *Low confidence.* The optimizer ignores the warnings of a forecast; the
  confidence is always 0.9 (`docs/risk-policy.md:5`).
- *Frontier.* Candidates that violate the policy are points of the frontier
  (`docs/efficient-frontier.md:3`).
- *Frozen reports.* Two first readers each freeze a report; the later replaces,
  for later readers, the one that was answered (`README.md:189`).
- *Provisioning.* When the reply of the commit is lost the operator is told that
  nothing changed (`core/tenant/admin-provisioning.ts:33`), and every repetition is
  refused with the same message.

Read in code that is not modelled:

- *Settings page.* The form parser of another route file is registered first
  and nests repeated fields (`apps/api/routes/notifications.ts:158`), so that what
  is stored is not what was ticked.
- *Truncated pages.* Web pages show the first 100 rows of a longer table and do
  not say so (`apps/api/routes/backtests.ts:90`, `DESIGN.md:175`).

Observed while modelling, where no document says otherwise:

- An error of the limiter's Redis client is remembered for the life of the
  process (`failed` is never reset): the routes stay closed until a restart.
- A setup that races a rotation may call a good state ambiguous, because its
  four reads see different commits.
- Signal handlers are installed with `once`: a second SIGTERM kills the API in
  the middle of its shutdown.
- The local limiter keeps the bucket of every key it has ever seen.
- No code moves a scenario out of draft, so a run that names one is refused.
- A decision that is committed and then cannot be reread is answered with an
  error, and nobody is notified of it.
- Utilization in a replay is all or nothing: a commitment larger than the usage
  counts as unused. Relaxations are ranked by their cost and none need make a
  candidate feasible. `explanation.binding_constraints` is always
  `["risk_budget"]`.
- The notification type `adapter.failed` is offered and nothing emits it.
- A get of an object that is overwritten between its open and its lstat is
  answered 400 `OBJECT_KEY_INVALID`.

## 5. Proofs

TLAPS proves the theorems below for all values of the constants that satisfy the
named assumption of each module (`ApprovalsAssumption`, `SessionsAssumption` and
so on). They ask for what the code or the notation gives: null values that are
no members of the sets they are null values of, disjoint kinds of processes,
limits and bounds that are positive or natural numbers, finiteness where things
are counted, amounts of a history, a policy and a price item that are natural numbers, a first administrator, a configured one who may be administrator, notes
of setup and of registration that differ, price tables that do not end before they
begin, one or two places and at most 32 waiting hashes (what
`core/tenant/argon-executor.ts` accepts), and that a route without a bucket
takes every role (true of the route table). TLC evaluates each of them in a run.
Nothing is assumed of how many users, rows, requests, workers or keys there are.
The bounds in guards are constants too, so a theorem holds however large they are.

Every proof module has the same layout: the inductive invariant in named parts,
one lemma for each action (under it a step for each part the action can disturb),
the initial states, and the theorems, whose last step is temporal.

`Approvals_proofs`. `TypesAreRight`, `RecommendationsAgreeWithApprovals`,
`ApprovalsAreUnique`, `ExpiryIsDue`, together `Consistency`; `Finality` and
`Implementation` (the transactions implement `RecommendationDecision`). That a commit keeps agreement
depends on what its transaction saw when it took its locks. The invariant
therefore says, for each kind of transaction and each of its statements, which
rows are locked and what the committed rows under these locks look like
(`RequestOK`, `DecisionOK`, `ExpiryOK`), and that no two transactions hold a
lock on the same row (`Disjoint`). Statements change only their own
transaction, so one lemma (`LocalStep`) reduces them to the new transaction
being in order; only `Commit` changes rows, and `Disjoint` is why it does not
invalidate what others rely on. `decide` never misses its recommendation
although it ignores the row count: the lock on the pending approval is enough.
`HonestEvents`, of `DecisionEvents`: the follow-ups a request still has to try and
those that are done are together those of the row it committed (`HookOK`), and a
row never goes back to a status about which something was said (`FactOK`).

`OptimizerRuns_proofs`. `Consistency` (evidence of every outcome, one
processor of a run), `QueuedWithValidInputs` and `Implementation` (the worker
implements `JobLifecycle`). A worker stores the frontier, the output and the
recommendation before the status, each in a call of its own, and may stop after
any of them.
The invariant says what is stored for a run whose row has a status (`RunOK`),
what a worker has stored for the run it is at (`WorkerOK`), that no two workers
are at one run (`Apart`: a claim needs a queued row, which only a claim can
change), and that a request about to insert holds the snapshot of a run that
has no row yet (`RequestOK`, `FreshRuns`). For the refinement, the holder of a
job is the worker that is at its run. `FrozenPolicies`, of `OptimizerPolicies`: what
runs took into their snapshots, and what an administrator is shown, is the row but
for its being archived (`Frozen`), which the trigger lets no patch change.

`Worker_proofs`. `Soundness` and `Implementation` (both queues implement
`JobLifecycle`, whatever stages throw). A job is in the hands of a process between its
claim and its outcome; the invariant says what that process has stored of it
(`AppOK`) and that no other has it (`Alone`). A completion whose COMMIT took effect
and is reported as an error is followed by an attempt to mark the run failed: it
finds the run completed and changes nothing. `UnambiguousPrices` and `StaleTables`, of
`PriceTables`: an activation has read its row under the row's lock and asked for
overlaps under the advisory lock of the instrument, so that until its commit the
instrument has no other overlapping active table (`RequestOK`) and nobody else
has activated one (`OneActivation`). `MoneyIsAlwaysRight`, of `Economics`: the
invariant says that each artifact, once there is one, is the function of the
evidence the action computes (`EconomicsInv`); the rest is about these functions,
for any history, policy and price items. A total is a fold over a finite set; a
smallest set at which it went wrong shows that it is built up one element at a
time (`TotalIs`), so that a linear inequality between the elements of three
functions holds of their totals (`LinearTotals`): averages lie within what they
average, accounts balance, commitments are paid. A percentile has a place in the
order of the values (`RankedIs`, `PercentileIs`), which bounds how many of the draws
lose more (`LossesAreWithin`) and makes the median utilization full or none
(`UtilizationsAre`). The order of the candidates is a strict total order on the
places of their items (`AheadIs`), so that ranks are a bijection and nothing is ahead
of the first (`SortedIs`).

`Identity_proofs`. `Soundness` (a live session has the role and the password its
user has now and the user is active, only the last token of a session is
current, no token outlives its family, an administrator remains, only the two
crossed lock orders deadlock) and `Finality` (no step brings an ended session
back, and a replay that does not fail ends its session). A writer of users
looks when it gets the tenant row and writes much later. Until then the user it
has read stays and the live families of that user are among those it has locked
or still has to lock (`FamiliesOK`); a password verified before the lock is
compared again under it, and then stays (`LoginOK`). Both hold because whoever
could write a user or insert a family needs the tenant row too (`Exclusive`).
Refresh and logout do not have the tenant when they look; what
they rely on is the family row they hold (`RefreshOK`), and no other writer of
it commits while it is locked. Two transactions that wait for each other both
hold something and both want something, which leaves `families` and `insert`.
`ProvisioningTypes`, `Audited`, `FirstAdminOnly` and `PasswordsStay`, of
`AdminProvisioning`: the tenant's row is locked by the one run between its select and its
commit (`RowLockExclusive`), so that what it found is still so when it commits
(`StillSo`). `HonestRegistration`, of `Registration`: whoever has seen that its key has no
row holds the key's advisory lock until it has committed one or given up
(`LockHeld`, `NoRowYet`), its identifiers are its own (`FreshKeys`), and only it can
show the credential (`NotShownYet`).
`KeysStaySound`, of `ApiKeys`: the database is at any time one whose rotations link
each revoked key to a younger one of its tenant, one to one, starting at the keys of
the first run and of registrations (`Linked`, in `DatabaseSound`). Links go up in time,
so an oldest key of a set replaced none of the set and the database is a forest, and
`OnlyForestsAreAccepted` says that a setup accepts forests and nothing else, of any
number of keys, links and origins. That it accepts a forest: a walk ends after at most as
many steps as there are keys, because keys between two visits of one key would only be
replaced by each other (`WalksEnd`); two walks do not meet, because their common keys
would be such a set (`WalksDoNotMeet`); and each key is on one, because those on none would
be one too (`WalksVisitAll`). That it accepts nothing else: the first key at which a walk
enters a set of keys that were only replaced by each other is no origin, and the key
before it is in the set (`AcceptedIsGrounded`). These lemmas replace the induction along
the walk by the least step at which it would go wrong. Of a setup the
invariant says what its four reads may have missed: the keys it has read of the first
tenant are among those seen in force since it began (`SnapshotSound`), and while
nothing was committed what it has read is what is there (`SnapshotExact`).

`Outbox_proofs`. `TypesAreRight`, `SentMeansAccepted`, `OneRequestPerAttempt`,
`GivenUpAfterMaxAttempts`, together `DeliveriesAreTrue`; `EndedEventsAreFinal` and
`NoExecutionIsStored`. The invariant says what a worker may rely on although its lease may have ended
(`WorkerOK`). The request count is not inductive alone; `Paid` counts the
workers about to send with the requests already received, so a claim raises
both sides by one and a send moves a worker from one summand to the other.
`NoticesAreSound` and `OwnersDecide`, of `Notifications`: an emission that has passed a
recipient has given him his row or found him muted (`Served`), and whoever ever
had a locked preference is remembered (`LocksAreSeen`).

`Process_proofs`. `HashingIsBoundedAndFair` (`ArgonExecutor`): the counter is the
number of operations that hold a place, the queue holds each waiting operation
once (`Waiting`), and until close what was accepted is what was begun followed by
the queue (`InOrder`). `CachesAreSafe` (`ManagedCache`): a generation is shared, or one
close has taken it (`GenerationsOK`), one close at a time is open (`ClosesOK`), and
what a call shares was not taken before it called (`CallsOK`). `ServersAreSafe`
(`ServerLifecycle`): what is acquired is what is open or closed, in order (`Starting`,
`Closing`). `QueueKeepsKeys` (`JobQueue`): the jobs a key has named, pushed, about to be or told to a
caller, are at most its reservations (`NamesOK`). `MigrationsAreOnceInOrder`
(`Migrations`): the holder of the lock knows all rows there are, and what it still has to
apply comes after them (`RunnerOK`, `Follows`); a runner that loses its session loses
the lock with it. `ResourcesStaySafe` and `OnceIsOnce` put them together as the run
checks them.

`Reports_proofs`. `AnswersAreFrozen` and `RenderedRowsAreFinal` (`Reports`): a reader
marks its row by the row's status alone, so it matters that nobody else can; every
row between insert and mark belongs to the one reader that inserted it
(`Apart`), who finds it queued with the data it captured (`Owned`).
`EntitledRequests` (`Requests`): whoever has passed the query of his identity was
entitled at that moment (`RequestOK`), and the admissions answered in the last window are entries
of their bucket, which never holds more than the limit (`BudgetOK`).
`LoginLimitsHold` (`SessionLimiter`): a bucket holds what was answered (`BucketOK`), and a
refusal bounds what its buckets will hold at every later time (`RefusalOK`): the
oldest entries leave first, and an entry that is made later leaves later.
`CompletePages` (`Listings`): the rank of a row among the matching ones is a
bijection onto the first numbers, so that a page is the newest rows behind the
cursor; a walk's rows end at its cursor, and a row that was steady since the
walk began is among them or behind it (`ListingsInv`).

`ObjectStore_proofs`. `TypeCorrect`, `TemporariesStayPrivate` and `Implementation`
(the system calls implement the atomic map). The file a writer works on is its
own and not yet named by the key (`Private`) and stays where it is, whatever others
leave behind (`Held`), what the key names is all of an
object (`Whole`), and what a reader has compared stays as it was (`Compared`),
because a file that has been named never changes. So a get takes effect when
it compares, not when it opens or reads: `Compare` maps to `Get`, `Rename` to
`Put`, `Remove` to `Delete`, and a lookup that finds no path is itself the get
or the delete. `AccountsKeepUpdates`, of `CloudAccounts`: whoever has updated an account
holds its tenant's row, so what he saw when he locked it is still what is
committed (`RequestOK`). `ImportsKeepTheBooks`, of `Imports`: what a parser gives is a
whole file that reconciles with the totals of the body, or no row (`OutcomeOK`); a
request keeps it from the reading to the commit and tells nothing before
(`StageOK`). What a file that reconciles is worth: `StoredAsDeclared` (what is stored costs
what was declared, however many rows there are) and `AlterationsAreFound` (no two files
that differ in the key or an amount of one row reconcile with the same totals; the columns
no total is about, such as the SKU and the tags, may differ). A total over a set of rows
is defined by recursion on subsets and may be taken in any order (`TotalIs`, `AnyOrder`).

Four changes of the models came from the proofs. The buckets of the limiters are
sets of numbered entries instead of sequences, because no prover reasons about a
filtered sequence; and the rows of a listing's page are defined by their rank, which
says what the query's ORDER BY and LIMIT return. `quiet`, which excuses a setup that
calls a good database ambiguous, says of the database it begins with that it is
`WellFormed`: without it `AcceptsHistory` was false as soon as a rotation copied the
marker note, and the bounds had hidden that. `Economics` ranks where it used to sort:
a comparison that leaves ties open does not define a sequence, and which of two equal
candidates comes first is what a stable sort decides.

Only model-checked:

- *Liveness* (`EverythingEnds` of two suites, `RunsEnd`, `EventsEnd`,
  `NothingStarves`): the arguments need ENABLED, which is out of the prover's reach.
- *`RoutesAgree`* of `MCApi`, which is about the route table as it is.
- *The findings*, which are counterexamples; `NoExecutionIsStored` proves the third of
  them for every instance.

## 6. Not modelled

- *Rendering and formats*: the markup of web pages, JSON schemas of routes, the
  error envelope, the text of templates, cursors, digests, cookies and keys.
  Where a format decides an outcome (a row that matches a pattern, a body that
  nests, a note that is a marker) the model has the outcome.
- *Dashboard*: read-only aggregation. *Scenarios* and *audit log*: rows that are
  inserted and listed; their listings are in `Listings`, and audit rows appear
  where a property is about them (`ApiKeys`, `AdminProvisioning`).
- *Configuration*: parsed once at start; its values are constants.
- *Zig kernel* (`core/optimizer/src`): a stateless command beside the services,
  which do not call it.
- *Health probes, request logging, the DuckDB reader, links inside the object
  directory.*

## 7. Plan

Done: every stateful component of the table in section 1, with abstract
specifications for the approval workflow, the worker queues and the object
store.

Proved: every safety invariant and every action property of the passing runs, and
the four refinements.

So are the facts about functions the runs assume, except the route table's, which is
data. What is left is liveness.
