# Formal specification of ACORN LIVE and its swarm

This directory holds TLA+ specifications of the parts of the repository that keep
state while others act: the ACORN LIVE service, the worker and the database under
it, the membrane and the breaker between Acorn and the world, and the swarm's
kernel, memory and autonomous workers.  With them are TLC configurations that
model-check them on small instances, and TLAPS proofs of what matters most for
every value of the constants.

`tlc -config LiveWorker_finish.cfg MCLiveWorker` checks one run,
`tlapm LiveWorkerProofs.tla` checks a proof module.  `PROJECT.json` lists the
runs, maps every definition to the source lines it translates, names for every
property a mutation of the code that breaks it, and lists hazards and findings.

## 1. Inventory

The repository is large (about 70 000 lines of JavaScript), but most of it is
pure: a function takes a record and returns a record with `authority: false` in
it.  State that outlives a call is kept in few places, and these are what can go
wrong.

| Component | Code | State | Operations | Talks to | Module |
|---|---|---|---|---|---|
| Live worker | `live/worker.mjs` | table `acorn_jobs`; the claimed batch, `stopping` | reclaim, ingest, claim, execute, shutdown | PostgreSQL; shares tables with the server | `LiveWorker` |
| Durable job queue | `scripts/acorn-durable-job-queue.mjs` | a job record | create, claim, succeed, fail, block, cancel | pure; the life the table should live | `JobLifecycle` |
| Commercial orders | `live/commercial.mjs`, `scripts/acorn-commercial-runtime.mjs` and what it calls | `commercial_orders`, `economic_ledger`, `usage_rights`, `stripe_events` | accept an offer, check out, process a Stripe event | Stripe (awaits; webhooks at least once, in any order) | `CommercialOrders` |
| HTTP server | `live/server.mjs` | `customers`, `sessions`, `requests`, `idempotency_keys`, a rate window in memory | register, login, logout, POST routes | database, commercial routes | `LiveServer` |
| Migrations | `live/migrate.mjs`, `live/database.mjs` | `schema_migrations`, the schema | applyMigrations at the start of every process | PostgreSQL | `Migrations`, `SchemaPlan` |
| Swarm lease | `.github/swarm/lease.mjs` | kill-switch, leases, epoch chain, nonces (memory) | prove, close epoch, isolate, watchdog, reset, wrap and open envelopes | the kernel | `SwarmLease` |
| Swarm kernel | `.github/swarm/kernel.mjs` | gateway, inbound buffer (memory) | inbound, pulse, invite, handshake, heal | the lease; other processes by envelopes | `SwarmKernel` |
| System breaker, survival policy | `.github/swarm/system-breaker.mjs`, `scripts/acorn-survival-policy.mjs` | `ACORN_SYSTEM_MODE`; a cut on its way | command, hard cut, recover | Carl, the membrane | `SystemBreaker`, `Membrane` |
| Membrane | `scripts/acorn-connector-flux.mjs` | sessions, digests seen, rate windows, the cut | admit, release, cut, restore, reset | the fabric, executions | `ConnectorFlux` |
| Connection fabric | `scripts/acorn-connection-fabric.mjs` | connections | connect, send, receive, health, measure, verify, revoke, sweep | adapters (awaits) | `ConnectionFabric` |
| Work engine | `scripts/acorn-work-engine.mjs`, `acorn-resource-governor.mjs`, `acorn-cloud-runner.mjs` | the state file: queue and usage | one run after another | files, tasks | `WorkEngine`, `ResourceGovernor` |
| Codex worker | `scripts/codex-autonomous-worker.mjs`, `codex-autonomy.mjs` | the worktree, a memory file, issues, pull requests | one run: gate, tasks, Codex, tests, publish | GitHub, Codex, Carl | `CodexWorker` |
| Cognition | `.github/swarm/cognition.mjs` | a session's filings, MEMORY | think, share, reply, revise, correct, synthesize, carry over | its callers | `Cognition` |
| Claim life cycle, pool, review, work object | `.github/swarm/*.mjs` | files of a workflow, values | one pass | workflows | - |
| Continuous runtimes, cognitive and capability fabrics | the rest of `scripts/` | none, or in one call | transformations | - | - |
| SDK, canal | `sdk/`, `canal/worker.js` | none | validate and forward | - | - |

How they interact: the server and the worker share PostgreSQL and nothing else;
both run the migrations when they start.  The membrane stands between the fabric's
callers and its adapters and asks the breaker's mode at every frame; the policy
sets the mode at once and has the membrane cut later.  The kernel is the only
caller of the lease.  The Codex worker meets others only on GitHub.

What makes each of them hard, and what would make it correct:

- **Live worker.**  Processes share one table with no coordination but row locks
  during the claim.  Hard: a process slower than `STALE_MS`, a crash between two of
  the five statements of a job, SIGTERM during a claim, a lost answer.  Correct:
  one owner at a time, finished jobs stay finished, effects follow attempts,
  SUCCEEDED means the effects are there, queued jobs are executed to the end.
- **Commercial orders.**  Hard: a checkout reads an order, awaits Stripe and writes
  back what it read; webhooks are duplicated and reordered.  Correct: an event is
  applied once, rights are granted only for a payment in the ledger.
- **HTTP server.**  Hard: overlapping calls with one key, an answer whose record is
  lost.  Correct: a replayed answer is true, calls in sequence take effect once.
- **Migrations.**  Hard: services and releases start together without a lock; a
  file and its record are two statements, and a dead process's statement may still
  be committed.  Correct: the database only ever shows a version, and nobody serves
  without the schema of its release.
- **Swarm lease and kernel.**  Hard: a memory that is lost while envelopes live on;
  an alarm noticed by one call and due to stop others.  Correct: tampering is seen,
  an envelope is not opened twice in a life, an alarm stops all traffic.
- **Breaker, membrane, fabric.**  Hard: awaits between the question and the
  crossing; a cut that arrives late; a sweep that empties the memory.  Correct: no
  data passes while a cut stands, what is revoked stays silent.
- **Work engine.**  Hard: a death at any step, while the only file is written too.
  Correct: a death costs at most one budget, no affordable work is passed over.
- **Codex worker.**  Hard: Carl and others act between the steps; the memory, the
  worktree and GitHub fail apart from each other.  Correct: requests do not rival,
  completed work is kept, what was given up stays given up, a run ends.
- **Cognition.**  Hard: any order of calls.  Correct: what was thought apart decides
  every synthesis, and neither consensus nor dissent changes on its way.

## 2. Modules

A component is a module; `MC...` modules name the values an instance uses;
`...Proofs` modules hold the theorems.  Modules compose by EXTENDS where the
components share one process (`SwarmKernel` over `SwarmLease`; `Membrane` over
`ConnectionFabric`, `ConnectorFlux` and `SystemBreaker`; `WorkEngine` over
`ResourceGovernor`) and by INSTANCE for a refinement (`LiveWorker` implements
`JobLifecycle`, `Migrations` implements `SchemaPlan`).  An action is what happens
between two points where others may act: a statement where the code awaits a
database, a call where it is synchronous.

### LiveWorker, JobLifecycle, MCLiveWorker

`LiveWorker` models `live/worker.mjs`.  Every SQL statement outside the claim
transaction commits on its own, so an action is one statement, and the state is
the tables plus, for each process, the statement its main loop is at (`pc`), the
claimed rows it still has to execute (`batch`) and how far its SIGTERM handler
has come (`phase`).

| Model | Code |
|---|---|
| `job` | table `acorn_jobs`: state, attempts, worker_id |
| `stale` | rows with `updated_at < now - STALE_MS`; any update refreshes a row |
| `source` | whether the row of `requests` / `commercial_orders` exists |
| `qualified`, `events`, `evidence`, `projected` | what `execute` writes besides the job |
| `Reclaim`, `IngestRequests`, `IngestOrders` | `reclaimStale`, the two statements of `ingest` |
| `BeginClaim`, `CommitClaim`, `ClaimNothing` | `claim`: the SELECT ... FOR UPDATE SKIP LOCKED and the UPDATEs hold row locks (`Locked`) until the COMMIT, which alone makes them visible |
| `Lookup` ... `Succeed`, `Catch`, `Observe`, `SucceedOrder`, `NotFound` | the statements of `execute`, in order |
| `Signal`, `RequeueOwn`, `ClosePool`, `Exit` | `shutdown`, which runs beside the loop |
| `Submit`, `Enqueue`, `Erase` | POST /requests and POST /orders, the commercial API's own job, deletion of a customer with its cascade |
| `RowAges`, `Crash` | time, and the host |

Mishaps (`Faults`) are switched on by the configuration and counted: a rejected
statement, a statement whose answer is lost, a crash, SIGTERM, a deletion, a
process slower than `STALE_MS`.  The platform starts a process again when it has
ended: under the same identifier when the environment sets `WORKER_ID` (`Start` from
any place in `Dead`), under a fresh one otherwise (another element of `Workers`).

Left out: what the rows say (payloads, time stamps other than their age and
their order), the intelligence cycle `customerServiceCycle`, which is pure, and
logging.  All jobs have the same `max_attempts` (the code has 3 and 5).

`JobLifecycle` is the abstract specification: the transitions of
`scripts/acorn-durable-job-queue.mjs` (and the worker's requeue) on a table of
jobs.  `LiveWorker!FollowsLifecycle` says that the worker implements it, with the
table as the refinement mapping.

### CommercialOrders, MCCommercialOrders

`CommercialOrders` models the handlers of `live/commercial.mjs` that change
orders, the functions of `scripts/` they call, PostgreSQL under them and Stripe
beside them.  The server handles any number of requests at a time and a handler
gives way at every await, so an action is one SQL statement or one answer of
Stripe.  A webhook is one transaction at READ COMMITTED: its writes take effect
at `Commit`, and before that it holds the lock of the event row it inserted
(`InsertedElsewhere`) and of the order row it updated (`LockedOrder`).

| Model | Code |
|---|---|
| `orders` | table `commercial_orders`: state, offer, kind of `stripe_checkout_id`, the event whose object id is `stripe_payment_intent`, whether `paid_at` is set |
| `events` | `stripe_events.processing_state` (RECEIVED is never visible outside its transaction) |
| `ledger`, `granted` | rows of `economic_ledger` per event, GRANTED rows of `usage_rights` per order |
| `held` | orders `persistAfterPayment` has put on hold for a human |
| `sessions`, `emitted`, `acked` | Stripe's side: sessions it made, events that happened, events answered with 200 |
| `pc`, `subject`, `copy` | a handler's place, what it is about, the order in its memory |
| `Deliver`, `InsertEvent`, `ReadOrder`, `Retain`, `WriteOrder`, `EnqueueJob`, `AbortUnqueued`, `Commit` | `processStripeWebhook`, statement by statement |
| `FindOpenOrder`, `InsertOrder` | POST /orders |
| `BeginCheckout`, `RailAnswers`, `AttachCheckout` | POST /checkout: read, await Stripe, write back |
| `Rollback` | a rejected statement, a lost connection or a killed server |
| `Emit`, redelivery | Stripe: events in any order after a session exists, each until it is acknowledged and possibly again |

An event is a model value with a kind (`Kind`, as `applyStripeEventToLedger`
classifies its type), the order it names (`OrderOf`) and how its amount and
currency compare to the order's (`Amount`).  `OrderOf[e]` is `None` also when the
event lacks the tenant in its metadata, since line 296 reads an order only when
both are there; `createCheckoutSession` puts the metadata on the session, so
whether a payment names its order depends on the account at Stripe, and the
model admits both.

Left out: what a row says beyond that; rows that no decision reads (money
claims, evidence, enterprise events, the PENDING right, VALUE, RENEWAL and
EXPANSION states), which are written in the transactions modelled; the portal,
quotes, invoices, usage, refund and read handlers, which change none of the
modelled state; SQLite, which one connection serialises; answers of 4xx that
change nothing.

### LiveServer, MCLiveServer

`LiveServer` models accounts, sessions and the idempotency keys of
`live/server.mjs`.  A call is an element of `Calls` with a kind, a customer and a
key; a retry is another call with the same key.

| Model | Code |
|---|---|
| `customers`, `session`, `kept` | tables `customers`, `sessions`, `idempotency_keys` |
| `effects` | calls whose writes are committed |
| `pc`, `bearer`, `status`, `answer` | a handler's statement, the token it carries, how it ended, whose answer the client got |
| `CheckEmail`, `Register`, `FindCustomer`, `Login`, `Logout`, `Expire`, `Authenticate` | the account routes, statement by statement, scrypt in between |
| `Lookup`, `Record`, `Keep` | `readIdempotency`, `writeIdempotency`, `sendPersist` |
| `CreateRequest`; `AskRail`, `WriteOrder`, `WriteEvent`; `RunUnkept` | the three shapes of a POST: a transaction; a rail and two statements; a route that answers with `send` and so records nothing |

`blurred` is a history variable: keys whose calls overlapped or whose record was
lost, for which the code promises nothing.  Left out: the rate window, which only
refuses, the pages and the read models.

### Migrations, SchemaPlan, MCMigrations

`Migrations` models the start of a process on PostgreSQL.  An instance creates the
table of records (file 0), reads it, then applies each file it did not see there
and records it.  A file is one simple query, which PostgreSQL commits whole; all
statements of the files say IF NOT EXISTS, so that applying a file again succeeds,
except that two sessions that both found an object missing collide (`LostRace`).
The record of a file somebody else recorded is a duplicate key (`RecordTaken`).
Both make `applyMigrations` throw, the pool close and the process exit (under the
name POSTGRES_UNAVAILABLE, whatever the cause), and the platform start another.
`Release[s]` is the number of files instance `s` was built with; `late` holds
statements of dead processes that the server may still commit.

`SchemaPlan` is the abstract specification: the schema is a version that grows by
one file at a time.  `Migrations!GrowsInOrder` is the refinement, with `schema` as
the mapping.  Left out: SQLite, which has one process (and whose duplicate
columns the code forgives).

### SwarmLease, SwarmKernel, MCSwarmKernel

`SwarmLease` defines the memory of `.github/swarm/lease.mjs` and its operations as
actions on it; `SwarmKernel` is the process that calls them, and `kernel.mjs`'s own
bus.  Hashes and signatures are the terms they cover, so a Merkle root that
repeats the last node of an odd layer collides exactly where the code's does.
`clock`, `life` and `openings` are the clock, the number of losses of the memory
and the history of opened envelopes, each at the time its caller told: `openEnvelope`
reckons an envelope's age at `opts.now`, and only callers who tell none get the
clock's (`Handshake(e, now, ...)`).  Envelopes outlive the memory.  `Forget` is
`resetKernel`, `Heal` is `heal()`, `Restart` a new process, `Alter` somebody who
changes a sealed epoch in memory.

Left out: posts and their weights, telemetry with its WORM chain, the static
inspection, governance footers.  All of these only report.

### SystemBreaker, ConnectorFlux, ConnectionFabric, Membrane

`SystemBreaker` is the mode and who may set it; `ConnectorFlux` what the membrane
remembers, admits and releases; `ConnectionFabric` the connections and the calls
that wait for an adapter (`call`), with what the code does with an answer whatever
happened meanwhile; `Membrane` puts them in one process with Carl (`Command`,
`Recover`, `RestoreFlows`), Acorn (`HardCut`, and `CommandConnectorCut` after its
await) and the callers.  `crossing` records what the last step asked of the world
while a cut stood or the connection was revoked; `inspected` the frames counted
since the memory was emptied, and whether each was admitted; `ordered` that a cut was
ordered and Carl has not reopened since.  `cutExternalFlows` is exported, so that
`CutFlows` cuts the flows in any mode; such a cut stands until Carl restores the flows or
a sweep empties the memory, whichever comes first.

There is no clock in these modules.  A session's expiry, an actor's rate and a session's
life are reckoned at the time of the frame, which callers tell (`at`, `now`), in any
order; a bucket is a set of places in `inspected`, which has their times.  A frame has
one time: `decidePath` reads `input.at` and the rest `observed_at`, which is made of it.

Left out: the texts of frames, beyond the sort that their checks make of them; trust of
domains, checkpoints, detection and reports; an `env` of a caller's own (the mode is the
process's); `resetConnector` from `runConnectorProofLoop`, the same reset as a sweep's
first step, and `resetConnectionFabric`, which forgets connections and adapters too and
is for tests.

### ResourceGovernor, WorkEngine, MCWorkEngine

`ResourceGovernor` is arithmetic on usages; `WorkEngine` a runner that makes runs:
read the file, discover, rank, hold or execute, write the file.  The write is two
steps (`BeginWrite`, `EndWrite`), because `writeFile` truncates first: a death in
between leaves what `readJson` takes for an absent file.  Left out: scores (a fixed
`Priority`), what tasks do, and counters nothing reads.

### CodexWorker, MCCodexWorker

`CodexWorker` is one GitHub job at a time: `Start`, the gate (`GateStops`,
`GatePasses`), then for each task `Select`, `RunCodex`, `Accept`, `RepairCodex` or
`GiveUp`, the tests, `Close`, and at the end `Publish`.  `memory` is the file the last job
that ended saved, `run` the job in progress.  Carl decides on requests, commits
reach main and issues are opened between any two steps.  `Faults` are the calls of
GitHub that may fail, a job that dies, a memory that is lost and a checkout that carries
one.  Whether a delay is over and which independent task scores best are choices.

An event tells its SHA (`run.hint`, CODEX_HEAD_SHA, by which skips and cooldowns are
kept); the checkout may be of a later one (`run.sha`, at which errors of Codex and the
measurement are noted).  The events of a branch start runs in their order, which is what
the workflow's concurrency group gives; re-runs from the user interface are excluded.

The memory a run begins with (`RestoredMemories`) is

- the one the last run saved: the artifact of an earlier run, or the file where the worker
  runs in one place;
- nothing, the fault `amnesia`, when no artifact is found.  As the workflow stands this is
  what happens on GitHub: it uploads `codex-worker-memory.json`
  (`codex-autonomous-worker.yml` 206-214) and `restorePriorMemory` looks for files named
  `worker-memory.json` (280-284);
- after a dispatch, the one the checkout carries, whose skips the workflow has emptied, all
  or those of one task (`ExplicitWake`, lines 81-93).  At this commit
  `evidence/codex/worker-memory.json` is a stub without continuity, which gives way to the
  artifact with its skips intact; the fault `checkout` is a checkout that carries the
  memory itself.

`GivenUpOnce` names these exceptions.  Left out: prompts, providers, the self test, the
workflows' continuation and a dispatch's choice of one task to run.

### Cognition, MCCognition

`Cognition` is one session and the memory that outlives it.  Every function is
synchronous, so an action is a call, in any order a caller may choose; a refused call that
changes nothing is no step, and one that does change something (`CorrectRefused`: a
correction closes the independent round before `reply` may refuse it) is.  `remember()`,
which writes the memory, is exported: `RememberDirectly` writes an entry of any status,
place and disagreement with no session, marked `direct`.  Its content check may refuse the
lesson of a correction or a synthesis that was filed (`Learn`).  Left out: relations, drift
flags, texts, the adapters; a second session, since sessions meet only in MEMORY; shares
and reevaluations of an object that `memory()` did not give; and a body callback that calls
back into the session: `runIndependent` asks whether the round is open before its loop
alone, so that a callback that shares and replies could have an agent after it file as
independent.

The loops over `thinkers()` file a `Lineup`: any agents of the roster, each once, in
its order.  The entries a chain of shares comes from (`Ancestors`) are given as a least
closed set, since a module that is proved about declares no RECURSIVE operator.  The names
`CogInit`, `CogNext`, `CogSpec`, `CogTypeOK` and `cogVars` leave the plain ones to
`SwarmKernel`, with which `Cognition` shares a proof module and no state.

## 3. Runs

| Run | Instance | Shows |
|---|---|---|
| `worker_finish` | 2 processes that are restarted, a request and an enqueued job; errors, crashes, deletion; 3 mishaps, fairness | `HolderOwnsRow`, the refinement `FollowsLifecycle`, `QueuedJobsFinish` |
| `worker_hostile` | 2 processes, a request and an ingested order, every mishap, 2 of them | what survives everything: `AttemptFence`, `EffectsFollowAttempts` |
| `worker_final` | slow processes and rejected statements | **violated**: a slow process takes a finished job back (finding) |
| `orders_overlap` | 2 requests at a time; a payment, one of another amount, a completed checkout, a refund, an unknown event; 1 mishap of any kind | `ApplyInv` (events are applied once), `RightsArePaidFor`, `RowIsExplained` |
| `orders_applied` | 2 requests; a payment, a failure, a payment that names no order; 1 mishap, fairness | `EventsAreApplied` |
| `server_keys` | 2 customers, 8 calls, posts that share a key; 1 error or crash | `StoredAnswersAreTrue`, `OnceInSequence` |
| `migrations_starts` | 3 instances, 2 releases, 3 files, 2 deaths, fairness | `RecordsAreTrue`, `ServesItsRelease`, the refinement `GrowsInOrder`, `EveryInstanceStarts` |
| `kernel_switch` | a lease, an envelope, 2 epochs, 2 signals, 1 loss of the memory, a clock and told times | `TamperingIsSeen`, `ReplayNeedsAmnesia`, `ReplayIsRecent`, `AlarmStopsTraffic`, `ShutUntilForgotten` |
| `membrane_flows` | 1 caller, 1 connection, 1 digest, a condition that cuts, cuts of the flows alone, 2 frames of 2 times | `DataStopsAtTheCut`, `RevokedIsSilent`, `MeasureBeforePromotion`, `AdmissionHolds` |
| `work_budget` | 3 kinds of work, a dear one first, 2 deaths, fairness | `BudgetPerLife`, `NothingAffordableSkipped`, `SignalStops` |
| `codex_runs` | 2 runs by 4 kinds of trigger, 2 tasks that share a file, 2 commits, all mishaps but an unreadable list of requests; fairness | `NoRivalRequests`, `WorkIsKept`, `GivenUpOnce`, `RunsEnd` |
| `cognition_tours` | 3 thinkers, 2 positions, 2 projects, 2 clients, an entry of a caller's own | `IndependentFirst`, `VerdictIsSettled`, `ConsensusIsLocal`, `DissentTravels` |

The comment above a property says what it means for the code.

**Bounds.**

- *Worker.*  `MaxAttempts = 2` is the least number with a retry and a last attempt.
  Two processes show every pairwise interference.  Three mishaps use up the attempts
  of a job and leave one to spare; two are what the finding needs (slow, rejected).
  `Workers` is a symmetry set in `worker_hostile` only; runs with a temporal property use
  none.
- *Orders.*  Two handlers show every pairwise overlap of two transactions, or of a
  transaction and a checkout.  One order is enough for what is checked because handlers
  of different orders share no row.  One mishap is enough for a delivery that fails,
  one whose answer is lost and one whose job is rejected; each is followed by a
  redelivery.
- *Server.*  A key shared by a transaction, a checkout and an unkept route of two
  customers; two registrations of one address; one mishap is one lost record.
- *Migrations.*  Three instances of two releases are what a deployment has for a
  moment; three files give a first, a last and one in between (the repository has
  four for PostgreSQL, which was checked too and only takes longer); two deaths leave
  two late statements.
- *Kernel.*  One envelope and one nonce, since envelopes meet only in the set of nonces; a
  clock of four ticks with a skew of one lets an envelope become stale, postdated ones
  too, and be opened at a time told before that.  Two epochs give a chain, two signals in a ring of one an overflow.
- *Membrane.*  One connection and one session: connections share only the mode, the
  cut and the memory, which the sweep and Carl exercise.  `RateLimit = 1` and a window
  of one tick reach the limit with two frames, dated in either order.
- *Work engine.*  The limits pay for a few tasks, and not for the dear one twice, so that all
  the outcomes of `CanConsume` occur.
- *Codex.*  Two tasks suffice for a rivalry, one repair for a failed one, two runs for
  the memory between runs.
- *Cognition.*  Three filings give a consensus, a majority and, with two, a tie; three
  entries give a chain of two moves, of which a caller may have written one.  `MaxRecords = 5`
  leaves out only states that have both, three filings and three entries.  What a
  caller states of his own entry is a consensus, a dispute of nobody or a dispute with one.

`CHECK_DEADLOCK FALSE` stands where the system may really stop: all jobs finished and no
mishap left, all calls answered, all instances up, all bounds of a memory used.  The work
engine's and the cognition's runs check for deadlock.

**Fairness.**  It is stated where the code's scheduling gives it, and nothing is assumed of
submitters, mishaps, Carl or the outcome of a statement.

- `LiveWorker`: the platform starts worker processes (`render.yaml` declares the service), the
  event loop of a live process goes on, its shutdown handler too, and rows age.
- `CommercialOrders`: a handler's next statement is taken, and Stripe delivers an event
  until it is acknowledged.  That is strong fairness of a redelivery: `Handlers` is a bound of the
  model, the server never refuses a request because others run, so that all handlers being
  busy again and again must not starve an event.
- `Migrations`: the platform restarts a dead process, and a statement waits only for one of
  another instance, which is committed or fails by itself: weak fairness of an
  instance's next step.
- `WorkEngine`: every await of the loop ends, since tasks have a timeout.
- `CodexWorker`: weak fairness of the worker's own steps; its loop has no other wait.

**What the code does not keep.**  Sixteen properties are stated in the modules, next to the
others, that a document, a comment or a test suggests and that the code does not have.  The
first is the violation run above; the others can be seen by adding them to a
configuration of their module.

| Property | What happens | Suggested by |
|---|---|---|
| `LiveWorker!FinishedIsFinal` | outcomes are written by id alone (`worker.mjs` 93, 97) | `docs/acorn-durable-job-queue.md` 3 |
| `LiveWorker!SigtermRequeues` | a claim that commits after the handler's UPDATE (104) stays RUNNING until `STALE_MS` | `docs/acorn-live-worker.md` 3 |
| `CommercialOrders!PaymentStaysObserved` | a checkout writes back the order it read before it awaited Stripe (`commercial.mjs` 561); a late `checkout.session.completed` resets the state too | `commercial.mjs` 529-530 |
| `CommercialOrders!EventIdIdempotent` | only PROCESSED counts as a replay; an IGNORED event is retained at each delivery (266) | `live/README.md` 24 |
| `CommercialOrders!OneOpenOrder` | look-up and INSERT are two transactions and no unique index covers them (466) | `test/acorn-commercial-runtime.test.js` 394 |
| `LiveServer!OneEffectPerKey` | routes that answer with `send` never record their key (325), and overlapping calls both find nothing | `live/README.md` 36 |
| `SwarmKernel!OnlyCarlLifts` | `heal()` empties the memory the kill-switch is kept in (`kernel.mjs` 316) | `lease.mjs` 260 |
| `SwarmKernel!OldStaysShut` | an envelope's age is reckoned at `opts.now` (`lease.mjs` 407-410): a caller who tells a time opens one that is old by the clock | `lease.mjs` 410 |
| `Membrane!OnlyCarlRestores` | a sweep begins with `resetConnector` (`acorn-connection-fabric.mjs` 605), which lifts a cut that was made in mode RUN | `acorn-connector-flux.mjs` 628 |
| `Membrane!NoFloodByTheTimesTold` | a frame dated later empties the bucket (286-293), and more frames of earlier times are admitted | `acorn-connector-flux.mjs` 288 |
| `CodexWorker!SkipsAreKept` | the push of a commit that a scheduled run came to first takes the commit before it for the last one known (`codex-autonomous-worker.mjs` 990), and empties the skips | `test/codex-autonomous-worker.test.js` 919 |
| `Cognition!ConsensusIsEarned` | `remember` takes the status its caller gives (604) | the count of `synthesize` (1073) |
| `Cognition!DisputesNameSomeone` | `remember` takes "disputed" with nobody named | `cognition.mjs` 563 |
| `CodexWorker!ClosedHasWork` | `detectPatch` ignores what was dirty before (361), so that a run without a change counts as PATCHED | `test/codex-autonomous-worker.test.js` 237 |
| `WorkEngine!KeepsWorking` | the usage is carried over and never lowered (`acorn-work-engine.mjs` 352); nobody reads ACORN_BUDGET_WINDOW_MINUTES | `docs/acorn-continuous-optimization.md` 43-53 |
| `Cognition!NoImplicitShare` | `reevaluate` moves an entry to another project without `explicit: true` (672-692) | `cognition.mjs` 620 |

(`Membrane!OffIsTotal`, that nothing at all is asked of adapters under OFF, is stated
too: health, capabilities and authentication still are, and `DataStopsAtTheCut` is what
holds.)

**Other observations.**

- A job whose last allowed attempt crashed is requeued (`worker.mjs` 17) with no attempt
  left and stays QUEUED, since the claim takes only rows with `attempts < max_attempts`
  (29): the second case of `Settled`.
- `checkout.session.completed` stores the id of the session in `stripe_payment_intent`, which
  the refund handler hands to Stripe as a payment intent.  And since a failed statement
  aborts a PostgreSQL transaction, neither the catch block after the INSERT of an event
  (`commercial.mjs` 280-287) nor the one in `enqueueCommercialJob` saves it: `InsertEvent` and
  `AbortUnqueued` end in a rollback, and only redelivery makes up for it.
- A transient failure of the payment rail is recorded under the key of the call and
  replayed to every retry with it.
- Changes of a Codex task whose tests failed are in the worktree when the completed ones are
  published, and `git add -A` takes them along.
- A missing `ACORN_SYSTEM_MODE` is RUN to the membrane (`acorn-connector-flux.mjs` 247) and OFF
  to the breaker (`system-breaker.mjs` 82).
- The priorities of the work engine are the same in every run, so that work behind `MaxTasks`
  rediscovered candidates is never reached; `NothingAffordableSkipped` admits it (`Full`).

## 4. Proofs

`LiveWorkerProofs` proves, for any numbers of processes and jobs, any bounds and
any set of mishaps (from `ConstantsAssumption` alone):

- `TypeCorrect`: `Spec => []TypeOK`.  One lemma per group of actions; a statement
  is shown to keep the types once, for its success, its rejection and its lost
  answer.
- `FenceInvariant`: `Spec => []FenceInv`, and from it `Fenced`:
  `Spec => []AttemptFence`.  `AttemptFence` is not inductive: a commit would break
  it if another claim in flight held the same row.  `FenceInv` adds that a claim in
  flight holds exactly the next attempt of each of its rows, so two of them on one
  row would hold equal records, which the fence forbids; and that a row in a batch
  is never absent, so that no insert resets its attempts.  Most steps are "quiet":
  they leave attempts alone and only shrink batches (`QuietStep`); the two that
  are not, `BeginClaim` and `CommitClaim`, have a lemma each.

It proves further, under `Calm` (`Faults` has neither `slow` nor `sigterm` nor
`lostAnswer`; crashes, rejected statements and deletions stay):

- `OwnershipExclusive`: `Spec => []HolderOwnsRow`.  `OwnInv` adds where a row is while it is
  claimed: a claim in flight is of QUEUED rows, a row in somebody's hands is not due for a
  reclaim, an absent row is blank.  The commit needs the fence once more: two claims in
  flight have disjoint rows, so that no commit takes a row from under another.
- `ImplementsLifecycle`: `Spec => FollowsLifecycle`, the refinement of `JobLifecycle`.  Every
  lemma gives, with `OwnInv'`, that each row makes a step of its life or stays (`Lives`).
  The decision to retry reads the row as it was claimed; by `OwnInv` that copy is the row.

`Calm` is what the code needs: `worker_final` shows the life cycle broken by a slow process.

Last, it proves `EffectsAccounted`: `Spec => []EffectsFollowAttempts`, again under
every mishap.  `EffectsInv` counts (`EffectsCounted`): an attempt is spent when it is in
nobody's hands, or its row is the current one of a process past the INSERT (`Spent`).  By
the fence one process works under an attempt, so an INSERT spends an attempt that was not
spent (`AttemptSpent`), and no step gives one back (`SpentKept`).  `WrittenSoFar` is the
other half: what a place in `execute` says of the tables (`WrittenAt`) stays true until the
request is erased, whatever the other processes write.

`CommercialOrdersProofs` proves, for any numbers of handlers, orders and events
and whatever the events are about (from `ConstantsAssumption` alone):

- `TypeCorrect`: `Spec => []TypeOK`.  It needs `SubjectFits`: what a handler is
  about fits the place it is at.
- `ApplyInvariant`: `Spec => []ApplyInv`, and from it `EventsAppliedOnce`:
  `Spec => []AppliedOnce`.  That an event has one ledger row exactly when it is
  PROCESSED is not inductive: two transactions could both be about to commit it.
  `ApplyInv` adds that at most one is past the INSERT of the event's row and that
  the event is then not applied yet.  Only four actions touch that; all others
  satisfy `NoneEnters`, for which one lemma suffices.
- `RightsPaidFor`: `Spec => []RightsArePaidFor`, by counting: a commit that grants a
  right adds an event to the processed payments, and by `ApplyInv` it was not
  among them.
- `RowsExplained`: `Spec => []RowIsExplained`.  Handlers write rows that they read before
  they waited, so `ExplainedInv` says it of their copies as well (`CopyExplained`): up to
  the write a copy is explained by the processed events, after it by those and the event
  that is about to be committed, and the commit makes the two the same.  A stale copy stays
  explained because events do not cease to be PROCESSED, for which only events of a known
  type may reach `commit` (`Applier`).

`MigrationsProofs` proves, for any instances, releases, number of files and deaths (from
`FilesAssumption` and `ReleaseAssumption`): `TypeCorrect`, `RecordsTrue`,
`StartedHasSchema`, and `ImplementsPlan`, the refinement of `SchemaPlan`.  They rest on
`Inv`, which adds to the types and to `RecordsAreTrue`: the committed files have no gap
(`NoGap`); what an instance knows at each place (`Placed`: the files before the one it is at
are recorded, by others before it read or by itself); and that a statement that outlives
its process was due when it was sent (`Due`).  `GrowsInOrder` is not inductive without `Due`:
a late commit is a step of nobody's program.  Each step then commits nothing, or the
one file that follows a gapless set, which is `Grow`.

`SwarmProofs` proves, for any leases, envelopes, nonces and bounds:

- `OneOpeningPerLife` (`ReplayNeedsAmnesia`) from `Memory`, in which every opening of the
  current life has spent its nonce; `AlarmStops` (`AlarmStopsTraffic`) from `Switch`, in which
  an alarm means that the kill-switch is pulled; and `GatewayStaysShut`
  (`ShutUntilForgotten`), which no strengthening needs.
- `ReplaysRecent` (`ReplayIsRecent`) from `Dated`: every opening was told a time within the skew of
  the one its envelope bears, and an envelope that was opened is not wrapped again, whatever the
  memory forgets.  It speaks of the times told; of the clock only between callers who leave the
  time to the kernel, since `OldStaysShut` does not hold.
- `KernelTypeCorrect` (`TypeOK`) and `TamperingSeen` (`TamperingIsSeen`) from `MemoryOK`.  That
  every altered epoch is seen does not follow from its Merkle root, which may stay the same, but
  from its seal: `Tampering` says that an unaltered chain verifies, and that an altered one has
  an epoch that is no longer what was sealed (`Broken`), which no later epoch mends.  Only
  the equality of roots counts in it, so that no induction over leaves is needed.

and of the cognition, for any roster without repeats, positions, places and bounds (from
`RosterAssumption` and `PlacesAssumption`: the agents are the values of a map, and where there
is no session is not a place), `CognitionTypeCorrect`, `ThoughtApart` (`IndependentFirst`),
`TalkMovesNoVerdict` (`VerdictIsSettled`), `ConsensusStaysHome` (`ConsensusIsLocal`) and
`DissentIsCarried` (`DissentTravels`), all from `CogInv`:

- `RoundIsFirst`: while the round is open there is no synthesis and no filing of another tour.
  Without it a filing could precede an independent one, and a synthesis could be made while
  filings that count are still to come.  Whatever is filed later is `Talked`, and talk changes
  no part of the count (`SameVerdict`).
- `DissentKept`: an entry has what its origin has of disagreement, and a dispute that no caller
  wrote himself has some.  The
  latter is a fact of the count (`DisputeHasMinority`): of two rows one does not lead, as a tie
  goes to the row whose first filing is earlier and no filing is of two rows (`NoTwoLead`).
  Ancestors are then in the closed set of the entries whose disagreement is carried.
- `ConsensusInv`: an entry that says consensus was made from no other, and unless it is a
  caller's own the round is closed for good, so that the filings it rests on stay what they are.

`CodexWorkerProofs` proves, for any tasks, triggers, runs and mishaps: `CodexTypeCorrect`
(`TypeOK`); `CompletedIsKept` (`WorkIsKept`) from `Kept`, what is owed is in the worktree and
completed, or in a request; `TasksGivenUpOnce` (`GivenUpOnce`) from `Remembered`, a task given up
at the SHA of the present event is skipped by the run in progress or by the memory the next one
reads, which then knows no other SHA of main, although it holds the skips of the last run only:
the SHAs of events go up, so those of the past need not be known, and whatever empties a skip
takes its task out of what is promised (`Start`);
and `RequestsAreNoRivals` (`NoRivalRequests`) from `Apart`, no part of the
worktree and of the task in hand shares a file with an open request.  The last takes
as hypotheses that sharing a file is symmetric, and that `"prs"` is not in `Faults`: the worker
takes a refused list of requests for an empty one, and then knows of no rival.

`LiveServerProofs` proves, for any customers, keys, calls and mishaps: `ServerTypeCorrect`
(`TypeOK`); `AnswersAreTrue` (`StoredAnswersAreTrue`) from `RecordsAreOwn`, a record is of a call
under its own key, and `WrittenIsCommitted`; and `OnceUnderAKey` (`OnceInSequence`) from
`OneAtATime`: under a key whose calls did not overlap one call is under way, and only while there
is no record, and a call that took effect is about to be recorded or there is a record.

`MembraneProofs` proves, for any callers, connections, frames and answers of adapters:
`CutStopsData` and `RevocationIsFinal`.  `CrossingInv` adds to the two properties that a cut
that was ordered holds the mode at OFF (`CutHolds`), because every datum asks the mode, and the
cut of the flows, in the step in which it crosses, and that no connection has the number 0, which stands for none.
`MeasuredFirst` (`MeasureBeforePromotion`) rests on `PromotionInv`: what is verified or
measured was found healthy, and so was a connection whose measure still waits for its
capabilities and will succeed (`Promising`); connections are numbered without gaps
(`Gapless`), so that a new one does not take over another's number.

It proves as well `MembraneTypeCorrect` (`TypeOK`) and, for any window and any limit,
`NeitherReplayNorFlood` (`AdmissionHolds`).  What is promised of the rate is about the frames
inspected, in their order (`StillCounted`); what the code asks is the size of a bucket it filters
at each frame.  `AdmissionInv` relates the two: a bucket holds exactly the frames of its actor that
no later one of them left a window behind (`BucketsHold`), in whatever order their times come,
because a filter drops what the frame at hand leaves a window behind and nothing else; and a digest
that was admitted is in the replay guard (`AdmittedIsSeen`).  A sweep empties the guard, the buckets and
the history together (`Emptied`).

`WorkEngineProofs` proves, for all work, costs, limits and moments of death (from
`EngineAssumption` and `LimitsAssumption`): `EngineTypeCorrect` and `BudgetHolds`
(`BudgetPerLife`).  `BudgetInv` adds that what was spent is accounted for, by the deaths and
by the usage of the run in progress or of the file between runs (`Accounted`), and that both
usages stay within the limits (`WithinLimits`).  `NothingSkipped`
(`NothingAffordableSkipped`) rests on `Considered`: until a run ends, ranked work is still to
come, in execution, or settled, and what the budget does not pay for it does not pay for
after another task either (`StaysUnaffordable`).

Only model-checked: the liveness properties (`QueuedJobsFinish`, `EventsAreApplied`,
`EveryInstanceStarts`, `SignalStops`, `RunsEnd`), since fairness is beyond the prover.  Every
other property of the passing runs is stated by a theorem.  Where a least number or a
first index is needed, the proofs take it as the minimum of a set under a well-founded order
(`Least`), which needs no induction over data.

## 5. Plan and limits

Next: `LiveSystem`, the worker and the orders over `acorn_state`, where `persistAfterPayment`
puts a PROJECT on hold and the worker's `UpsertProject` writes the same row; and abstract
specifications, with their refinements proved, of the ledger of events and of an
idempotent call.

Not modelled, and why:

- the claim life cycle, pool and review of `.github/swarm/`: each is one step of a workflow that
  reads files, decides and writes an answer; what is concurrent is git and GitHub;
- the work object (`.github/swarm/fabric*.mjs`): pure values in the hands of one caller.  Reading
  it showed that a blocking objection reopens DONE and REJECTED work although TRANSITIONS makes
  them terminal, and that PROPOSED -> BLOCKED -> WORKING passes by the capability check of READY;
- the continuous runtimes, the cognitive, capability, constitutional and self-build fabrics
  under `scripts/` (most of the lines of the repository): functions from records to records
  with scores in them, imported by no service that runs, with no state between calls;
- `sdk/` and `canal/` (stateless), the enterprise store and the status report (single
  upserts and reads), the rate window and read models of the server, SQLite;
- the site, documents, schemas and packs (data); wording, HTML and JSON layout of answers.
