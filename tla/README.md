# Verification of the distributed task queue

TLA+ models of the task queue in `src/`, checked with TLC on small instances
and, where it matters most, proved with TLAPS for every value of the
constants. `PROJECT.json` lists runs, mutants, findings, hazards and theorems,
and for every definition the lines it was translated from. All source paths
below are relative to `src/src/`.

To check a run: `tlc -config job_safety.cfg MCJobLifecycle.tla`.
To check the proofs of a component: `tlapm OutboxProofs.tla`, and likewise for
`JobLifecycleProofs`, `JobReportProofs`, `MigrateProofs`, `ShutdownProofs`,
`MetricsProofs` and `RequestsProofs`.

## 1. Inventory

A client creates jobs over HTTP. A job is a row of `jobs`; its creation also
writes a row of `outbox_events` in the same transaction. The *outbox worker*
moves that event to a BullMQ queue in Redis, a *queue worker* executes the job
and reports back to the row, and failed jobs go, again through the outbox, to
the dead letter queue.

```
 client --HTTP--> API --tx--> PostgreSQL: jobs, job_events, outbox_events
                   |                          |  ^                  ^
     cancel:       | remove        poll, lock |  | mark             | un-awaited
     Redis inside  v                          v  |                  | writes
     the tx      BullMQ <------ add ---- outbox worker        queue worker
                   |                                               ^
                   +------------------ take, result ---------------+
```

| Component | State it keeps | Operations | What is hard | Correct when |
|---|---|---|---|---|
| Outbox worker (`workers/outbox.worker.ts`) | open transactions | poll, dispatch, mark, count failures, shutdown | several processes, un-awaited transactions, a second connection, death between add and mark | each event is delivered, by one transaction at a time, marked only after delivery, never again once marked |
| Outbox repository | `outbox_events.status`, `attempts` | create, getPendingBatch, lockAndFetchSingle, markProcessed, markFailedWithAttempts | stale unlocked read, row locks | status only moves forward |
| Database client (`database/client.ts`) | pool of 10 connections | connect, transaction, close | exhaustion, connection timeout, rollback | no connection is held for ever |
| Job service and repositories | `jobs`, `job_events` | create, cancel, onJobActive/Completed/Failed/Stalled, reads | racing cancels, reordered writes, partial failure | the row agrees with what the queue did |
| Queue worker (`workers/queue.worker.ts`) | running jobs, start times | process, event handlers, shutdown | fire-and-forget writes, lost locks, two workers on one job | no result is claimed that the queue did not accept |
| Queue producer (`core/queue/queue.producer.ts`) | - | enqueueJob, enqueueDeadLetter, removeQueuedJob | duplicate adds, defaults, delays | an event is one queue job |
| BullMQ (external) | queue job: state, attempts, stalls, lock | take, finish, retry, stalled check, evict | lock expiry, stalled limit, eviction and deduplication | - |
| Migrations (`database/migrate.ts`) | `schema_migrations`, the schema | up, down | several processes at once, failures on the way | record and schema agree, success means up to date |
| API process (`index.ts`) | sockets | listen, shutdown | closing the pool under running requests | ends within its timeout; exit code 0 means nothing was cut off |
| HTTP API (`api/`) | - | create, get, list, cancel, health | lost commits and answers, dependencies that come and go | answers are true, and every request gets one |
| Redis connection (`core/queue/redis.connection.ts`) | one connection, and the queue objects made from it | use, ping, quit | retries without limit; made anew when it is used after `quit` | - |
| Queue depth metric (`core/metrics/queue.ts`, `core/queue/queue.factory.ts`) | cached counts, refresh time | collect, register | overlapping refreshes, timeouts | counts are no older than promised and never go back |
| Worker metrics (`core/metrics/worker.ts`) | gauge of active jobs, start times | started, completed, failed, stalled | runs without an event, late events | gauge and durations belong to the runs |
| Other metrics, logger, configuration, OpenAPI, processor registry | - | - | nothing reads them back | - |

The hazards, one line of source each, are in `PROJECT.json`, with the
properties that would catch them; the few without a property say why.

## 2. Modules

| Module | What it is |
|---|---|
| `OutboxDelivery` | abstract promise of the outbox: record, deliver (at least once, again until acknowledged), acknowledge |
| `Outbox` | the outbox workers, row locks, connection pool, deaths and restarts |
| `MCOutbox` | instances for TLC |
| `OutboxProofs` | inductive invariant, its consequences, and `Outbox` implements `OutboxDelivery` |
| `JobLifecycle` | one job: row, events, outbox (through `OutboxDelivery`), queue, workers, cancel requests |
| `JobReport` | abstract promise of the `jobs` table: what a reader of a job's row and dead letter event can rely on |
| `JobReportProofs` | `JobLifecycle` implements `JobReport`, and what became of a job that is no longer in the queue |
| `Requests` | requests from parsing to the answer, and a created job until it is taken (outbox through `OutboxDelivery`) |
| `Shutdown` | how an API, queue worker or outbox worker process ends on signals |
| `Migrate` | migration processes over the record and the schema |
| `Metrics` | the two metrics with state: queue depth, and active jobs with durations |
| `MC...` | instances for TLC |
| `...Proofs` | inductive invariants and their consequences |

`Outbox`, `JobLifecycle` and `Requests` meet in `OutboxDelivery`. `Outbox` is
shown to implement it (checked and proved), and the other two use nothing else
about the outbox, so what they show holds with any number of outbox workers.
That events are delivered at all, `Delivers`, is a formula of its own there:
`Outbox` has it as the conclusion of `EveryEventDelivered`, which excepts
workers that stay stuck, and the liveness properties of the other two have it
as their premise. They promise nothing when the outbox is stuck.
`Shutdown` looks at one process of each kind from outside: its tasks are the
requests, jobs and transactions that the other modules describe in detail.

### Outbox

| TLA+ | Code |
|---|---|
| `status`, `attempts` | columns of `outbox_events` |
| `pc[<<w, i, e>>]` | one `withTransaction` call of worker `w` for event `e`; `i` tells calls of different polls apart |
| `ProcessOutbox` | one poll: `getPendingBatch` and a `withTransaction` per candidate, **not awaited** (outbox.worker.ts:136) |
| `Connect`, `Commit` | `dbPool.connect()` and `BEGIN`; `COMMIT` and `release()` |
| `LockAndFetchSingle` | `FOR UPDATE SKIP LOCKED`, the status condition, and the two early returns |
| `DispatchEvent`, `DispatchError` | the queue accepts or refuses; a refusal is an unhandled rejection and ends the process |
| `MarkProcessed`, `RunUpdate` | the UPDATE is sent on a second connection (no client is passed, :179); PostgreSQL runs it when the row is free |
| `ConnectTimeout` | `connectionTimeoutMillis`, also an unhandled rejection |
| `Kill`, `Restart` | process death; `restart: unless-stopped` |
| `orphans` | UPDATEs that PostgreSQL still has from dead processes; they may run later, or not at all |

Abstractions: time is counted in units of BACKOFF_BASE_MS since `created_at`;
events are numbered in `created_at` order but may become visible in any order;
the kinds of event are not told apart, since the worker handles all alike; the
poll's own connection is a guard, as it is returned at once; a kill between the
two is the same as a kill before or after. A Redis command of a process that
dies either ran before the death or never runs.
The `catch` of outbox.worker.ts:190-212 is reached only by errors thrown
synchronously, of which `withTransaction` (an async function) has none; hence
no action counts an attempt, and `NothingCounted` records the consequence: the
branch on OUTBOX_MAX_ATTEMPTS is dead code. The signal handler is in `Shutdown`.

### JobLifecycle

| TLA+ | Code |
|---|---|
| `row`, `log` | `jobs.status` and `attempts`; the statuses for which `job_events` has a row |
| `recorded`, `delivered`, `acked` | the job's outbox events, moved by `OutboxDelivery` |
| `queue` | the BullMQ job: state, attempts made, stalls, lock holder ("waiting" stands for waiting, delayed and prioritized) |
| `running` | which run a worker is executing; it may have lost the lock |
| `pending` | database writes the workers started and did not await |
| `CreateJob` | `createJob`'s transaction |
| `EnqueueJob`, `EnqueueDeadLetter` | the producer's functions, with BullMQ's deduplication by job id |
| `TakeJob`, `ProcessorReturns`, `ProcessorThrows`, `StalledCheck` | the worker's processor and its four event handlers |
| `LockExpires`, `Evict` | BullMQ: `lockDuration`; `removeOnComplete`, `removeOnFail` |
| `OnJobActive` ... `OnJobStalled` | the handlers of `JobService`, each at the moment its transaction (or, for `onJobActive`, each of its two statements) takes effect |
| `WriteFails`, `WorkerDies` | a write fails and is only logged; a process dies, and a lone UPDATE it had sent may still run (`"orphan"`) |
| `CancelCheck` ... `CancelAborts` | `cancelJob`: read, BEGIN and conditional UPDATE, removal from Redis, commit, or failure on the way |

`JobReport` knows neither queue nor workers: its row may lag behind, skip
reports and go back to an earlier attempt (the writes are not awaited), but it
says "completed" only after a success, "retrying" or "dead_letter" only with as
many failures as it claims, an attempt's number is at most one ahead of the
failures, and "dead_letter" comes with its outbox event. `ImplementsReport`
maps it to `row` and `recorded` of `JobLifecycle`.

`faults` and the counters `succeeded`, `failures` are history variables: they
only record what happened. `RowLocked` is the row lock of a cancel's open
transaction; other transactions hold it only within one step.

BullMQ's behaviour is modelled from how the code uses version ^5.71.1: only
the lock holder can finish a job, `remove()` refuses a locked job, a job whose
stalls exceed `maxStalledCount` is taken once more only to be failed, and
`add` with a known job id does nothing. A worker process is given one run of
this job at a time; runs of other jobs (concurrency) do not touch its row.

### Requests

| TLA+ | Code |
|---|---|
| `request` | where each request is, what it asks, and the status code it got (0: connection lost) |
| `Body`, `ValidBody`, `Coerce` | `createJobSchema`; `z.coerce` turns `null` into 0 for `delayMs` and `maxRetries`, not for `runAt` |
| `Send`, `PostOutcome`, `Refused` | body parser, router, `validate`, error handler: a malformed body is no `AppError`, hence 500 |
| `List` | `validate` for the query, whose assignment to `req.query` throws |
| `CreateCommits`, `CreateFails`, `CreateReplies` | `createJob`: the transaction, its failure, and the acknowledgement of COMMIT, which may be lost |
| `GetReplies` | `getJobWithEvents` |
| `PingDatabase`, `PingRedis`, `HealthReplies` | `/health/detailed`; a PING waits while Redis is away and may be refused when it is there (it loads, cannot write, wants a password) |
| `DatabaseFails` | the database goes away, which may end the API process (client.ts:50); `Reset` is what its clients see |
| `RunAtDelay`, `Options`, `EnqueueJob` | `enqueueJob`, on the outbox worker's clock and configuration |
| `TakeJob` | BullMQ promotes and a worker takes the job, on its own clock |

Other fields of a body, ids and queries are only valid or not. `now` is the
clock of API and database, `ahead` the offsets of the other two. An unreachable
database is assumed to make a query fail, not to keep it waiting for ever.

### Shutdown

| TLA+ | Code |
|---|---|
| `role` | which program: `index.ts`, `queue.worker.ts` or `outbox.worker.ts` |
| `st[t]` | one request, job, un-awaited write or outbox transaction: waiting for a connection, in its transaction, between two statements, ... |
| `Asks`, `Serve`, `ConnectTimeout` | pg's pool: `connect()` after `end()` rejects; callers queued at `end()` are not served, they time out |
| `Rejected` | an error of a task: answered, logged, or, in the outbox worker, an unhandled rejection that ends the process |
| `GetQueue`, `GetRedisConnection`, `UseRedis` | the two queue objects and the Redis connection, created when first used; after `quit` the next use connects again, while a queue object keeps the connection it has |
| `Dispatch` | the add, also through a queue object that was created after `quit` |
| `Poll`, `PollReturns` | the outbox loop; a poll under way goes on after the signal |
| `Signal`, `EndsPool`, `WorkerClosed`, `RedisQuits`, `Drained` | the three `shutdown` functions up to `process.exit(0)`; a second `end()` rejects, exit 1 |
| `ForcedExit` | the API's `SHUTDOWN_TIMEOUT` |
| `PoolError` | `dbPool.on('error')`, for connections that are idle |
| `ConnectionBreaks` | a connection that breaks while `withTransaction` has it: neither it nor the pool listens to the error, which is uncaught and ends the process (client.ts:95) |

`stuck` is the transaction of `Outbox` whose UPDATE waits for itself: it holds
two connections for good. `broken` is a history variable: the process was ended
by a connection's error. A connection that breaks in a single statement
(`dbPool.query`) only fails it (`TaskFails`), as pg's pool listens to it there.

### Migrate

| TLA+ | Code |
|---|---|
| `rows`, `at` | `schema_migrations.version`, `applied_at` |
| `schema` | the tables and the column that the three migrations create |
| `Read`, `Latest` | the versions are read once, outside any transaction; `down` takes the latest `applied_at` |
| `Begin`, `Commit`, `Refused` | `applyMigration` and `rollbackMigration`, each one transaction; `NOW()` is the time of BEGIN |
| `CanApply`, `Drops` | which statements are covered by `IF [NOT] EXISTS`, and which are not |
| `Fails` | death, lost connection, or an error PostgreSQL raises for a race |

DDL takes a lock that lasts to the end of its transaction and the record has a
primary key, so conflicting transactions take effect one after the other, and
the model lets a transaction take effect at its COMMIT.

### Metrics

| TLA+ | Code |
|---|---|
| `last`, `cached` | `lastQueueDepthRefreshAt`, `cachedQueueDepths` (a count is represented by the time at which Redis took it) |
| `scrape` | a request for the metrics, in `collect()`: the loop over the queues |
| `Collect` | the interval is tested, and the time set, before anything is awaited |
| `CountsTaken`, `CountsArrive`, `CollectionFails` | `getJobCounts`, its answer, an error or the timeout of `withCollectionTimeout` |
| `gauge`, `startedAt` | `task_queue_worker_active_jobs`, `startedAtByJob` |
| `TakeJob`, `RunEnds`, `OnStalled` | the event handlers; a run without its lock ends without an event |
| `Others`, `LockExpires`, `StalledCheck` | BullMQ and the other workers |

The two halves share nothing but the clock, and a behaviour is about one.
`InOrder` is ioredis: one connection answers in the order of its commands; the
proof that counts never go back needs it.

## 3. Runs

| Run | Instance | Shows |
|---|---|---|
| `outbox_safety` | 2 workers, 2 events, batches of 1, pools of 2, 2 deaths, fairness | exclusive dispatch, marked only after an add, repeated offers only through deaths, final once processed, implements `OutboxDelivery`, every event is delivered unless all workers keep getting stuck |
| `job_safety` | 2 workers, 2 cancels, 2 attempts, 2 runs, dead letter queue off | the invariants under racing workers and cancels; no stranded row without a fault; a delivered job leaves the queue only after an attempt ended or through a cancel; one cancel wins, from a queued row; a status has its event |
| `job_reruns` | 1 worker, 3 runs, 2 attempts, dead letter queue on | implements `JobReport`: the row's changes and dead letters are true claims through stalls, retries, evictions and redelivery; a job given up is dead-lettered unless it stalled or a write was lost |
| `job_settles` | 1 worker, 1 cancel, fairness | if the outbox delivers, a job settles and a dead-lettered job arrives |
| `requests` | 1 creation, 9 kinds of body, 1 other request, 3 ticks, clocks 1 apart, fairness | answers are true, an announced job is found, jobs are not early, the attempts announced are those made, every request ends, an accepted job is taken if the outbox delivers |
| `shutdown` | 3 programs, 4 tasks, pool of 3, 2 signals, fairness | exit code 0 cut nothing off and left no unmarked event, signals interrupt no job, failures need signals or a broken connection, every process ends but an outbox worker with a stuck transaction |
| `migrate` | 3 processes, each up or down, fairness | record and schema agree, success is not reported early, of racing ups one gets through |
| `metrics` | 4 scrapes of 2 queues, interval and timeout 2; 3 runs of 1 job; 5 ticks | load on Redis and staleness are bounded, counts never go back, the gauge is too high by exactly the lost runs, durations belong to their run |

Type correctness is checked as a conjunct of `IInv`, `JInv`, `RInv`, `SInv`,
`MInv` and `DInv`. So are `ProcessedWasEnqueued` (`OutboxDelivery`, which `Outbox` implements, says it too), `TablesMatch`,
`CleanExitCutsNothing`, `FailureHasReason`, `CompletedSucceeded` and `DeadLetterRecorded` (both follow from
`ImplementsReport`, too); each of them has a theorem of its own.

Proved, and in no run of the list: the strengthenings `WInv` (of
`GaugeDriftsUp` and `DurationIsOfThisRun`), `LogInv` (of `StatusLogged`),
`AttemptsCounted` (of `ImplementsReport`), `FinishedOrRemoved` (of
`JobAccounted`), `LeaderLeft` and `PoolInv`; and the properties
`NothingLeftToDeadLetter`, `UpsDoNotGiveUp`, `PoolIsRespected`,
`UpdateWaitsForDeath`, `PoolIsLostForGood` and `ShutdownOnlyDrains`. TLC finds
no violation of any of them in the instances of `job_reruns`, `migrate`,
`outbox_safety`, `outbox_pool` and `shutdown` either.

and the runs that show the code departing from its documentation:

| Run | What TLC finds |
|---|---|
| `outbox_pool` | transactions that wait for themselves fill the pool, and the worker delivers nothing more (README.md of the repository, line 39); that nothing but the worker's death ends this, and every connection stays lost until then, is the theorem `LostPoolStaysLost` |
| `job_completed` | `completed` is overwritten by a late `active` (README.md:834) |
| `job_cancelled` | a cancelled job is executed (services/job.service.ts:170) |
| `requests_list` | a valid `GET /jobs` is answered with 500 (api/docs/jobs.openapi.ts:82) |

### Other disagreements

The models make these visible too, without a run of their own:

- While its worker lives, an enqueued event is never marked processed
  (README.md:171 says it is): `ProcessedOnlyAfterCrash`, proved for every pool
  size. The UPDATE of `markProcessed` waits for the lock of the transaction
  that awaits it.
- OUTBOX_MAX_ATTEMPTS (README.md:498) limits nothing: `NothingCounted` says
  attempts stay 0, and each refusal ends the process (`OffersNeedCrashes`).
- A cancel that removes the job from the queue and then fails to commit leaves
  a queued row, an acknowledged event and no job: the fault `"job"` in
  `StrandedNeedsFault` and `JobSettles`.
- A job that stalled too often is failed by the queue with attempts left, stays
  `retrying` and is not dead-lettered (README.md:179): `Doomed` in
  `GivenUpIsDeadLettered`.
- `/health/detailed` hangs while Redis is away and reports it down only when
  Redis answers with an error: the exception in `EveryRequestEnds`.
- Rows of stuck transactions stay pending and are the oldest, so they fill the
  batch of every poll and keep younger events out, even from workers with free
  connections: `BatchIsStuck`, part of the exception in `EveryEventDelivered`.
- A connection that breaks inside `withTransaction` ends the process, API or
  worker, with all its other work; the handlers that log a failed write
  (queue.worker.ts:133) do not see it. `broken` in `Shutdown` marks such
  behaviours.
- Closing Redis is not final: a health check, or the first use of a queue,
  during a shutdown connects again. Nothing waits for that connection.
- A malformed body is answered with 500, as is a `delayMs` beyond INTEGER; the
  example of README.md:617-625 gives both `delayMs` and `runAt`, which is
  refused; `maxRetries` has two defaults (`AttemptsAsAnnounced`); `cron` is
  stored and never read.
- Beside a rollback, `migrate up` may report success over an incomplete
  schema; `contested` in `Migrate` marks such behaviours.
- An outbox worker told to stop with a stuck transaction never exits by itself:
  the exception in `ShutdownEnds`.

### Bounds

- `Slots`: two open calls per row and worker let polls overlap; a third would
  be skipped by the same lock. `outbox_safety` has one, and the two calls for a
  row belong to two workers, which nothing but the lock tells apart from two
  polls of one. The instance with two slots and one event passes as well, and
  `DispatchIsExclusive` and the other theorems are proved for any number of
  slots. `MaxAge = 1` is enough for `attempts = 0`, which is all
  there is.
- `MaxCrashes = 2`: a duplicate needs one death, a duplicate of a duplicate
  two. `OffersBounded` is proved for any number.
- `PoolMax = 2` stands for 10: one stuck transaction and its UPDATE fill it.
- `NumEvents = 2`, `BatchSize = 1` in `outbox_safety`: the second event is
  behind the first in every batch, and shares the pools with it, so both ways
  of getting stuck occur, also for good once the deaths are used up. In
  `outbox_pool` a batch has room for both events, so what stops the worker
  there is the pool.
- `MaxRuns`: two runs give two workers on one job; three give a stall followed
  by two failures, a doomed job, and an evicted job delivered again.
- `MaxAttempts = 2`: one retry and then the terminal failure. `MaxStalled = 1`
  is BullMQ's default.
- Deadlock is not checked: a job that is finished, or a bounded number of
  deaths used up with stuck transactions left, is a legal end.
- `requests`: one job is enough, as requests for different jobs share only the
  two dependencies. A delay of 2 does not fit `DelayMax = 1`, a `runAt` may be
  past or ahead, `maxRetries` is at and beyond both ends of its range, and both
  defaults occur with `ConfigRetries = 2` (which is not 3). Three ticks let a
  job be created, delayed, and taken with clocks one unit apart.
- `shutdown`: four tasks on three connections, so that a stuck transaction (two
  connections), another one and a waiting task exist at once. Two signals are a
  signal and a repeated one.
- `migrate`: three processes give two ups racing a third, or beside a down;
  longer histories come from processes that start after others have ended.
- `metrics`: four scrapes overlap in more than the three that `LoadIsBounded`
  allows. Five ticks are two intervals and a timeout. Three runs are a run that
  lost its lock, one that was taken again here, and one after it.
- Symmetry is used only in runs without liveness properties.

### Fairness

`Outbox`: polls, connection timeouts, restarts and PostgreSQL's row updates are
weakly fair, since the loop of `start` (outbox.worker.ts:232), the event loop,
the database and Docker's restart policy keep them going. A transaction's steps
are strongly fair, as the pool serves its callers in order: one that finds the
pool full gets a connection in the end if connections come free again and
again. Writers, kills and refusals are not obliged to happen.
`JobLifecycle`: idle workers take jobs and processors end, abandoned locks
expire, the stalled checker runs, and cancel requests proceed; Redis and the
database answer in the end. Lock loss by a live worker, lost writes, deaths and
evictions are unfair. The outbox has no fairness either: that it delivers is
the premise of `JobSettles` and `DeadLettersArrive`, which `Outbox` shows only
unless its workers stay stuck. In `JobSettles` a behaviour may end at the
bound: the queue wants another run after `MaxRuns`.

The database writes of the workers carry no fairness: nothing in the code
obliges them to be applied, so nothing is promised about the row's final
status. `JobSettles` speaks of the queue.

`Requests`: a request that arrived is served, time passes, and a worker takes a
due job while Redis is there. The outbox is not obliged to deliver, nor Redis
to stay or recover: `AcceptedIsTaken` has both as its premise, and
`EveryRequestEnds` excepts a health check without Redis.
`Shutdown`: timers fire, and the tasks of the workers go on, since nothing else
ends a worker: it waits without limit for queries, for Redis' answers to its
commands (`maxRetriesPerRequest: null`) and for the one to QUIT, so
`ShutdownEnds` holds of the workers only as long as those answer. The API's
tasks have no fairness, as its timer is there for requests that hang.
`Migrate`: a running process goes on,
with the transactions PostgreSQL lets through; starts and failures are free.
`Metrics` has no liveness property: `Tick` waits for timeouts instead.

## 4. Proofs

`OutboxProofs`. `IInv` joins the type with four facts that do not follow from
each other: nothing was ever counted or marked past its own UPDATE
(`NothingCounted`), transactions that hold a row hold a pending one
(`TaskOfRow`), at most one transaction holds a row (`ExclusiveDispatch`), and
each add is either marked, about to be, or paid for by a death
(`UpdateAfterAdd`, `AddsCounted`). `ExclusiveDispatch` alone is not enough for
the counting: an UPDATE of a dead worker may mark the row in between, which is
why `Accounted` looks at rows and transactions together. Every step preserves
it (`IInvNext`, one lemma per kind of step), and from it follow all safety
properties of the runs, the action property `ProcessedIsFinal`, and
`Implementation`: each step maps to a step of `OutboxDelivery` or a stutter.
`PoolInv` is a second invariant, about cardinalities: a worker's open
transactions are finitely many and, counted twice when they send their UPDATE,
fit its pool (`PoolIsNotOverdrawn`). Since nothing but death ends an UPDATE
that waits for its own transaction (`UpdatesWaitForDeath`, from
`ProcessedOnlyAfterCrash`'s reason: the row is never free), a pool used up by
such pairs serves nobody any more (`LostPoolStaysLost`), whatever its size.

`JobLifecycleProofs`. `JInv` = type, consistency of the queue job, "what a row
or a write in flight claims, the queue has counted" (`ClaimsCounted`: without
the writes in flight, the properties about rows are not inductive), the order
of first events (`Started`), the exclusion of cancels (`CancelsSerialized`),
and the account of a queued row (`QueuedRowAccounted`). `LogInv` is a second,
smaller invariant for `job_events`. The action property
`CancelledFromQueued` follows from `CancelsSerialized`.

`JobReportProofs`. For the refinement (`RowIsAReport`) a write in flight must
still be true when it is applied, however late: `AttemptsCounted` bounds the
attempt it carries by the failures counted so far, which only grow, and
`ClaimsCounted` does the same for results. Each step of `JobLifecycle` is then
a step of `JobReport` or a stutter, one lemma per kind of step: the handlers
are reports, the workers' steps are what happened, and the steps of queue,
outbox and faults are invisible. `FinishedOrRemoved` carries
`JobsAreAccountedFor` through eviction and redelivery: a finished job was run
to an end before the queue forgot it. From it and `ClaimsCounted` follows
`DeadLettersHaveArrived`, the safety core of `DeadLettersArrive`.

`MigrateProofs`. `MInv` adds to the agreement of record and schema what makes
it inductive: while no rollback is beside another process, `applied_at` grows
with the version (`LatestIsHighest`), so that a rollback takes the highest one;
the list of an "up" process is the rest of the versions, recorded before its
transaction began (`UpList`); a "down" process is alone (`DownList`).
`SuccessMeansUpToDate` is an action property from the same invariant.
`RacingUpsGetThrough` is the safety core of `UpsSucceed`: racing ups refuse
each other's versions, but one of them has a list of just what is missing (it
leads), a commit makes its process the next leader, and only a fault ends a
leader; so when all have ended, the schema is complete (`LeaderLeft`).

`ShutdownProofs`. `SInv` says that only an exit cuts tasks off, that what an
outbox worker added is in its transaction or was cut off with it, and that a
queue worker ends its pool after its jobs. `CleanExitLeavesNoDuplicate`
follows, since at exit code 0 no transaction is open: such an exit exists only
if nothing was added. `FailuresHaveReasons` says what exit code 1 means as long
as no connection broke; with `broken` it means nothing about signals.
`ShutdownsDrain` is the safety core of `ShutdownEnds`: from the pool's end on,
no transaction begins and none takes its second connection, while Redis may be
connected to again. It needs `SInv` for one thing, that the outbox loop has
stopped when its pool is ended.

`MetricsProofs`. `WInv`: a lock held here belongs to a run that is going on,
for its own job, and the gauge is counted by the cardinalities of two sets of
runs. `DInv`: counts under way are never older than those in the cache, which
makes `CountsNeverGoBack` and `RefreshIsReported` properties of single steps
(`UnderWay`). Refreshes begin an interval apart, and each queue takes one a timeout at
most (`Paced`); as the timeout is at most the interval, the refreshes under way
fall into three classes by the age of their start, with one in each, hence
`LoadStaysBounded`. The last two refreshes are in the cache or still on their
way to it (`LastTwoReach`), which with `Paced` gives `StaysOneRefreshBehind`.

`RequestsProofs`. `RInv`: a row has its outbox event and what was asked for
(`RowsAsAsked`), the phase of a request tells what is recorded (`PhasesFit`),
and the due time of a job in the queue is no earlier than asked
(`QueueAsRecorded`); the clocks enter only when a worker takes the job.

Assumptions: `OutboxAssumption`, `JobAssumption`, `RequestsAssumption`,
`ShutdownAssumption`, `MetricsAssumption` and `RunsAreNoHolders`: the ranges of
the configuration values, finitely many runs, and names that differ. The sets
of workers, cancels, requests, tasks, processes and scrapes are arbitrary.

Only model-checked: the liveness properties (`EveryEventDelivered`,
`JobSettles`, `DeadLettersArrive`, `EveryRequestEnds`, `AcceptedIsTaken`,
`ShutdownEnds`, `UpsSucceed`), since fairness and ENABLED are beyond the
prover, of the last two and of `DeadLettersArrive` only the safety cores are
proved; and the violations, which are single behaviours.

## 5. Not modelled

- `listJobs`, `findAll` and pagination: no request reaches them
  (`requests_list`).
- Rate limiter, CORS, helmet, correlation ids, documentation routes: libraries
  around the handlers; a request they turn away never reaches a module. The
  rate limiter also covers `/health`.
- Priority, backoff and `cron`: the first two only order and space out runs,
  which are nondeterministic here; the last is not read by anything.
- Metrics that nothing reads, the logger, configuration parsing, generated
  documents, demonstration processors.
- `closeQueues`, `unregisterQueueDepthCollector`, `getPendingWithLock`: never
  called.
- Order and number of `job_events`, the columns `result`, `error` and the time
  stamps of runs.

## 6. Plan

Done: `OutboxDelivery`, `Outbox`, `JobReport`, `JobLifecycle`, `Requests`,
`Shutdown`, `Migrate`, `Metrics`, each with proofs; every safety property of a
passing run has its theorem.

1. `TaskQueue`: several jobs over `JobLifecycle` and `Outbox`, eviction as a
   consequence of other jobs finishing, worker concurrency, the pool shared by
   un-awaited writes; refines one `JobLifecycle` per job.
2. Order and number of `job_events`, against what the queue did.
3. `JobLifecycle` and `Requests` use `OutboxDelivery` by its actions; the
   theorem that their steps refine its specification.
4. A bound on the connections of a process in `Shutdown`, as in `PoolInv`.
