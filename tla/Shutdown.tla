------------------------------- MODULE Shutdown -------------------------------
(***************************************************************************)
(* How a process of the system ends on SIGTERM or SIGINT: the API server   *)
(* (index.ts), a queue worker (workers/queue.worker.ts) or an outbox       *)
(* worker (workers/outbox.worker.ts), with the work it has under way on    *)
(* the shared connection pool (database/client.ts) and Redis connection    *)
(* (core/queue/redis.connection.ts).                                       *)
(*                                                                         *)
(* A task is a request, a job's execution and the write of its result,     *)
(* another un-awaited write, or the transaction for one outbox event.  The *)
(* pool is node-postgres': after end() connect() rejects, callers already  *)
(* queued are not served any more, and end() resolves when the last client *)
(* is released; a second end() rejects.                                    *)
(***************************************************************************)
EXTENDS Integers, FiniteSets

CONSTANTS
    Tasks,       \* what the process does besides shutting down
    PoolMax,     \* connections in the pool
    MaxSignals   \* bound: signals sent to the process

ASSUME ShutdownAssumption == PoolMax \in Nat \ {0} /\ MaxSignals \in Nat

VARIABLES
    role,      \* which of the three programs the process runs
    signals,   \* signals received
    worker,    \* the BullMQ worker: "open", "closing", "closed"
    ending,    \* has the pool's end() been called
    redis,     \* the Redis connection: "open" (made at its first use),
               \* "quitting", "closed", and "reopened" at a later use
    queue,     \* queue object -> the connection it uses: "none" (not created
               \* yet), the "first" or, if that is closed, a "second" one
    st,        \* task -> where it is
    polling,   \* does the outbox poll hold a connection
    added,     \* tasks whose event is in the queue
    broken,    \* has a connection broken, and its error ended the process
               \* (history)
    exit       \* how it ended: "none" (not yet), code "zero" or "one"

connections == <<redis, queue, broken>>
vars == <<role, signals, worker, ending, connections, st, polling, added, exit>>

Queues == {"main", "dead_letter"}
Waiting == {"waiting", "between"}
Ended == {"done", "failed", "cut", "interrupted", "lost"}

TypeOK ==
    /\ role \in {"api", "queue", "outbox"}
    /\ signals \in 0 .. MaxSignals
    /\ worker \in {"open", "closing", "closed"}
    /\ ending \in BOOLEAN
    /\ redis \in {"open", "quitting", "closed", "reopened"}
    /\ queue \in [Queues -> {"none", "first", "second"}]
    /\ st \in [Tasks -> {"idle", "running", "open", "dispatched", "marking", "stuck"} \cup Waiting \cup Ended]
    /\ polling \in BOOLEAN
    /\ added \subseteq Tasks
    /\ broken \in BOOLEAN
    /\ exit \in {"none", "zero", "one"}

Init ==
    /\ role \in {"api", "queue", "outbox"}
    /\ signals = 0
    /\ worker = "open" /\ ending = FALSE /\ redis = "open"
    /\ queue = [q \in Queues |-> "none"] /\ broken = FALSE
    /\ st = [t \in Tasks |-> "idle"]
    /\ polling = FALSE /\ added = {} /\ exit = "none"

-----------------------------------------------------------------------------
(* The pool and the process.                                               *)

\* Tasks in a transaction, which holds a connection; a stuck one holds two.
InTransaction == {t \in Tasks : st[t] \in {"open", "dispatched", "marking", "stuck"}}
Stuck == {t \in Tasks : st[t] = "stuck"}
Used == Cardinality(InTransaction) + Cardinality(Stuck) + (IF polling THEN 1 ELSE 0)

\* process.exit: PostgreSQL rolls open transactions back, jobs that run will
\* stall, and what waited for a connection is not done.
ProcessExits(code) ==
    /\ exit' = code
    /\ st' = [t \in Tasks |->
                CASE t \in InTransaction -> "cut"
                  [] st[t] = "running" -> "interrupted"
                  [] st[t] \in Waiting -> "lost"
                  [] OTHER -> st[t]]
    /\ polling' = FALSE

\* A task's error: answered or logged, but in the outbox worker, which does
\* not await its transactions, an unhandled rejection.
Rejected(t) ==
    IF role = "outbox" THEN ProcessExits("one")
    ELSE st' = [st EXCEPT ![t] = "failed"] /\ UNCHANGED <<polling, exit>>

\* dbPool.connect(): a caller is queued even when a connection is idle.
Asks(t, queued, served) ==
    IF ending THEN Rejected(t)
    ELSE /\ \E s \in {queued} \cup IF Used < PoolMax THEN {served} ELSE {} :
               st' = [st EXCEPT ![t] = s]
         /\ UNCHANGED <<polling, exit>>

Connect(t) == Asks(t, "waiting", "open")

state == <<role, signals, worker, ending, connections>>

Serve(t) ==
    /\ exit = "none" /\ ~ending /\ Used < PoolMax
    /\ \/ st[t] = "waiting" /\ st' = [st EXCEPT ![t] = "open"]
       \/ st[t] = "marking" /\ st' = [st EXCEPT ![t] = "stuck"]
    /\ UNCHANGED <<state, polling, added, exit>>

\* connectionTimeoutMillis
ConnectTimeout(t) ==
    /\ exit = "none" /\ st[t] \in {"waiting", "marking"}
    /\ Rejected(t)
    /\ UNCHANGED <<state, added>>

\* A connection breaks and its error ends the process.
ConnectionError ==
    /\ broken' = TRUE
    /\ ProcessExits("one")
    /\ UNCHANGED <<role, signals, worker, ending, redis, queue, added>>

\* dbPool.on('error'), for an idle connection.
PoolError == exit = "none" /\ ~ending /\ ConnectionError

\* withTransaction listens to no error of the connection it has, and the pool
\* does not while it is checked out.
ConnectionBreaks(t) == exit = "none" /\ t \in InTransaction /\ ConnectionError

\* getRedisConnection: closed once, the connection is made anew.
GetRedisConnection == redis' = IF redis = "closed" THEN "reopened" ELSE redis

\* getMainQueue, getDeadLetterQueue: the object keeps the connection it was
\* created with.
GetQueue(q) ==
    IF queue[q] # "none" THEN UNCHANGED <<redis, queue>>
    ELSE /\ GetRedisConnection
         /\ queue' = [queue EXCEPT
                ![q] = IF redis \in {"open", "quitting"} THEN "first" ELSE "second"]

-----------------------------------------------------------------------------
(* Tasks.                                                                  *)

\* A request comes in, also on a connection that was open before the signal.
Request(t) ==
    /\ exit = "none" /\ role = "api" /\ st[t] = "idle"
    /\ Connect(t)
    /\ UNCHANGED <<state, added>>

TakeJob(t) ==
    /\ exit = "none" /\ role = "queue" /\ worker = "open" /\ st[t] = "idle"
    /\ st' = [st EXCEPT ![t] = "running"]
    /\ UNCHANGED <<state, polling, added, exit>>

\* The processor ends, and its result is to be written.
FinishJob(t) ==
    /\ exit = "none" /\ st[t] = "running"
    /\ Connect(t)
    /\ UNCHANGED <<state, added>>

\* The "active" and "stalled" handlers.
StartWrite(t) ==
    /\ exit = "none" /\ role = "queue" /\ worker # "closed" /\ st[t] = "idle"
    /\ Connect(t)
    /\ UNCHANGED <<state, added>>

\* COMMIT, or a single statement; a second one asks for a connection again.
Commit(t) ==
    /\ exit = "none" /\ st[t] = "open"
    /\ \E s \in {"done"} \cup IF role # "outbox" THEN {"between"} ELSE {} :
          st' = [st EXCEPT ![t] = s]
    /\ UNCHANGED <<state, polling, added, exit>>

NextStatement(t) ==
    /\ exit = "none" /\ st[t] = "between"
    /\ Connect(t)
    /\ UNCHANGED <<state, added>>

\* A scrape of the queues' depths, a cancel, or the API's health check.
UseRedis ==
    /\ exit = "none"
    /\ \/ \E q \in Queues : GetQueue(q)
       \/ role = "api" /\ GetRedisConnection /\ UNCHANGED queue
    /\ UNCHANGED <<role, signals, worker, ending, broken, st, polling, added, exit>>

\* The database or Redis, which is possibly closed, refuses; a connection
\* breaks in a single statement, whose error the pool passes on.
TaskFails(t) ==
    /\ exit = "none" /\ st[t] \in {"open", "dispatched"}
    /\ Rejected(t)
    /\ UNCHANGED <<state, added>>

\* processOutbox: the loop stops at the next turn; a poll under way goes on
\* and starts a transaction for every row it has read.
Poll ==
    /\ exit = "none" /\ role = "outbox" /\ signals = 0 /\ ~polling
    /\ Used < PoolMax
    /\ polling' = TRUE
    /\ UNCHANGED <<state, st, added, exit>>

PollReturns ==
    /\ exit = "none" /\ polling
    /\ \E rows \in SUBSET {t \in Tasks : st[t] = "idle"} :
          IF ending /\ rows # {} THEN ProcessExits("one")
          ELSE /\ st' = [t \in Tasks |-> IF t \in rows THEN "waiting" ELSE st[t]]
               /\ polling' = FALSE
               /\ UNCHANGED exit
    /\ UNCHANGED <<state, added>>

\* A queue object that was created after QUIT still adds.
Dispatch(t) ==
    /\ exit = "none" /\ role = "outbox" /\ st[t] = "open"
    /\ \E q \in Queues : GetQueue(q) /\ (redis = "open" \/ queue'[q] = "second")
    /\ added' = added \cup {t}
    /\ st' = [st EXCEPT ![t] = "dispatched"]
    /\ UNCHANGED <<role, signals, worker, ending, broken, polling, exit>>

\* markProcessed asks for a second connection; its UPDATE then waits for the
\* row its own transaction has locked.
MarkProcessed_ErrorIgnored(t) ==
    /\ exit = "none" /\ st[t] = "dispatched"
    /\ IF ending THEN st' = [st EXCEPT ![t] = "failed"] /\ UNCHANGED <<polling, exit>>
       ELSE Asks(t, "marking", "stuck")
    /\ UNCHANGED <<state, added>>

MarkProcessed(t) ==
    /\ exit = "none" /\ st[t] = "dispatched"
    /\ Asks(t, "marking", "stuck")
    /\ UNCHANGED <<state, added>>

-----------------------------------------------------------------------------
(* Shutting down.                                                          *)

ClosesBoth ==
    /\ ending' = TRUE
    /\ redis' = IF redis = "open" THEN "quitting" ELSE redis
    /\ UNCHANGED <<st, polling, exit>>

\* A second end() of the pool rejects, and the handler exits with 1.
EndsPool ==
    IF ending THEN ProcessExits("one") /\ UNCHANGED <<ending, redis>> ELSE ClosesBoth

Signal ==
    /\ exit = "none" /\ signals < MaxSignals
    /\ signals' = signals + 1
    /\ CASE role = "api" -> EndsPool /\ UNCHANGED worker
         [] role = "outbox" ->   \* isShuttingDown
              /\ IF signals = 0 THEN ClosesBoth ELSE UNCHANGED <<ending, redis, st, polling, exit>>
              /\ UNCHANGED worker
         [] role = "queue" ->    \* await worker.close()
              IF worker = "closed" THEN EndsPool /\ UNCHANGED worker
              ELSE worker' = "closing" /\ UNCHANGED <<ending, redis, st, polling, exit>>
    /\ UNCHANGED <<role, queue, broken, added>>

\* worker.close() resolves when no job is running, for every call of it.
WorkerClosed_JobsRunning ==
    /\ exit = "none" /\ worker = "closing"
    /\ worker' = "closed"
    /\ IF signals > 1 THEN ProcessExits("one") /\ UNCHANGED <<ending, redis>> ELSE ClosesBoth
    /\ UNCHANGED <<role, signals, queue, broken, added>>

WorkerClosed ==
    /\ exit = "none" /\ worker = "closing"
    /\ \A t \in Tasks : st[t] # "running"
    /\ worker' = "closed"
    /\ IF signals > 1 THEN ProcessExits("one") /\ UNCHANGED <<ending, redis>> ELSE ClosesBoth
    /\ UNCHANGED <<role, signals, queue, broken, added>>

\* QUIT is answered; or its connection breaks first, and the handler exits.
RedisQuits ==
    /\ exit = "none" /\ redis = "quitting"
    /\ \/ /\ redis' = "closed"
          /\ UNCHANGED <<role, signals, worker, ending, queue, broken, st, polling, added, exit>>
       \/ ConnectionError

RedisHasQuit == redis \in {"closed", "reopened"}

\* Pool and Redis are closed, if only to be opened again: exit 0.
Drained_PoolNotAwaited ==
    /\ exit = "none" /\ ending /\ RedisHasQuit
    /\ ProcessExits("zero")
    /\ UNCHANGED <<state, added>>

Drained ==
    /\ exit = "none" /\ ending /\ RedisHasQuit
    /\ InTransaction = {} /\ ~polling
    /\ ProcessExits("zero")
    /\ UNCHANGED <<state, added>>

\* The API's timer of SHUTDOWN_TIMEOUT.
ForcedExit_SecondSignal ==
    /\ exit = "none" /\ role = "api" /\ signals > 1
    /\ ProcessExits("one")
    /\ UNCHANGED <<state, added>>

ForcedExit ==
    /\ exit = "none" /\ role = "api" /\ signals > 0
    /\ ProcessExits("one")
    /\ UNCHANGED <<state, added>>

-----------------------------------------------------------------------------
\* What a task or the pool does next by itself.
TaskGoesOn(t) ==
    \/ FinishJob(t) \/ Commit(t) \/ NextStatement(t) \/ Dispatch(t) \/ MarkProcessed(t)
    \/ Serve(t) \/ ConnectTimeout(t) \/ TaskFails(t)

Next ==
    \/ Signal \/ WorkerClosed \/ RedisQuits \/ Drained \/ ForcedExit
    \/ Poll \/ PollReturns \/ PoolError \/ UseRedis
    \/ \E t \in Tasks :
          Request(t) \/ TakeJob(t) \/ StartWrite(t) \/ TaskGoesOn(t) \/ ConnectionBreaks(t)

Spec == Init /\ [][Next]_vars

\* Timers fire.  The workers rely on jobs, queries and transactions to end,
\* and on Redis to answer them and QUIT, for which they wait without limit;
\* the API, with its timer, does not.
Fairness ==
    /\ WF_vars(ForcedExit) /\ WF_vars(RedisQuits) /\ WF_vars(Drained)
    /\ WF_vars(WorkerClosed) /\ WF_vars(PollReturns)
    /\ \A t \in Tasks : WF_vars(role # "api" /\ TaskGoesOn(t))

FairSpec == Spec /\ Fairness

-----------------------------------------------------------------------------
(* Properties.                                                             *)

\* A process that exits with 0 has cut no transaction off, whatever was
\* waiting for a connection or in Redis when the signal came.
CleanExitCutsNothing == exit = "zero" => \A t \in Tasks : st[t] # "cut"

\* No number of signals ends a queue worker while it executes a job:
\* worker.close() comes first.  Only a connection that breaks does, be it idle
\* or in the transaction of another job's result.
JobsAreNotInterrupted == (\E t \in Tasks : st[t] = "interrupted") => broken

\* An outbox worker that exits with 0 leaves no event behind that is in the
\* queue and will be enqueued again because it was not marked.
CleanExitLeavesNoDuplicate == exit = "zero" => \A t \in added : st[t] = "done"

\* A queue worker that has started reports failure only if a connection broke
\* or it was told twice to stop, the API only if a connection broke or it was
\* told to stop.  A write that is refused ends neither, in whatever order the
\* pool and the connection to Redis go away under it.
FailureHasReason ==
    exit = "one" /\ ~broken => /\ role = "queue" => signals > 1
                               /\ role = "api" => signals > 0

\* From the end of the pool on, a shutdown only drains what uses the database:
\* whatever requests, jobs, polls and signals still come, no transaction
\* begins and none takes its second connection.
ShutdownOnlyDrains ==
    [][ending => /\ ending'
                 /\ InTransaction' \subseteq InTransaction /\ Stuck' \subseteq Stuck
                 /\ polling' => polling]_vars

\* After a signal every process ends, unless an outbox worker's transaction
\* waits for itself; the workers only if Redis and the database answer (see
\* Fairness).
ShutdownEnds == signals > 0 ~> exit # "none" \/ (role = "outbox" /\ Stuck # {})

-----------------------------------------------------------------------------
\* The inductive invariant: only an exit cuts tasks off; what was added is
\* in its transaction, or was cut; the pool of a queue worker ends after
\* its jobs.
SInv ==
    /\ TypeOK
    /\ exit = "none" => \A t \in Tasks : st[t] \notin {"cut", "interrupted", "lost"}
    /\ exit # "none" => InTransaction = {}
    /\ \A t \in Tasks : st[t] = "running" => role = "queue" /\ worker # "closed"
    /\ \A t \in Tasks : st[t] \in {"dispatched", "marking", "stuck"} => role = "outbox"
    /\ added # {} => role = "outbox"
    /\ \A t \in added : st[t] \in {"dispatched", "marking", "stuck", "cut"}
    /\ polling => role = "outbox"
    /\ worker # "open" => signals > 0
    /\ role = "queue" => (ending => worker = "closed")
    /\ role # "queue" => worker = "open" /\ (ending => signals > 0)
    /\ CleanExitCutsNothing
    /\ JobsAreNotInterrupted
    /\ FailureHasReason
=============================================================================
