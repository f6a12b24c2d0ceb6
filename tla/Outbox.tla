------------------------------- MODULE Outbox -------------------------------
(***************************************************************************)
(* The outbox workers (workers/outbox.worker.ts) over the outbox_events    *)
(* table (repositories/outbox.repository.ts), the transactions and the     *)
(* connection pool of database/client.ts.                                  *)
(*                                                                         *)
(* A worker polls the table and starts one transaction per candidate row   *)
(* WITHOUT awaiting it, so the transactions of several polls overlap, and  *)
(* an error inside one is an unhandled rejection that ends the process.    *)
(* markProcessed is called without the transaction's client: its UPDATE    *)
(* runs on a second pool connection and needs the row lock that the        *)
(* transaction itself holds.                                               *)
(***************************************************************************)
EXTENDS Integers, FiniteSets

CONSTANTS
    Workers,      \* the outbox worker processes
    Slots,        \* bound: withTransaction calls of one worker that may be
                  \* open for the same row at once
    NumEvents,    \* rows of outbox_events, numbered in created_at order
    PoolMax,      \* connections of a worker's pool (10 in database/client.ts)
    BatchSize,    \* OUTBOX_BATCH_SIZE
    MaxAttempts,  \* OUTBOX_MAX_ATTEMPTS
    MaxAge,       \* bound: ages are counted up to here
    MaxCrashes    \* bound: how many worker processes may die in a behaviour

ASSUME OutboxAssumption ==
    /\ NumEvents \in Nat
    /\ PoolMax \in Nat \ {0}
    /\ BatchSize \in Nat \ {0}
    /\ MaxAttempts \in Nat \ {0}
    /\ MaxAge \in Nat \ {0}
    /\ MaxCrashes \in Nat

Events == 1 .. NumEvents

\* One un-awaited withTransaction call: <<worker, slot, event>>.
Task == Workers \X Slots \X Events

WorkerOf(t) == t[1]
EventOf(t)  == t[3]

VARIABLES
    status,     \* event -> "none" (no row yet) or the status column
    attempts,   \* event -> the attempts column
    age,        \* event -> time since created_at, in units of BACKOFF_BASE_MS
    up,         \* worker -> is the process running
    pc,         \* task -> where its withTransaction call is
    orphans,    \* events whose UPDATE is still queued in PostgreSQL although
                \* the process that sent it is gone
    adds,       \* event -> how often the queue accepted it (history)
    failures,   \* event -> how often the queue refused it (history)
    crashes     \* how many worker processes have died (history)

vars == <<status, attempts, age, up, pc, orphans, adds, failures, crashes>>
rows == <<status, attempts>>
history == <<adds, failures, crashes>>

PC == {"idle",       \* no such call
       "connect",    \* waiting for a pool connection
       "begun",      \* BEGIN sent, the row not yet locked
       "skipped",    \* row locked by another, or no longer pending
       "giveup",     \* locked; attempts used up
       "backoff",    \* locked; too early
       "dispatch",   \* locked; calling the queue
       "mark",       \* locked; waiting for a second connection
       "update",     \* locked; the UPDATE on the second connection is sent
       "marked"}     \* locked; the UPDATE has returned

Connected == PC \ {"idle", "connect"}        \* holds the transaction's connection
Holding   == Connected \ {"begun", "skipped"} \* holds the row lock

TypeOK ==
    /\ status \in [Events -> {"none", "pending", "processed", "failed"}]
    /\ attempts \in [Events -> Nat]
    /\ age \in [Events -> Nat]
    /\ up \in [Workers -> BOOLEAN]
    /\ pc \in [Task -> PC]
    /\ orphans \subseteq Events
    /\ adds \in [Events -> Nat]
    /\ failures \in [Events -> Nat]
    /\ crashes \in Nat

-----------------------------------------------------------------------------
(* The database: rows, row locks and the pool.                             *)

Pending == {e \in Events : status[e] = "pending"}

\* getPendingBatch: the oldest pending rows, locked or not.
PendingBatch ==
    {e \in Pending : Cardinality({f \in Pending : f < e}) < BatchSize}

\* The row lock of SELECT ... FOR UPDATE, held until the transaction ends.
Locked(e) == \E t \in Task : EventOf(t) = e /\ pc[t] \in Holding

\* Connections of w's pool that are checked out: one for each open
\* transaction, and a second one for each UPDATE that has been sent.
Open(w) == {t \in Task : WorkerOf(t) = w /\ pc[t] \in Connected}
Updating(w) == {t \in Open(w) : pc[t] = "update"}
Used(w) == Cardinality(Open(w)) + Cardinality(Updating(w))

HasConnection(w) == Used(w) < PoolMax

\* attempts * exponential backoff, counted from created_at.
ShouldRetry(e) == age[e] >= 2 ^ attempts[e]

\* lockAndFetchSingle: FOR UPDATE SKIP LOCKED, and the status is read again.
Lockable_LockedToo(e) == status[e] = "pending"
Lockable_StatusNotReread(e) == ~Locked(e)
Lockable(e) == status[e] = "pending" /\ ~Locked(e)

\* What the transaction body does with a row it could lock.
Verdict(e) ==
    IF attempts[e] >= MaxAttempts THEN "giveup"
    ELSE IF ~ShouldRetry(e) THEN "backoff"
    ELSE "dispatch"

-----------------------------------------------------------------------------
Init ==
    /\ status = [e \in Events |-> "none"]
    /\ attempts = [e \in Events |-> 0]
    /\ age = [e \in Events |-> 0]
    /\ up = [w \in Workers |-> TRUE]
    /\ pc = [t \in Task |-> "idle"]
    /\ orphans = {}
    /\ adds = [e \in Events |-> 0]
    /\ failures = [e \in Events |-> 0]
    /\ crashes = 0

\* OutboxRepository.create, in a transaction of the API or the queue worker.
\* Rows may become visible in another order than that of created_at.
Create(e) ==
    /\ status[e] = "none"
    /\ status' = [status EXCEPT ![e] = "pending"]
    /\ UNCHANGED <<attempts, age, up, pc, orphans, history>>

\* BACKOFF_BASE_MS of time passes.
Tick ==
    /\ age' = [e \in Events |->
                  IF status[e] # "none" /\ age[e] < MaxAge
                  THEN age[e] + 1 ELSE age[e]]
    /\ age' # age
    /\ UNCHANGED <<rows, up, pc, orphans, history>>

\* processOutbox: fetch a batch, then call withTransaction for every
\* candidate without awaiting it, although calls of earlier polls may still
\* be open.  The poll itself needs a connection, for a moment.
IdleSlots(w, e) == {i \in Slots : pc[<<w, i, e>>] = "idle"}
FreeSlot(w, e) == CHOOSE i \in IdleSlots(w, e) : TRUE

ProcessOutbox(w) ==
    /\ up[w]
    /\ HasConnection(w)
    /\ \E e \in PendingBatch : IdleSlots(w, e) # {}
    /\ pc' = [t \in Task |->
                IF /\ WorkerOf(t) = w
                   /\ EventOf(t) \in PendingBatch
                   /\ IdleSlots(w, EventOf(t)) # {}
                   /\ t[2] = FreeSlot(w, EventOf(t))
                THEN "connect" ELSE pc[t]]
    /\ UNCHANGED <<rows, age, up, orphans, history>>

\* withTransaction: dbPool.connect() resolves and BEGIN is sent.
Connect(t) ==
    /\ pc[t] = "connect"
    /\ HasConnection(WorkerOf(t))
    /\ pc' = [pc EXCEPT ![t] = "begun"]
    /\ UNCHANGED <<rows, age, up, orphans, history>>

LockAndFetchSingle(t) ==
    /\ pc[t] = "begun"
    /\ pc' = [pc EXCEPT ![t] = IF Lockable(EventOf(t))
                               THEN Verdict(EventOf(t)) ELSE "skipped"]
    /\ UNCHANGED <<rows, age, up, orphans, history>>

\* dispatchEvent: the queue accepts the job (or already has that job id).
DispatchEvent_WithoutAdd(t) ==
    /\ pc[t] = "dispatch"
    /\ pc' = [pc EXCEPT ![t] = "mark"]
    /\ UNCHANGED <<rows, age, up, orphans, history>>

DispatchEvent(t) ==
    /\ pc[t] = "dispatch"
    /\ pc' = [pc EXCEPT ![t] = "mark"]
    /\ adds' = [adds EXCEPT ![EventOf(t)] = @ + 1]
    /\ UNCHANGED <<rows, age, up, orphans, failures, crashes>>

\* markProcessed(event.id): the UPDATE is sent on another connection of the
\* pool, outside the transaction.
MarkProcessed(t) ==
    /\ pc[t] = "mark"
    /\ HasConnection(WorkerOf(t))
    /\ pc' = [pc EXCEPT ![t] = "update"]
    /\ UNCHANGED <<rows, age, up, orphans, history>>

\* PostgreSQL can run an UPDATE of the row only when no transaction holds its
\* lock.  A sender that is still there then goes on to COMMIT.
RowFree_OwnLockIgnored(e) ==
    \A t \in Task : EventOf(t) = e /\ pc[t] \in Holding => pc[t] = "update"
RowFree(e) == ~Locked(e)

RunUpdate(e) ==
    /\ e \in orphans \/ \E t \in Task : EventOf(t) = e /\ pc[t] = "update"
    /\ RowFree(e)
    /\ status' = [status EXCEPT ![e] = "processed"]
    /\ orphans' = orphans \ {e}
    /\ pc' = [t \in Task |-> IF EventOf(t) = e /\ pc[t] = "update"
                             THEN "marked" ELSE pc[t]]
    /\ UNCHANGED <<attempts, age, up, history>>

Commit_NotOnEarlyReturn(t) ==
    /\ pc[t] = "marked"
    /\ pc' = [pc EXCEPT ![t] = "idle"]
    /\ UNCHANGED <<rows, age, up, orphans, history>>

\* COMMIT and client.release().  Only the "giveup" body has written anything
\* in the transaction.
Commit(t) ==
    /\ pc[t] \in {"skipped", "giveup", "backoff", "marked"}
    /\ pc' = [pc EXCEPT ![t] = "idle"]
    /\ status' = IF pc[t] = "giveup"
                 THEN [status EXCEPT ![EventOf(t)] = "failed"] ELSE status
    /\ UNCHANGED <<attempts, age, up, orphans, history>>

-----------------------------------------------------------------------------
(* Process death.  PostgreSQL rolls the transactions of the dead process   *)
(* back; an UPDATE it had sent may still run once the lock is free.        *)

UpdatesOf(w) == {EventOf(t) : t \in {u \in Task : WorkerOf(u) = w /\ pc[u] = "update"}}

Die(w) ==
    /\ up[w]
    /\ crashes < MaxCrashes
    /\ crashes' = crashes + 1
    /\ up' = [up EXCEPT ![w] = FALSE]
    /\ pc' = [t \in Task |-> IF WorkerOf(t) = w THEN "idle" ELSE pc[t]]
    /\ \E survivors \in SUBSET UpdatesOf(w) : orphans' = orphans \cup survivors
    /\ UNCHANGED <<rows, age, adds>>

DispatchError_Caught(t) ==
    /\ pc[t] = "dispatch"
    /\ failures' = [failures EXCEPT ![EventOf(t)] = @ + 1]
    /\ pc' = [pc EXCEPT ![t] = "idle"]
    /\ UNCHANGED <<rows, age, up, orphans, adds, crashes>>

\* Redis answers with an error: dispatchEvent throws, withTransaction rolls
\* back and rethrows, and nobody awaits the promise.
DispatchError(t) ==
    /\ pc[t] = "dispatch"
    /\ failures' = [failures EXCEPT ![EventOf(t)] = @ + 1]
    /\ Die(WorkerOf(t))

\* connectionTimeoutMillis runs out while the pool is exhausted, for the
\* transaction's connection or for the one of markProcessed.
ConnectTimeout(t) ==
    /\ pc[t] \in {"connect", "mark"}
    /\ ~HasConnection(WorkerOf(t))
    /\ Die(WorkerOf(t))
    /\ UNCHANGED failures

\* The process is killed, or an idle pool client reports an error.
Kill(w) == Die(w) /\ UNCHANGED failures

\* restart: unless-stopped.
Restart(w) ==
    /\ ~up[w]
    /\ up' = [up EXCEPT ![w] = TRUE]
    /\ UNCHANGED <<rows, age, pc, orphans, history>>

-----------------------------------------------------------------------------
TaskStep(t) ==
    Connect(t) \/ LockAndFetchSingle(t) \/ DispatchEvent(t) \/ MarkProcessed(t) \/ Commit(t)

Next ==
    \/ \E e \in Events : Create(e) \/ RunUpdate(e)
    \/ Tick
    \/ \E w \in Workers : ProcessOutbox(w)
    \/ \E t \in Task : TaskStep(t)
    \/ \E t \in Task : DispatchError(t) \/ ConnectTimeout(t)
    \/ \E w \in Workers : Kill(w) \/ Restart(w)

Spec == Init /\ [][Next]_vars

\* The poll loop, the event loop, PostgreSQL and the container restart keep
\* going, and the pool serves its callers in the order they came; writers,
\* faults and kills are not obliged to happen.
Fairness ==
    /\ WF_vars(Tick)
    /\ \A w \in Workers : /\ WF_vars(ProcessOutbox(w))
                          /\ WF_vars(Restart(w))
    /\ \A t \in Task : SF_vars(TaskStep(t)) /\ WF_vars(ConnectTimeout(t))
    /\ \A e \in Events : WF_vars(RunUpdate(e))

FairSpec == Spec /\ Fairness

-----------------------------------------------------------------------------
(* Properties.                                                             *)

\* At most one transaction, of any worker and any poll, is past
\* lockAndFetchSingle for an event: two workers, or two overlapping polls of
\* one worker, never dispatch the same event concurrently.
ExclusiveDispatch ==
    \A t, u \in Task :
        EventOf(t) = EventOf(u) /\ pc[t] \in Holding /\ pc[u] \in Holding => t = u

\* An event is marked processed only after the queue has accepted it, also
\* when the UPDATE outlives the process that sent it.
ProcessedWasEnqueued ==
    \A e \in Events : status[e] = "processed" => adds[e] > 0

\* An event is offered to the queue again only because a worker process
\* died: once per life lost, plus once.  A refusal costs a life too, since
\* its error ends the process; OUTBOX_MAX_ATTEMPTS limits nothing.
Offers(e) == adds[e] + failures[e]
OffersNeedCrashes == \A e \in Events : Offers(e) <= crashes + 1

\* As long as no worker dies, no event is ever marked processed: the UPDATE
\* of markProcessed waits for the lock of the transaction that awaits it.
ProcessedOnlyAfterCrash ==
    \A e \in Events : status[e] = "processed" => crashes > 0

\* An event that is processed stays processed and is not enqueued again,
\* although candidates are chosen from a stale, unlocked read.
ProcessedIsFinal ==
    [][\A e \in Events : status[e] = "processed" =>
          status'[e] = "processed" /\ adds'[e] = adds[e]]_vars

\* The pool hands out no more connections than it has, although transactions
\* take their second one while they hold the first.
PoolIsRespected == \A w \in Workers : Used(w) <= PoolMax

\* Nothing but the death of its worker ends a transaction that waits for its
\* own UPDATE, ...
UpdateWaitsForDeath ==
    [][\A t \in Task : pc[t] = "update" => pc'[t] = "update" \/ ~up'[WorkerOf(t)]]_vars

\* ... and once such transactions use the pool up, the worker opens no other
\* one, until it dies.
PoolLost(w) == 2 * Cardinality(Updating(w)) >= PoolMax
PoolIsLostForGood ==
    [][\A w \in Workers : PoolLost(w) =>
          \/ PoolLost(w)' /\ Open(w)' \subseteq Open(w)
          \/ ~up'[w]]_vars

-----------------------------------------------------------------------------
(* The inductive invariant: what the rows, the open transactions, the       *)
(* orphaned UPDATEs and the history have to do with each other.            *)

\* The catch block that counts attempts never runs (the promise is not
\* awaited), so the branch on MAX_ATTEMPTS is never taken, and nothing gets
\* past the UPDATE of markProcessed.
NothingCounted ==
    /\ \A e \in Events : attempts[e] = 0 /\ status[e] # "failed"
    /\ \A t \in Task : pc[t] \notin {"giveup", "marked"}

\* Tasks are started for recorded events, and hold pending ones; what the
\* queue was handed is recorded.
TaskOfRow ==
    /\ \A t \in Task :
          /\ pc[t] # "idle" => status[EventOf(t)] # "none"
          /\ pc[t] \in Holding => status[EventOf(t)] = "pending"
    /\ \A e \in Events : adds[e] > 0 => status[e] # "none"

\* An UPDATE is sent only after the add; what is left of a dead worker, and
\* hence a processed row, shows that it died.
UpdateAfterAdd ==
    /\ \A t \in Task : pc[t] \in {"mark", "update"} => adds[EventOf(t)] > 0
    /\ \A e \in Events :
          e \in orphans \/ status[e] = "processed" => adds[e] > 0 /\ crashes > 0

\* An add that is neither marked nor about to be was lost with a worker, as
\* every refusal is.
Accounted(e) ==
    \/ status[e] = "processed"
    \/ \E t \in Task : EventOf(t) = e /\ pc[t] \in {"mark", "update"}

AddsCounted ==
    \A e \in Events :
        /\ Offers(e) <= crashes + 1
        /\ ~Accounted(e) => Offers(e) <= crashes

\* Each worker has finitely many transactions open, within its pool.
PoolInv ==
    /\ \A w \in Workers : IsFiniteSet(Open(w))
    /\ PoolIsRespected

\* The conjunction that every step preserves.
IInv ==
    /\ TypeOK
    /\ NothingCounted
    /\ TaskOfRow
    /\ ExclusiveDispatch
    /\ UpdateAfterAdd
    /\ AddsCounted

-----------------------------------------------------------------------------
\* All that the polls fetch are rows whose transactions wait for themselves.
BatchIsStuck ==
    /\ Pending # {}
    /\ \A e \in PendingBatch : \E t \in Task : EventOf(t) = e /\ pc[t] = "update"

\* README.md:39, "at-least-once delivery between database and queue": also
\* with a pool that stuck transactions can use up.  The bound on deaths is
\* not what stops the worker.
DeliveredFromSmallPool ==
    \A e \in Events :
        (status[e] = "pending") ~> (adds[e] > 0 \/ crashes = MaxCrashes)

\* The abstract promise, see module OutboxDelivery.
Delivery == INSTANCE OutboxDelivery WITH
    recorded  <- {e \in Events : status[e] # "none"},
    delivered <- {e \in Events : adds[e] > 0},
    acked     <- {e \in Events : status[e] = "processed"}

ImplementsDelivery == Delivery!DeliverySpec

\* Workers that cannot deliver anything before they die: their pool, or the
\* batch of every poll, is used up by transactions that wait for themselves.
StuckWorkers == {w \in Workers : PoolLost(w) \/ BatchIsStuck}
OutboxIsStuck == StuckWorkers = Workers

\* Unless the workers get stuck again and again, every event that was
\* recorded reaches the queue, whatever the polls race with and wherever
\* workers die.
EveryEventDelivered == <>[](~OutboxIsStuck) => Delivery!Delivers
=============================================================================
