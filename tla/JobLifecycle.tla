---------------------------- MODULE JobLifecycle ----------------------------
(***************************************************************************)
(* The life of one job: its row in the jobs table (services/job.service.ts *)
(* and the repositories), the job of the same id in the BullMQ queue       *)
(* (external), the queue workers that run it (workers/queue.worker.ts),    *)
(* and the API's cancel requests.  Its outbox events are delivered as      *)
(* module OutboxDelivery promises, which module Outbox implements.         *)
(*                                                                         *)
(* The worker does not await its writes to the database: every one is in   *)
(* flight on a connection of its own, so they may be applied in any order, *)
(* fail without consequence, or be lost with the process.                  *)
(***************************************************************************)
EXTENDS Integers, FiniteSets

CONSTANTS
    Workers,      \* queue worker processes
    Cancels,      \* DELETE /jobs/:id requests for this job
    MaxAttempts,  \* opts.attempts of the queue job: maxRetries + 1
    MaxStalled,   \* BullMQ's maxStalledCount (its default, 1)
    MaxRuns,      \* bound: how often workers take the job
    DeadLetter    \* ENABLE_DEAD_LETTER_QUEUE

ASSUME JobAssumption ==
    /\ MaxAttempts \in Nat \ {0}
    /\ MaxStalled \in Nat
    /\ MaxRuns \in Nat
    /\ DeadLetter \in BOOLEAN

\* Outbox rows of this job, told apart by the run whose failure wrote them.
EnqueueEvent == <<"job.enqueue", 0>>
DeadLetterEvent(r) == <<"job.dead_letter", r>>
OutboxEvents == {EnqueueEvent} \cup {DeadLetterEvent(r) : r \in 1 .. MaxRuns}

Statuses == {"queued", "active", "completed", "retrying", "dead_letter", "cancelled"}

VARIABLES
    row,        \* status and attempts columns of the job's row
    log,        \* statuses for which job_events has a row
    recorded, delivered, acked,   \* the job's outbox events
    queue,      \* the BullMQ job: state, attempts made, stalls, and the run
                \* that holds its lock (0: none)
    inDLQ,      \* is the job in the dead letter queue
    running,    \* worker -> the run it is executing (0: none)
    pending,    \* writes to the database that workers have started
    cancel,     \* request -> where it is in cancelJob
    runs,       \* how often workers have taken the job
    succeeded,  \* did the queue ever accept a result (history)
    failures,   \* how many failures the queue has counted (history)
    faults      \* what has been lost: "write", a worker's write to the
                \* database; "job", the queue job of an aborted cancel (history)

outbox == <<recorded, delivered, acked>>
history == <<succeeded, failures, faults>>
vars == <<row, log, outbox, queue, inDLQ, running, pending, cancel, runs, history>>

Delivery == INSTANCE OutboxDelivery WITH Events <- OutboxEvents

Write == [kind : {"active", "active_event", "orphan", "completed", "failed", "stalled"},
          run : 0 .. MaxRuns, attempts : 0 .. MaxAttempts, by : Workers]

\* The writes that update the job's row, and wait for its lock.
RowWrites == {p \in pending : p.kind \notin {"active_event", "stalled"}}

QueueJob == [state : {"absent", "waiting", "active", "completed", "failed"},
             made : 0 .. MaxAttempts, stalls : Nat, lock : 0 .. MaxRuns]

TypeOK ==
    /\ row \in [status : Statuses \cup {"none"}, attempts : 0 .. MaxAttempts]
    /\ log \subseteq Statuses
    /\ recorded \subseteq OutboxEvents
    /\ delivered \subseteq OutboxEvents
    /\ acked \subseteq OutboxEvents
    /\ queue \in QueueJob
    /\ inDLQ \in BOOLEAN
    /\ running \in [Workers -> 0 .. MaxRuns]
    /\ pending \subseteq Write
    /\ cancel \in [Cancels -> {"none", "checked", "locked", "removed",
                               "done", "conflict", "error"}]
    /\ runs \in 0 .. MaxRuns
    /\ succeeded \in BOOLEAN
    /\ failures \in Nat
    /\ faults \subseteq {"write", "job"}

NoJob == [state |-> "absent", made |-> 0, stalls |-> 0, lock |-> 0]

Init ==
    /\ row = [status |-> "none", attempts |-> 0]
    /\ log = {}
    /\ Delivery!DeliveryInit
    /\ queue = NoJob
    /\ inDLQ = FALSE
    /\ running = [w \in Workers |-> 0]
    /\ pending = {}
    /\ cancel = [c \in Cancels |-> "none"]
    /\ runs = 0
    /\ succeeded = FALSE
    /\ failures = 0
    /\ faults = {}

-----------------------------------------------------------------------------
(* The API and the outbox.                                                 *)

\* createJob: row, event and outbox event in one transaction.
CreateJob ==
    /\ row.status = "none"
    /\ row' = [row EXCEPT !.status = "queued"]
    /\ log' = log \cup {"queued"}
    /\ Delivery!Record(EnqueueEvent)
    /\ UNCHANGED <<queue, inDLQ, running, pending, cancel, runs, history>>

\* enqueueJob, with the job's id as the queue's: nothing happens when the
\* queue still has that job, finished or not.
EnqueueJob_AddDropped ==
    /\ Delivery!Deliver(EnqueueEvent)
    /\ UNCHANGED <<row, log, queue, inDLQ, running, pending, cancel, runs, history>>

EnqueueJob ==
    /\ Delivery!Deliver(EnqueueEvent)
    /\ queue' = IF queue.state = "absent"
                THEN [NoJob EXCEPT !.state = "waiting"] ELSE queue
    /\ UNCHANGED <<row, log, inDLQ, running, pending, cancel, runs, history>>

EnqueueDeadLetter ==
    /\ \E r \in 1 .. MaxRuns : Delivery!Deliver(DeadLetterEvent(r))
    /\ inDLQ' = TRUE
    /\ UNCHANGED <<row, log, queue, running, pending, cancel, runs, history>>

MarkProcessed ==
    /\ \E e \in OutboxEvents : Delivery!Ack(e)
    /\ UNCHANGED <<row, log, queue, inDLQ, running, pending, cancel, runs, history>>

-----------------------------------------------------------------------------
(* BullMQ and the queue workers.                                           *)

NewWrite(kind, r, attempts, w) ==
    [kind |-> kind, run |-> r, attempts |-> attempts, by |-> w]

\* A worker takes the job, which emits "active" and starts onJobActive.
\* The status of the row is not looked at.
TakeJob_OnlyQueued(w) ==
    /\ row.status = "queued"
    /\ queue.state = "waiting"
    /\ running[w] = 0
    /\ runs < MaxRuns
    /\ runs' = runs + 1
    /\ running' = [running EXCEPT ![w] = runs']
    /\ queue' = [queue EXCEPT !.state = "active", !.lock = runs']
    /\ pending' = pending \cup {NewWrite("active", runs', queue.made + 1, w)}
    /\ UNCHANGED <<row, log, outbox, inDLQ, cancel, history>>

TakeJob(w) ==
    /\ queue.state = "waiting"
    /\ running[w] = 0
    /\ runs < MaxRuns
    /\ runs' = runs + 1
    /\ running' = [running EXCEPT ![w] = runs']
    /\ queue' = [queue EXCEPT !.state = "active", !.lock = runs']
    /\ pending' = pending \cup {NewWrite("active", runs', queue.made + 1, w)}
    /\ UNCHANGED <<row, log, outbox, inDLQ, cancel, history>>

HoldsLock(w) == queue.state = "active" /\ queue.lock = running[w]

\* The job has stalled too often: BullMQ fails it without running it.
Doomed == queue.stalls > MaxStalled

\* The processor returns.  "completed" is emitted when the queue accepts the
\* result, which it does only from the holder of the lock.
ProcessorReturns_WrittenAnyway(w) ==
    /\ running[w] # 0
    /\ HoldsLock(w) => ~Doomed
    /\ running' = [running EXCEPT ![w] = 0]
    /\ pending' = pending \cup {NewWrite("completed", running[w], 0, w)}
    /\ IF HoldsLock(w)
       THEN /\ queue' = [queue EXCEPT !.state = "completed", !.lock = 0]
            /\ succeeded' = TRUE
       ELSE UNCHANGED <<queue, succeeded>>
    /\ UNCHANGED <<row, log, outbox, inDLQ, cancel, runs, failures, faults>>

ProcessorReturns(w) ==
    /\ running[w] # 0
    /\ HoldsLock(w) => ~Doomed
    /\ running' = [running EXCEPT ![w] = 0]
    /\ IF HoldsLock(w)
       THEN /\ queue' = [queue EXCEPT !.state = "completed", !.lock = 0]
            /\ pending' = pending \cup {NewWrite("completed", running[w], 0, w)}
            /\ succeeded' = TRUE
       ELSE UNCHANGED <<queue, pending, succeeded>>
    /\ UNCHANGED <<row, log, outbox, inDLQ, cancel, runs, failures, faults>>

\* The processor throws, or the job is doomed.  The queue counts the attempt
\* and retries after a backoff until opts.attempts are used up; "failed" is
\* emitted either way.
ProcessorThrows(w) ==
    /\ running[w] # 0
    /\ running' = [running EXCEPT ![w] = 0]
    /\ IF HoldsLock(w)
       THEN /\ queue' = [queue EXCEPT
                            !.state = IF queue.made + 1 < MaxAttempts /\ ~Doomed
                                      THEN "waiting" ELSE "failed",
                            !.made = @ + 1, !.lock = 0]
            /\ pending' = pending \cup {NewWrite("failed", running[w], queue.made + 1, w)}
            /\ failures' = failures + 1
       ELSE UNCHANGED <<queue, pending, failures>>
    /\ UNCHANGED <<row, log, outbox, inDLQ, cancel, runs, succeeded, faults>>

\* lockDuration passes without a renewal: the worker is dead, or was too
\* busy or cut off to renew and goes on with the job.
LockExpires ==
    /\ queue.lock # 0
    /\ queue' = [queue EXCEPT !.lock = 0]
    /\ UNCHANGED <<row, log, outbox, inDLQ, running, pending, cancel, runs, history>>

\* A worker's stalled checker finds an active job without a lock.
StalledCheck(w) ==
    /\ queue.state = "active"
    /\ queue.lock = 0
    /\ queue' = [queue EXCEPT !.state = "waiting", !.stalls = @ + 1]
    /\ pending' = pending \cup {NewWrite("stalled", runs, 0, w)}
    /\ UNCHANGED <<row, log, outbox, inDLQ, running, cancel, runs, history>>

\* removeOnComplete, removeOnFail: newer finished jobs push this one out.
Evict ==
    /\ queue.state \in {"completed", "failed"}
    /\ queue' = NoJob
    /\ UNCHANGED <<row, log, outbox, inDLQ, running, pending, cancel, runs, history>>

-----------------------------------------------------------------------------
(* The writes of the workers, each applied whenever its connection gets to *)
(* it.  The UPDATEs wait while a cancel request holds the row.             *)

RowLocked == \E c \in Cancels : cancel[c] \in {"locked", "removed"}

\* onJobActive: the UPDATE, then the event, not in one transaction.
OnJobActive(p) ==
    /\ p.kind \in {"active", "orphan"}
    /\ ~RowLocked
    /\ row' = [status |-> "active", attempts |-> p.attempts]
    /\ pending' = (pending \ {p}) \cup
                  (IF p.kind = "active" THEN {[p EXCEPT !.kind = "active_event"]} ELSE {})
    /\ UNCHANGED <<log, outbox>>

OnJobActiveEvent(p) ==
    /\ p.kind = "active_event"
    /\ log' = log \cup {"active"}
    /\ pending' = pending \ {p}
    /\ UNCHANGED <<row, outbox>>

OnJobCompleted_WithoutEvent(p) ==
    /\ p.kind = "completed"
    /\ ~RowLocked
    /\ row' = [row EXCEPT !.status = "completed"]
    /\ pending' = pending \ {p}
    /\ UNCHANGED <<log, outbox>>

OnJobCompleted(p) ==
    /\ p.kind = "completed"
    /\ ~RowLocked
    /\ row' = [row EXCEPT !.status = "completed"]
    /\ log' = log \cup {"completed"}
    /\ pending' = pending \ {p}
    /\ UNCHANGED outbox

\* isTerminal compares the attempts, whatever the queue decided.
IsTerminal_OneEarly(p) == p.attempts + 1 >= MaxAttempts
IsTerminal(p) == p.attempts >= MaxAttempts

OnJobFailed_WithoutOutbox(p) ==
    /\ p.kind = "failed"
    /\ ~RowLocked
    /\ row' = [status |-> IF IsTerminal(p) THEN "dead_letter" ELSE "retrying",
               attempts |-> p.attempts]
    /\ log' = log \cup {row'.status}
    /\ pending' = pending \ {p}
    /\ UNCHANGED outbox

OnJobFailed(p) ==
    /\ p.kind = "failed"
    /\ ~RowLocked
    /\ row' = [status |-> IF IsTerminal(p) THEN "dead_letter" ELSE "retrying",
               attempts |-> p.attempts]
    /\ log' = log \cup {row'.status}
    /\ pending' = pending \ {p}
    /\ IF IsTerminal(p) /\ DeadLetter
       THEN Delivery!Record(DeadLetterEvent(p.run)) ELSE UNCHANGED outbox

OnJobStalled(p) ==
    /\ p.kind = "stalled"
    /\ log' = log \cup {"retrying"}
    /\ pending' = pending \ {p}
    /\ UNCHANGED <<row, outbox>>

ApplyWrite(p) ==
    /\ \/ OnJobActive(p) \/ OnJobActiveEvent(p) \/ OnJobCompleted(p)
       \/ OnJobFailed(p) \/ OnJobStalled(p)
    /\ UNCHANGED <<queue, inDLQ, running, cancel, runs, history>>

\* The database refuses: logged, and that is all.
WriteFails(p) ==
    /\ pending' = pending \ {p}
    /\ faults' = faults \cup {"write"}
    /\ UNCHANGED <<row, log, outbox, queue, inDLQ, running, cancel, runs,
                   succeeded, failures>>

\* A queue worker dies, be it that a connection broke inside
\* withTransaction.  Its transactions are rolled back; a lone UPDATE it had
\* sent may still run.  The queue keeps the job active until it stalls.
WorkerDies(w) ==
    /\ running[w] # 0 \/ \E p \in pending : p.by = w
    /\ running' = [running EXCEPT ![w] = 0]
    /\ \E sent \in SUBSET {p \in pending : p.by = w /\ p.kind = "active"} :
          pending' = {p \in pending : p.by # w \/ p.kind = "orphan"}
                     \cup {[p EXCEPT !.kind = "orphan"] : p \in sent}
    /\ faults' = IF pending' = pending THEN faults ELSE faults \cup {"write"}
    /\ UNCHANGED <<row, log, outbox, queue, inDLQ, cancel, runs, succeeded, failures>>

-----------------------------------------------------------------------------
(* cancelJob.                                                              *)

CancelMoves(c, to) == cancel' = [cancel EXCEPT ![c] = to]
onlyCancel == <<log, outbox, inDLQ, running, pending, runs, succeeded, failures>>

\* getById, outside the transaction.
CancelCheck(c) ==
    /\ cancel[c] = "none"
    /\ row.status # "none"
    /\ CancelMoves(c, IF row.status = "queued" THEN "checked" ELSE "conflict")
    /\ UNCHANGED <<row, queue, faults, onlyCancel>>

\* BEGIN and the conditional UPDATE, which locks the row when it matches.
CancelLock_Unconditional(c) ==
    /\ cancel[c] = "checked"
    /\ ~RowLocked
    /\ CancelMoves(c, "locked")
    /\ UNCHANGED <<row, queue, faults, onlyCancel>>

CancelLock(c) ==
    /\ cancel[c] = "checked"
    /\ ~RowLocked
    /\ CancelMoves(c, IF row.status = "queued" THEN "locked" ELSE "conflict")
    /\ UNCHANGED <<row, queue, faults, onlyCancel>>

\* removeQueuedJob: throws, and rolls back, when a worker holds the job's lock.
CancelRemove(c) ==
    /\ cancel[c] = "locked"
    /\ IF queue.lock # 0
       THEN CancelMoves(c, "error") /\ UNCHANGED queue
       ELSE CancelMoves(c, "removed") /\ queue' = NoJob
    /\ UNCHANGED <<row, faults, onlyCancel>>

\* The event is inserted and the transaction commits.
CancelCommit(c) ==
    /\ cancel[c] = "removed"
    /\ CancelMoves(c, "done")
    /\ row' = [row EXCEPT !.status = "cancelled"]
    /\ log' = log \cup {"cancelled"}
    /\ UNCHANGED <<queue, outbox, inDLQ, running, pending, runs, history>>

\* Redis, the database or the API process fails: rollback, but what was
\* removed from the queue stays removed.
CancelAborts(c) ==
    /\ cancel[c] \in {"locked", "removed"}
    /\ CancelMoves(c, "error")
    /\ faults' = IF cancel[c] = "removed" THEN faults \cup {"job"} ELSE faults
    /\ UNCHANGED <<row, queue, onlyCancel>>

-----------------------------------------------------------------------------
WorkerStep(w) ==
    TakeJob(w) \/ ProcessorReturns(w) \/ ProcessorThrows(w) \/ StalledCheck(w) \/ WorkerDies(w)

CancelStep(c) ==
    CancelCheck(c) \/ CancelLock(c) \/ CancelRemove(c) \/ CancelCommit(c) \/ CancelAborts(c)

Next ==
    \/ CreateJob \/ EnqueueJob \/ EnqueueDeadLetter \/ MarkProcessed
    \/ LockExpires \/ Evict
    \/ \E w \in Workers : WorkerStep(w)
    \/ \E p \in pending : ApplyWrite(p) \/ WriteFails(p)
    \/ \E c \in Cancels : CancelStep(c)

Spec == Init /\ [][Next]_vars

\* No worker is left that could renew the lock.
LockAbandoned == queue.lock # 0 /\ \A w \in Workers : running[w] # queue.lock

\* Live workers and requests go on, BullMQ notices abandoned jobs: Redis and
\* the database answer in the end.  Faults, evictions and slow renewals need
\* not happen, nor need the outbox deliver.
Fairness ==
    /\ WF_vars(LockAbandoned /\ LockExpires)
    /\ \A w \in Workers :
          /\ WF_vars(TakeJob(w))
          /\ WF_vars(ProcessorReturns(w) \/ ProcessorThrows(w))
          /\ WF_vars(StalledCheck(w))
    /\ \A c \in Cancels : WF_vars(CancelStep(c))

FairSpec == Spec /\ Fairness

-----------------------------------------------------------------------------
(* Properties.                                                             *)

\* The row says "completed" only if the queue accepted a result from a
\* worker that held the lock, never because of one that had lost it.
CompletedSucceeded == row.status = "completed" => succeeded

\* A job is dead-lettered, in its row or in the outbox, only after all its
\* attempts failed, however its writes were reordered or lost.
DeadLettersExhausted ==
    row.status = "dead_letter" \/ (\E r \in 1 .. MaxRuns : DeadLetterEvent(r) \in recorded)
        => failures >= MaxAttempts

\* The row never says "dead_letter" without the outbox event that will
\* bring the job to the dead letter queue.
DeadLetterRecorded ==
    DeadLetter /\ row.status = "dead_letter" =>
        \E r \in 1 .. MaxRuns : DeadLetterEvent(r) \in recorded

\* Once everything is written, and nothing was lost, a job the queue has
\* given up is recorded for the dead letter queue, unless the queue gave it
\* up for stalling, with attempts left.
GivenUpIsDeadLettered ==
    queue.state = "failed" /\ pending = {} /\ faults = {} /\ DeadLetter =>
        \/ \E r \in 1 .. MaxRuns : DeadLetterEvent(r) \in recorded
        \/ Doomed

\* A job that was delivered, whose row says "queued" and that the queue does
\* not have, was lost by a failed write or an aborted cancel, or a write or
\* a cancel that will change the row is under way.
StrandedNeedsFault ==
    row.status = "queued" /\ EnqueueEvent \in delivered /\ queue.state = "absent" =>
        \/ faults # {}
        \/ RowWrites # {}
        \/ \E c \in Cancels : cancel[c] = "removed"

\* Whatever its row says: a job that the outbox delivered and the queue does
\* not have was run to an end there, or taken out by a cancel, even if the
\* cancel failed after that.
JobAccounted ==
    EnqueueEvent \in delivered /\ queue.state = "absent" =>
        \/ succeeded \/ failures > 0
        \/ \E c \in Cancels : cancel[c] \in {"removed", "done"}
        \/ "job" \in faults

\* A job whose row says "dead_letter" and whose outbox events are all
\* acknowledged is in the dead letter queue.
NothingLeftToDeadLetter ==
    DeadLetter /\ row.status = "dead_letter" /\ recorded \subseteq acked => inDLQ

\* Of several cancel requests at most one succeeds, ...
OneCancelWins ==
    \A c, d \in Cancels : cancel[c] = "done" /\ cancel[d] = "done" => c = d

\* ... and it takes the row from "queued", although the status was first
\* read outside the transaction and workers write it meanwhile.
CancelledFromQueued ==
    [][row'.status = "cancelled" /\ row.status # "cancelled" => row.status = "queued"]_vars

\* The status of the row has its event in job_events, always if a transaction
\* wrote both; "active" may lack it between the two statements of
\* onJobActive, or for good when the second was lost.
StatusLogged ==
    /\ row.status \notin {"none", "active"} => row.status \in log
    /\ row.status = "active" =>
          \/ "active" \in log
          \/ "write" \in faults
          \/ \E p \in pending : p.kind = "active_event"

\* Its strengthening: an UPDATE whose sender died is a write that was lost
\* in part.
LogInv ==
    /\ StatusLogged
    /\ \A p \in pending : p.kind = "orphan" => "write" \in faults

-----------------------------------------------------------------------------
(* The inductive invariant.                                                *)

\* Attempts stay below the limit while the queue may still run the job; the
\* lock belongs to an active job; failed writes name their run.
QueueConsistent ==
    /\ queue.state \in {"waiting", "active"} => queue.made < MaxAttempts
    /\ queue.lock # 0 => queue.state = "active"
    /\ \A p \in pending : p.kind = "failed" => p.run # 0

\* What a row or a write in flight claims about results and failures, the
\* queue has counted.
ClaimsCounted ==
    /\ CompletedSucceeded
    /\ \A p \in pending : p.kind = "completed" => succeeded
    /\ queue.made <= failures
    /\ \A p \in pending : p.kind = "failed" => p.attempts <= failures
    /\ DeadLettersExhausted
    /\ DeadLetterRecorded

\* Before the delivery there is nothing in the queue, before the first run
\* the job can only be waiting there.
Started ==
    /\ row.status = "none" => EnqueueEvent \notin recorded
    /\ delivered \subseteq recorded
    /\ EnqueueEvent \notin delivered => queue.state = "absent"
    /\ runs = 0 => queue.state \in {"absent", "waiting"}
    /\ runs > 0 => EnqueueEvent \in delivered
    /\ runs = 0 => pending = {}

\* A request past the conditional UPDATE keeps the row "queued", alone; one
\* that is done has ended that for good.
CancelsSerialized ==
    /\ \A c \in Cancels :
          /\ cancel[c] \in {"locked", "removed"} => row.status = "queued"
          /\ cancel[c] = "done" => row.status \notin {"none", "queued"}
    /\ \A c, d \in Cancels :
          cancel[c] \in {"locked", "removed"} /\ cancel[d] \in {"locked", "removed"} => c = d
    /\ OneCancelWins

\* Without a fault, a queued row that was delivered still has something to
\* change it: a write if the job was taken, else the queue or a cancel.
QueuedRowAccounted ==
    row.status = "queued" /\ faults = {} =>
        /\ runs > 0 => RowWrites # {}
        /\ runs = 0 /\ EnqueueEvent \in delivered =>
              queue.state = "waiting" \/ \E c \in Cancels : cancel[c] = "removed"

\* A given-up job has its dead letter event, or the write on its way that
\* will record it.
GivenUpAccounted ==
    queue.state = "failed" /\ faults = {} /\ DeadLetter /\ ~Doomed =>
        \/ \E r \in 1 .. MaxRuns : DeadLetterEvent(r) \in recorded
        \/ \E p \in pending : p.kind = "failed" /\ p.attempts >= MaxAttempts

\* The attempt that a write in flight will report has begun, or has failed.
AttemptsCounted ==
    \A p \in pending :
        /\ p.kind \in {"active", "orphan"} => p.attempts \in 1 .. failures + 1
        /\ p.kind = "failed" => p.attempts \in 1 .. failures

\* A job the queue has finished was run to an end, and what was delivered
\* as a dead letter is there.
FinishedOrRemoved ==
    /\ JobAccounted
    /\ queue.state = "completed" => succeeded
    /\ queue.state = "failed" => failures > 0
    /\ (\E r \in 1 .. MaxRuns : DeadLetterEvent(r) \in delivered) => inDLQ

\* The conjunction that every step preserves.
JInv ==
    /\ TypeOK
    /\ QueueConsistent
    /\ ClaimsCounted
    /\ Started
    /\ CancelsSerialized
    /\ QueuedRowAccounted

-----------------------------------------------------------------------------
(* What readers of the row may rely on.                                    *)

Report == INSTANCE JobReport WITH
    status <- row.status, attempts <- row.attempts,
    deadLettered <- \E r \in 1 .. MaxRuns : DeadLetterEvent(r) \in recorded

\* In whatever order the writes of the workers are applied, and whichever
\* are lost, the row moves only as JobReport allows.
ImplementsReport == Report!ReportSpec

-----------------------------------------------------------------------------
\* An outbox that delivers is a premise of what follows.  Module Outbox shows
\* that it does unless its workers get stuck (EveryEventDelivered), which
\* transactions that wait for themselves can make of them for good.

\* If the outbox delivers, a recorded job is carried through by the workers,
\* whichever of them die, unless it is cancelled or lost by an aborted cancel.
JobSettles ==
    Delivery!Delivers =>
        ((row.status = "queued" /\ runs = 0) ~>
            \/ queue.state \in {"completed", "failed"}
            \/ row.status = "cancelled"
            \/ "job" \in faults
            \/ queue.state = "waiting" /\ runs = MaxRuns)   \* the bound

\* If the outbox delivers, a dead-lettered job reaches the dead letter queue.
DeadLettersArrive ==
    Delivery!Delivers => ((row.status = "dead_letter" /\ DeadLetter) ~> inDLQ)

\* README.md:834, "completed" ends the diagram of job states.
CompletedIsFinal == [][row.status = "completed" => row'.status = "completed"]_vars

\* services/job.service.ts:170, "worker will skip it via status check": a
\* job whose row says "cancelled" is not taken.
CancelledIsSkipped == [][row.status = "cancelled" => runs' = runs]_vars
=============================================================================
