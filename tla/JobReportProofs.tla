-------------------------- MODULE JobReportProofs --------------------------
(***************************************************************************)
(* JobLifecycle implements JobReport, and what becomes of a job that is    *)
(* neither in the queue nor on its way there, for every number of workers, *)
(* cancel requests, attempts, stalls and runs.                             *)
(***************************************************************************)
EXTENDS JobLifecycleProofs

-----------------------------------------------------------------------------
(* What the writes in flight say about attempts.                           *)

LEMMA AttemptsInit == Init => AttemptsCounted
  BY DEF Init, AttemptsCounted

\* A step that forgets no failure and starts no write of these kinds.
LEMMA AttemptsKept ==
  ASSUME TypeOK, AttemptsCounted, failures' = failures,
         \A q \in pending' : q \in pending \/ q.kind \in {"active_event", "completed", "stalled"}
  PROVE  AttemptsCounted'
  BY DEF AttemptsCounted

\* The new writes of the workers: an attempt is reported as begun with one
\* more than the failures the queue counts for the job, as failed with those.
LEMMA AttemptsWorker ==
  ASSUME JInv, AttemptsCounted, NEW w \in Workers, WorkerStep(w)
  PROVE  AttemptsCounted'
<1> USE JobAssumption DEF history
<1>0. TypeOK
  BY DEF JInv
<1>1. queue.made \in Nat /\ failures \in Nat /\ queue.made <= failures
  BY DEF JInv, TypeOK, QueueJob, ClaimsCounted
<1>2. CASE TakeJob(w)
  <2> DEFINE new == NewWrite("active", runs + 1, queue.made + 1, w)
  <2>1. pending' = pending \cup {new} /\ failures' = failures
    BY <1>2 DEF TakeJob
  <2>2. new.kind = "active" /\ new.attempts \in 1 .. failures + 1
    BY <1>1 DEF NewWrite
  <2> QED BY <2>1, <2>2 DEF AttemptsCounted
<1>3. CASE ProcessorReturns(w)
  <2>1. /\ failures' = failures
        /\ pending' = pending \/ pending' = pending \cup {NewWrite("completed", running[w], 0, w)}
    BY <1>3 DEF ProcessorReturns
  <2> QED BY <1>0, <2>1, AttemptsKept DEF NewWrite
<1>4. CASE ProcessorThrows(w)
  <2>1. CASE ~HoldsLock(w)
    BY <1>0, <1>4, <2>1, AttemptsKept DEF ProcessorThrows
  <2>2. CASE HoldsLock(w)
    <3> DEFINE new == NewWrite("failed", running[w], queue.made + 1, w)
    <3>1. pending' = pending \cup {new} /\ failures' = failures + 1
      BY <1>4, <2>2 DEF ProcessorThrows
    <3>2. new.kind = "failed" /\ new.attempts \in 1 .. failures + 1
      BY <1>1 DEF NewWrite
    <3> HIDE DEF new
    <3>3. ASSUME NEW q \in pending
          PROVE  /\ q.kind \in {"active", "orphan"} => q.attempts \in 1 .. failures' + 1
                 /\ q.kind = "failed" => q.attempts \in 1 .. failures'
      BY <1>1, <3>1 DEF AttemptsCounted
    <3> QED BY <1>1, <3>1, <3>2, <3>3 DEF AttemptsCounted
  <2> QED BY <2>1, <2>2
<1>5. CASE StalledCheck(w)
  BY <1>0, <1>5, AttemptsKept DEF StalledCheck, NewWrite
<1>6. CASE WorkerDies(w)
  <2>1. PICK sent \in SUBSET {p \in pending : p.by = w /\ p.kind = "active"} :
           pending' = {p \in pending : p.by # w \/ p.kind = "orphan"}
                      \cup {[p EXCEPT !.kind = "orphan"] : p \in sent}
    BY <1>6 DEF WorkerDies
  <2>2. ASSUME NEW p \in sent
        PROVE  /\ [p EXCEPT !.kind = "orphan"].kind = "orphan"
               /\ [p EXCEPT !.kind = "orphan"].attempts \in 1 .. failures + 1
    BY <1>0 DEF AttemptsCounted, TypeOK, Write
  <2>3. failures' = failures
    BY <1>6 DEF WorkerDies
  <2> QED BY <2>1, <2>2, <2>3 DEF AttemptsCounted
<1> QED BY <1>2, <1>3, <1>4, <1>5, <1>6 DEF WorkerStep

LEMMA AttemptsNext == JInv /\ AttemptsCounted /\ [Next]_vars => AttemptsCounted'
<1> SUFFICES ASSUME JInv, AttemptsCounted, [Next]_vars PROVE AttemptsCounted'
  OBVIOUS
<1>0. TypeOK
  BY DEF JInv
<1>1. CASE CreateJob \/ EnqueueJob \/ EnqueueDeadLetter \/ MarkProcessed \/ LockExpires \/ Evict
  BY <1>0, <1>1, AttemptsKept
     DEF CreateJob, EnqueueJob, EnqueueDeadLetter, MarkProcessed, LockExpires, Evict, history
<1>2. ASSUME NEW p \in pending, ApplyWrite(p) \/ WriteFails(p) PROVE AttemptsCounted'
  <2>1. failures' = failures
    BY <1>2 DEF ApplyWrite, WriteFails, history
  <2>2. \A q \in pending' : q \in pending \/ q = [p EXCEPT !.kind = "active_event"]
    BY <1>2 DEF ApplyWrite, OnJobActive, OnJobActiveEvent, OnJobCompleted, OnJobFailed,
                OnJobStalled, WriteFails
  <2>3. [p EXCEPT !.kind = "active_event"].kind = "active_event"
    BY <1>0 DEF TypeOK, Write
  <2> QED BY <1>0, <2>1, <2>2, <2>3, AttemptsKept
<1>3. ASSUME NEW c \in Cancels, CancelStep(c) PROVE AttemptsCounted'
  BY <1>0, <1>3, AttemptsKept
     DEF CancelStep, CancelCheck, CancelLock, CancelRemove, CancelCommit, CancelAborts,
         onlyCancel, history
<1>4. CASE UNCHANGED vars
  BY <1>0, <1>4, AttemptsKept DEF vars, history
<1> QED BY <1>1, <1>2, <1>3, <1>4, AttemptsWorker DEF Next

LEMMA AttemptsInductive == Spec => []AttemptsCounted
  BY AttemptsInit, AttemptsNext, Inductive, PTL DEF Spec

-----------------------------------------------------------------------------
(* JobLifecycle implements JobReport.                                      *)

LEMMA ReportInitial == Init => Report!ReportInit
  BY DEF Init, Report!ReportInit, Delivery!DeliveryInit

\* What a step has to leave alone to be a stutter of the report.
LEMMA ReportStutter ==
  ASSUME UNCHANGED <<row, recorded, succeeded, failures>>
  PROVE  UNCHANGED Report!reportVars
  BY DEF Report!reportVars, Report!reported, Report!happened

\* A transaction that records no dead letter leaves the report of it alone.
LEMMA DeadLetteredKept ==
  ASSUME recorded' = recorded \/ recorded' = recorded \cup {EnqueueEvent}
  PROVE  (\E r \in 1 .. MaxRuns : DeadLetterEvent(r) \in recorded')
            <=> \E r \in 1 .. MaxRuns : DeadLetterEvent(r) \in recorded
<1>1. \A r \in 1 .. MaxRuns : DeadLetterEvent(r) # EnqueueEvent
  BY DEF DeadLetterEvent, EnqueueEvent
<1> QED BY <1>1

LEMMA ReportsCreate == ASSUME TypeOK, CreateJob PROVE Report!Create
<1>1. /\ row.status = "none" /\ row'.status = "queued" /\ row'.attempts = row.attempts
      /\ UNCHANGED <<succeeded, failures>>
      /\ recorded' = recorded \cup {EnqueueEvent}
  BY DEF CreateJob, TypeOK, history, Delivery!Record
<1> QED BY <1>1, DeadLetteredKept DEF Report!Create, Report!happened

\* What the queue accepts from a worker is what happened to the job.
LEMMA ReportsWorker ==
  ASSUME JInv, NEW w \in Workers, WorkerStep(w)
  PROVE  Report!AttemptSucceeds \/ Report!AttemptFails \/ UNCHANGED Report!reportVars
<1>1. row' = row /\ recorded' = recorded
  BY DEF WorkerStep, TakeJob, ProcessorReturns, ProcessorThrows, StalledCheck, WorkerDies,
         outbox
<1>2. queue.state = "active" => row.status # "none"
  BY DEF JInv, Started, TypeOK, QueueJob
<1>3. \/ UNCHANGED <<succeeded, failures>>
      \/ queue.state = "active" /\ succeeded' = TRUE /\ failures' = failures
      \/ queue.state = "active" /\ failures' = failures + 1 /\ succeeded' = succeeded
  BY DEF WorkerStep, TakeJob, ProcessorReturns, ProcessorThrows, StalledCheck, WorkerDies,
         history, HoldsLock
<1> QED BY <1>1, <1>2, <1>3, ReportStutter
        DEF Report!AttemptSucceeds, Report!AttemptFails, Report!reported

\* The writes of the workers, with what AttemptsCounted and ClaimsCounted
\* say of them.
LEMMA ReportsWrite ==
  ASSUME JInv, AttemptsCounted, NEW p \in pending, ApplyWrite(p)
  PROVE  \/ \E a \in 1 .. MaxAttempts : Report!ReportActive(a) \/ Report!ReportRetrying(a)
         \/ Report!ReportCompleted \/ Report!ReportDeadLetter
         \/ UNCHANGED Report!reportVars
<1> USE JobAssumption
<1>1. TypeOK /\ row.status # "none" /\ p \in Write /\ UNCHANGED <<succeeded, failures>>
  BY RowExists DEF JInv, ApplyWrite, history
<1>2. p.attempts \in 0 .. MaxAttempts /\ failures \in Nat
  BY <1>1 DEF Write, TypeOK
<1>3. CASE OnJobActive(p)
  <2>1. /\ row'.status = "active" /\ row'.attempts = p.attempts /\ recorded' = recorded
        /\ p.attempts \in 1 .. failures + 1
    BY <1>3 DEF OnJobActive, AttemptsCounted, outbox
  <2>2. Report!ReportActive(p.attempts)
    BY <1>1, <1>2, <2>1, DeadLetteredKept DEF Report!ReportActive, Report!happened
  <2> QED BY <1>2, <2>1, <2>2
<1>4. CASE OnJobCompleted(p)
  <2>1. /\ row'.status = "completed" /\ row'.attempts = row.attempts /\ recorded' = recorded
        /\ succeeded
    BY <1>1, <1>4 DEF OnJobCompleted, outbox, JInv, ClaimsCounted, TypeOK
  <2> QED BY <1>1, <2>1, DeadLetteredKept DEF Report!ReportCompleted, Report!happened
<1>5. CASE OnJobFailed(p)
  <2>1. /\ row'.status = IF IsTerminal(p) THEN "dead_letter" ELSE "retrying"
        /\ row'.attempts = p.attempts
        /\ p.attempts \in 1 .. failures
        /\ p.run \in 1 .. MaxRuns
    BY <1>1, <1>5 DEF OnJobFailed, AttemptsCounted, JInv, QueueConsistent, Write
  <2>2. CASE ~IsTerminal(p)
    <3>1. recorded' = recorded
      BY <1>5, <2>2 DEF OnJobFailed, outbox
    <3>2. p.attempts \in 1 .. MaxAttempts - 1
      BY <1>2, <2>1, <2>2 DEF IsTerminal
    <3>3. Report!ReportRetrying(p.attempts)
      BY <1>1, <1>2, <2>1, <2>2, <3>1, <3>2, DeadLetteredKept
         DEF Report!ReportRetrying, Report!happened
    <3> QED BY <1>2, <3>2, <3>3
  <2>3. CASE IsTerminal(p)
    <3>1. row'.status = "dead_letter" /\ row'.attempts = MaxAttempts /\ failures >= MaxAttempts
      BY <1>2, <2>1, <2>3 DEF IsTerminal
    <3>2. (\E r \in 1 .. MaxRuns : DeadLetterEvent(r) \in recorded')
             <=> (\E r \in 1 .. MaxRuns : DeadLetterEvent(r) \in recorded) \/ DeadLetter
      <4>1. CASE DeadLetter
        BY <1>5, <2>1, <2>3, <4>1 DEF OnJobFailed, Delivery!Record
      <4>2. CASE ~DeadLetter
        BY <1>5, <4>2 DEF OnJobFailed, outbox
      <4> QED BY <4>1, <4>2
    <3>3. Report!ReportDeadLetter
      BY <1>1, <3>1, <3>2 DEF Report!ReportDeadLetter, Report!happened
    <3> QED BY <3>3
  <2> QED BY <2>2, <2>3
<1>6. CASE OnJobActiveEvent(p) \/ OnJobStalled(p)
  BY <1>1, <1>6, ReportStutter DEF OnJobActiveEvent, OnJobStalled, outbox
<1> QED BY <1>3, <1>4, <1>5, <1>6 DEF ApplyWrite

LEMMA ReportsCancel ==
  ASSUME JInv, NEW c \in Cancels, CancelStep(c)
  PROVE  Report!Cancel \/ UNCHANGED Report!reportVars
<1>1. CASE CancelCommit(c)
  <2>1. /\ row.status = "queued" /\ row'.status = "cancelled" /\ row'.attempts = row.attempts
        /\ UNCHANGED <<recorded, succeeded, failures>>
    BY <1>1 DEF CancelCommit, JInv, TypeOK, CancelsSerialized, outbox, history
  <2> QED BY <2>1 DEF Report!Cancel, Report!happened
<1>2. CASE ~CancelCommit(c)
  BY <1>2, ReportStutter
     DEF CancelStep, CancelCheck, CancelLock, CancelRemove, CancelAborts, onlyCancel, outbox
<1> QED BY <1>1, <1>2

LEMMA ReportStep ==
  JInv /\ AttemptsCounted /\ [Next]_vars => [Report!ReportNext]_(Report!reportVars)
<1> SUFFICES ASSUME JInv, AttemptsCounted, [Next]_vars
             PROVE  Report!ReportNext \/ UNCHANGED Report!reportVars
  OBVIOUS
<1>1. CASE CreateJob
  BY <1>1, ReportsCreate DEF JInv, Report!ReportNext
<1>2. CASE EnqueueJob \/ EnqueueDeadLetter \/ MarkProcessed \/ LockExpires \/ Evict \/ UNCHANGED vars
  BY <1>2, ReportStutter
     DEF EnqueueJob, EnqueueDeadLetter, MarkProcessed, LockExpires, Evict, vars, history, outbox,
         Delivery!Deliver, Delivery!Ack
<1>3. ASSUME NEW w \in Workers, WorkerStep(w)
      PROVE  Report!ReportNext \/ UNCHANGED Report!reportVars
  BY <1>3, ReportsWorker DEF Report!ReportNext
<1>4. ASSUME NEW p \in pending, ApplyWrite(p)
      PROVE  Report!ReportNext \/ UNCHANGED Report!reportVars
  BY <1>4, ReportsWrite DEF Report!ReportNext
<1>5. ASSUME NEW p \in pending, WriteFails(p) PROVE UNCHANGED Report!reportVars
  BY <1>5, ReportStutter DEF WriteFails, outbox
<1>6. ASSUME NEW c \in Cancels, CancelStep(c)
      PROVE  Report!ReportNext \/ UNCHANGED Report!reportVars
  BY <1>6, ReportsCancel DEF Report!ReportNext
<1> QED BY <1>1, <1>2, <1>3, <1>4, <1>5, <1>6 DEF Next

\* The row reports only attempts that began, failures and results that the
\* queue counted, a dead letter with its event, and a cancel of a job that
\* was still queued; it never goes back to "queued"
\* (services/job.service.ts:112-263).
THEOREM RowIsAReport == Spec => ImplementsReport
  BY ReportInitial, ReportStep, Inductive, AttemptsInductive, PTL
     DEF Spec, ImplementsReport, Report!ReportSpec

-----------------------------------------------------------------------------
(* What becomes of a job that the queue does not have.                     *)

LEMMA FinishedInit == Init => FinishedOrRemoved
  BY DEF Init, FinishedOrRemoved, JobAccounted, NoJob, Delivery!DeliveryInit

\* A step that neither touches the queue, the outbox and the cancel requests
\* nor takes back what happened.
LEMMA FinishedKept ==
  ASSUME FinishedOrRemoved, UNCHANGED <<queue, delivered, inDLQ, cancel, succeeded, failures>>,
         faults \subseteq faults'
  PROVE  FinishedOrRemoved'
  BY DEF FinishedOrRemoved, JobAccounted

LEMMA FinishedOutbox ==
  ASSUME JInv, FinishedOrRemoved, EnqueueJob \/ EnqueueDeadLetter \/ MarkProcessed
  PROVE  FinishedOrRemoved'
<1>1. CASE EnqueueJob
  <2>1. /\ delivered' = delivered \cup {EnqueueEvent}
        /\ queue'.state # "absent" /\ (queue' = queue \/ queue'.state = "waiting")
        /\ UNCHANGED <<inDLQ, succeeded, failures>>
    BY <1>1 DEF EnqueueJob, Delivery!Deliver, NoJob, history
  <2>2. \A r \in 1 .. MaxRuns : DeadLetterEvent(r) # EnqueueEvent
    BY DEF DeadLetterEvent, EnqueueEvent
  <2> QED BY <2>1, <2>2 DEF FinishedOrRemoved, JobAccounted
<1>2. CASE EnqueueDeadLetter
  <2>1. \A r \in 1 .. MaxRuns : DeadLetterEvent(r) # EnqueueEvent
    BY DEF DeadLetterEvent, EnqueueEvent
  <2>2. /\ inDLQ' = TRUE /\ UNCHANGED <<queue, cancel, succeeded, failures, faults>>
        /\ EnqueueEvent \in delivered' => EnqueueEvent \in delivered
    BY <1>2, <2>1 DEF EnqueueDeadLetter, Delivery!Deliver, history
  <2> QED BY <2>2 DEF FinishedOrRemoved, JobAccounted
<1>3. CASE MarkProcessed
  BY <1>3, FinishedKept DEF MarkProcessed, Delivery!Ack, history
<1> QED BY <1>1, <1>2, <1>3

\* The queue: finished jobs had a result or a failure when they finished.
LEMMA FinishedQueue ==
  ASSUME JInv, FinishedOrRemoved,
         LockExpires \/ Evict \/ \E w \in Workers : WorkerStep(w)
  PROVE  FinishedOrRemoved'
<1>0. TypeOK
  BY DEF JInv
<1>1. /\ UNCHANGED <<delivered, inDLQ, cancel>> /\ faults \subseteq faults'
      /\ succeeded => succeeded'
      /\ failures > 0 => failures' > 0
  <2>1. failures \in Nat
    BY <1>0 DEF TypeOK
  <2> QED BY <2>1 DEF LockExpires, Evict, WorkerStep, TakeJob, ProcessorReturns, ProcessorThrows,
                      StalledCheck, WorkerDies, outbox, history
<1>2. /\ queue'.state = "completed" => succeeded'
      /\ queue'.state = "failed" => failures' > 0
      /\ queue'.state = "absent" => queue.state = "absent" \/ succeeded' \/ failures' > 0
  <2>1. CASE queue' = queue
    BY <1>1, <2>1 DEF FinishedOrRemoved
  <2>2. CASE LockExpires
    BY <1>0, <1>1, <2>2 DEF LockExpires, FinishedOrRemoved, TypeOK, QueueJob
  <2>3. CASE Evict
    BY <1>1, <2>3 DEF Evict, FinishedOrRemoved, NoJob
  <2>4. ASSUME NEW w \in Workers, TakeJob(w) \/ StalledCheck(w)
        PROVE  queue'.state \in {"active", "waiting"}
    BY <1>0, <2>4 DEF TakeJob, StalledCheck, TypeOK, QueueJob
  <2>5. ASSUME NEW w \in Workers, ProcessorReturns(w), queue' # queue
        PROVE  queue'.state = "completed" /\ succeeded'
    BY <1>0, <2>5 DEF ProcessorReturns, TypeOK, QueueJob
  <2>6. ASSUME NEW w \in Workers, ProcessorThrows(w), queue' # queue
        PROVE  queue'.state \in {"waiting", "failed"} /\ failures' > 0
    <3>1. /\ failures' = failures + 1 /\ failures \in Nat
          /\ queue' = [queue EXCEPT
                          !.state = IF queue.made + 1 < MaxAttempts /\ ~Doomed
                                    THEN "waiting" ELSE "failed",
                          !.made = queue.made + 1, !.lock = 0]
      BY <1>0, <2>6 DEF ProcessorThrows, TypeOK
    <3>2. queue'.state \in {"waiting", "failed"}
      BY <1>0, <3>1 DEF TypeOK, QueueJob
    <3> QED BY <3>1, <3>2
  <2>7. ASSUME NEW w \in Workers, WorkerDies(w) PROVE queue' = queue
    BY <2>7 DEF WorkerDies
  <2> QED BY <2>1, <2>2, <2>3, <2>4, <2>5, <2>6, <2>7 DEF WorkerStep
<1> QED BY <1>1, <1>2 DEF FinishedOrRemoved, JobAccounted

\* A cancel that takes the job out of the queue succeeds, or fails and is
\* the fault.
LEMMA FinishedCancel ==
  ASSUME JInv, FinishedOrRemoved, NEW c \in Cancels, CancelStep(c)
  PROVE  FinishedOrRemoved'
<1>0. TypeOK
  BY DEF JInv
<1>1. UNCHANGED <<delivered, inDLQ, succeeded, failures>> /\ faults \subseteq faults'
  BY DEF CancelStep, CancelCheck, CancelLock, CancelRemove, CancelCommit, CancelAborts,
         onlyCancel, outbox, history
<1>2. PICK to \in {"checked", "locked", "removed", "done", "conflict", "error"} :
         cancel' = [cancel EXCEPT ![c] = to]
  BY DEF CancelStep, CancelCheck, CancelLock, CancelRemove, CancelCommit, CancelAborts,
         CancelMoves
<1>3. cancel'[c] = to /\ \A d \in Cancels \ {c} : cancel'[d] = cancel[d]
  BY <1>0, <1>2 DEF TypeOK
<1>4. /\ queue' = queue \/ (queue' = NoJob /\ to = "removed")
      /\ cancel[c] \in {"removed", "done"} => to \in {"removed", "done"} \/ "job" \in faults'
  <2>1. CASE CancelCheck(c) \/ CancelLock(c)
    BY <2>1 DEF CancelCheck, CancelLock, onlyCancel
  <2>2. CASE CancelRemove(c)
    <3>1. cancel[c] = "locked"
      BY <2>2 DEF CancelRemove
    <3>2. queue' = queue \/ (queue' = NoJob /\ cancel' = [cancel EXCEPT ![c] = "removed"])
      BY <2>2 DEF CancelRemove, CancelMoves, onlyCancel
    <3>3. cancel' = [cancel EXCEPT ![c] = "removed"] => cancel'[c] = "removed"
      BY <1>0 DEF TypeOK
    <3> QED BY <1>3, <3>1, <3>2, <3>3
  <2>3. CASE CancelCommit(c)
    BY <1>0, <1>3, <2>3 DEF CancelCommit, CancelMoves, TypeOK, history
  <2>4. CASE CancelAborts(c)
    BY <2>4 DEF CancelAborts, onlyCancel
  <2> QED BY <2>1, <2>2, <2>3, <2>4 DEF CancelStep
<1>5. CASE queue' = queue
  BY <1>1, <1>3, <1>4, <1>5 DEF FinishedOrRemoved, JobAccounted
<1>6. CASE queue' = NoJob /\ to = "removed"
  BY <1>1, <1>3, <1>6 DEF FinishedOrRemoved, JobAccounted, NoJob
<1> QED BY <1>4, <1>5, <1>6

LEMMA FinishedNext == JInv /\ FinishedOrRemoved /\ [Next]_vars => FinishedOrRemoved'
<1> SUFFICES ASSUME JInv, FinishedOrRemoved, [Next]_vars PROVE FinishedOrRemoved'
  OBVIOUS
<1>1. CASE CreateJob \/ UNCHANGED vars
  BY <1>1, FinishedKept DEF CreateJob, Delivery!Record, vars, outbox, history
<1>2. ASSUME NEW p \in pending, ApplyWrite(p) \/ WriteFails(p) PROVE FinishedOrRemoved'
  BY <1>2, FinishedKept
     DEF ApplyWrite, OnJobActive, OnJobActiveEvent, OnJobCompleted, OnJobFailed, OnJobStalled,
         Delivery!Record, WriteFails, outbox, history
<1> QED BY <1>1, <1>2, FinishedOutbox, FinishedQueue, FinishedCancel DEF Next

LEMMA FinishedInductive == Spec => []FinishedOrRemoved
  BY FinishedInit, FinishedNext, Inductive, PTL DEF Spec

\* No job vanishes: one that was delivered and is not in the queue ended
\* there (and was evicted) or was taken out by a cancel
\* (services/job.service.ts:139, cancelJob).
THEOREM JobsAreAccountedFor == Spec => []JobAccounted
<1>1. FinishedOrRemoved => JobAccounted
  BY DEF FinishedOrRemoved
<1> QED BY <1>1, FinishedInductive, PTL

\* Once the outbox has nothing left to deliver, a dead-lettered job is in the
\* dead letter queue (services/job.service.ts:215, onJobFailed).
THEOREM DeadLettersHaveArrived == Spec => []NothingLeftToDeadLetter
<1>1. Delivery!DeliveryInit => acked \subseteq delivered
  BY DEF Delivery!DeliveryInit
<1>2. Init => acked \subseteq delivered
  BY <1>1 DEF Init
<1>3. acked \subseteq delivered /\ [Next]_vars => (acked \subseteq delivered)'
  <2> SUFFICES ASSUME acked \subseteq delivered, [Next]_vars
               PROVE  acked' \subseteq delivered'
    OBVIOUS
  <2>1. CASE CreateJob \/ EnqueueJob \/ EnqueueDeadLetter \/ MarkProcessed
    BY <2>1 DEF CreateJob, EnqueueJob, EnqueueDeadLetter, MarkProcessed, Delivery!Record,
                Delivery!Deliver, Delivery!Ack
  <2>2. ASSUME NEW p \in pending, ApplyWrite(p) \/ WriteFails(p) PROVE UNCHANGED <<delivered, acked>>
    BY <2>2 DEF ApplyWrite, OnJobActive, OnJobActiveEvent, OnJobCompleted, OnJobFailed,
                OnJobStalled, Delivery!Record, WriteFails, outbox
  <2>3. ASSUME NEW w \in Workers, WorkerStep(w) PROVE UNCHANGED outbox
    BY <2>3 DEF WorkerStep, TakeJob, ProcessorReturns, ProcessorThrows, StalledCheck, WorkerDies
  <2>4. ASSUME NEW c \in Cancels, CancelStep(c) PROVE UNCHANGED outbox
    BY <2>4 DEF CancelStep, CancelCheck, CancelLock, CancelRemove, CancelCommit, CancelAborts,
                onlyCancel
  <2>5. CASE LockExpires \/ Evict \/ UNCHANGED vars
    BY <2>5 DEF LockExpires, Evict, vars, outbox
  <2> QED BY <2>1, <2>2, <2>3, <2>4, <2>5 DEF Next, outbox
<1>4. JInv /\ FinishedOrRemoved /\ acked \subseteq delivered => NothingLeftToDeadLetter
  BY DEF JInv, ClaimsCounted, DeadLetterRecorded, FinishedOrRemoved, NothingLeftToDeadLetter
<1> QED BY <1>2, <1>3, <1>4, Inductive, FinishedInductive, PTL DEF Spec
=============================================================================
