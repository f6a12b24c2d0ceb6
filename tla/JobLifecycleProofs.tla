------------------------- MODULE JobLifecycleProofs -------------------------
(***************************************************************************)
(* Proofs about JobLifecycle for every number of workers, cancel requests, *)
(* attempts, stalls and runs.                                              *)
(***************************************************************************)
EXTENDS JobLifecycle, TLAPS

LEMMA JInvInit == Init => JInv
<1> SUFFICES ASSUME Init PROVE JInv
  OBVIOUS
<1> USE JobAssumption DEF QueueJob, Init, NoJob, Delivery!DeliveryInit
<1>1. TypeOK
  <2>1. 0 \in 0 .. MaxAttempts /\ 0 \in 0 .. MaxRuns
    OBVIOUS
  <2>2. row \in [status : Statuses \cup {"none"}, attempts : 0 .. MaxAttempts]
    BY <2>1
  <2>3. queue \in QueueJob
    BY <2>1
  <2>4. /\ running \in [Workers -> 0 .. MaxRuns]
        /\ cancel \in [Cancels -> {"none", "checked", "locked", "removed",
                                   "done", "conflict", "error"}]
    BY <2>1
  <2>5. /\ log \subseteq Statuses /\ pending \subseteq Write
        /\ recorded \subseteq OutboxEvents
        /\ delivered \subseteq OutboxEvents
        /\ acked \subseteq OutboxEvents
    OBVIOUS
  <2> QED BY <2>1, <2>2, <2>3, <2>4, <2>5 DEF TypeOK
<1>2. QueueConsistent /\ Started /\ CancelsSerialized
  BY DEF QueueConsistent, Started, CancelsSerialized, OneCancelWins
<1>3. ClaimsCounted /\ QueuedRowAccounted
  BY DEF ClaimsCounted, QueuedRowAccounted, CompletedSucceeded,
         DeadLettersExhausted, DeadLetterRecorded
<1> QED BY <1>1, <1>2, <1>3 DEF JInv

-----------------------------------------------------------------------------
(* The API, the outbox.                                                    *)

LEMMA CreateJobStep == JInv /\ CreateJob => JInv'
<1> SUFFICES ASSUME JInv, CreateJob PROVE JInv'
  OBVIOUS
<1> USE DEF QueueJob, JInv, CreateJob, Delivery!Record, history, TypeOK
<1>1. /\ row'.status = "queued" /\ row.status = "none"
      /\ row' = [row EXCEPT !.status = "queued"]
      /\ UNCHANGED <<queue, pending, cancel, runs, delivered, acked,
                     succeeded, failures, faults>>
      /\ recorded' = recorded \cup {EnqueueEvent}
  OBVIOUS
<1>2. TypeOK'
  BY DEF Statuses, OutboxEvents
<1>3. QueueConsistent'
  BY <1>1 DEF QueueConsistent
<1>4. ClaimsCounted'
  <2>1. \A r \in 1 .. MaxRuns : DeadLetterEvent(r) # EnqueueEvent
    BY DEF DeadLetterEvent, EnqueueEvent
  <2> QED BY <1>1, <2>1 DEF ClaimsCounted, CompletedSucceeded,
                    DeadLettersExhausted, DeadLetterRecorded
<1>5. Started' /\ CancelsSerialized'
  BY <1>1 DEF Started, CancelsSerialized, OneCancelWins
<1>6. QueuedRowAccounted'
  <2>1. EnqueueEvent \notin delivered /\ runs = 0
    BY <1>1 DEF Started
  <2> QED BY <1>1, <2>1 DEF QueuedRowAccounted
<1> QED BY <1>2, <1>3, <1>4, <1>5, <1>6

LEMMA EnqueueJobStep == JInv /\ EnqueueJob => JInv'
<1> SUFFICES ASSUME JInv, EnqueueJob PROVE JInv'
  OBVIOUS
<1> USE JobAssumption DEF QueueJob, JInv, EnqueueJob, Delivery!Deliver, history, NoJob, TypeOK
<1>1. /\ UNCHANGED <<row, recorded, pending, cancel, runs, succeeded, failures, faults>>
      /\ delivered' = delivered \cup {EnqueueEvent}
      /\ EnqueueEvent \in recorded
      /\ queue' = queue \/ /\ queue.state = "absent"
                           /\ queue'.state = "waiting"
                           /\ queue'.made = 0
                           /\ queue'.lock = 0
      /\ queue'.state # "absent"
  OBVIOUS
<1>2. TypeOK'
  BY DEF OutboxEvents
<1>3. QueueConsistent'
  BY <1>1 DEF QueueConsistent
<1>4. ClaimsCounted'
  BY <1>1 DEF ClaimsCounted, CompletedSucceeded, DeadLettersExhausted, DeadLetterRecorded
<1>5. Started'
  BY <1>1 DEF Started
<1>6. CancelsSerialized'
  BY <1>1 DEF CancelsSerialized, OneCancelWins
<1>7. QueuedRowAccounted'
  <2>1. RowWrites' = RowWrites
    BY <1>1 DEF RowWrites
  <2>2. runs = 0 => queue'.state = "waiting"
    BY <1>1 DEF Started
  <2> QED BY <1>1, <2>1, <2>2 DEF QueuedRowAccounted
<1> QED BY <1>2, <1>3, <1>4, <1>5, <1>6, <1>7

\* Steps of the outbox that do not concern this queue.
LEMMA OtherOutboxStep == JInv /\ (EnqueueDeadLetter \/ MarkProcessed) => JInv'
<1> SUFFICES ASSUME JInv, EnqueueDeadLetter \/ MarkProcessed PROVE JInv'
  OBVIOUS
<1> USE DEF JInv, TypeOK
<1>1. /\ UNCHANGED <<row, log, queue, running, recorded, pending, cancel, runs,
                     succeeded, failures, faults>>
      /\ delivered' \subseteq recorded
      /\ EnqueueEvent \in delivered' <=> EnqueueEvent \in delivered
      /\ acked' \subseteq OutboxEvents
      /\ inDLQ' \in BOOLEAN
  <2>1. CASE EnqueueDeadLetter
    BY <2>1 DEF EnqueueDeadLetter, Delivery!Deliver, history, DeadLetterEvent,
                EnqueueEvent, Started
  <2>2. CASE MarkProcessed
    BY <2>2 DEF MarkProcessed, Delivery!Ack, history, Started
  <2> QED BY <2>1, <2>2
<1>2. TypeOK'
  BY <1>1
<1>3. QueueConsistent' /\ Started' /\ CancelsSerialized'
  BY <1>1 DEF QueueConsistent, Started, CancelsSerialized, OneCancelWins
<1>4. ClaimsCounted' /\ QueuedRowAccounted'
  BY <1>1 DEF ClaimsCounted, QueuedRowAccounted, RowWrites, CompletedSucceeded,
              DeadLettersExhausted, DeadLetterRecorded
<1> QED BY <1>2, <1>3, <1>4

-----------------------------------------------------------------------------
(* The queue and its workers.                                              *)

\* What a worker's step in the queue leaves alone keeps three of the parts,
\* as long as the queue does not lose the job and no row write is withdrawn.
LEMMA QueueOnly ==
    ASSUME JInv, UNCHANGED <<row, outbox, cancel, faults>>,
           RowWrites \subseteq RowWrites',
           \/ runs' = runs /\ runs > 0
           \/ runs' # 0 /\ RowWrites' # {}
    PROVE  /\ CancelsSerialized'
           /\ QueuedRowAccounted'
           /\ DeadLetterRecorded'
<1> USE DEF JInv, outbox, TypeOK
<1>1. CancelsSerialized'
  BY DEF CancelsSerialized, OneCancelWins
<1>2. runs' # 0 /\ (row.status = "queued" /\ faults = {} => RowWrites' # {})
  BY DEF QueuedRowAccounted
<1>3. QueuedRowAccounted'
  BY <1>2 DEF QueuedRowAccounted
<1>4. DeadLetterRecorded'
  BY DEF ClaimsCounted, DeadLetterRecorded
<1> QED BY <1>1, <1>3, <1>4

\* A write that a worker starts is a write.
LEMMA NewWriteType ==
    ASSUME NEW kind \in {"active", "completed", "failed", "stalled"},
           NEW r \in 0 .. MaxRuns, NEW a \in 0 .. MaxAttempts, NEW w \in Workers
    PROVE  /\ NewWrite(kind, r, a, w) \in Write
           /\ NewWrite(kind, r, a, w).kind = kind
           /\ NewWrite(kind, r, a, w).run = r
           /\ NewWrite(kind, r, a, w).attempts = a
  BY DEF NewWrite, Write

LEMMA TakeJobStep == ASSUME JInv, NEW w \in Workers, TakeJob(w) PROVE JInv'
<1> USE JobAssumption DEF QueueJob, JInv, history
<1> DEFINE p == NewWrite("active", runs + 1, queue.made + 1, w)
<1>1. /\ UNCHANGED <<row, log, outbox, inDLQ, cancel, succeeded, failures, faults>>
      /\ queue.state = "waiting" /\ runs' = runs + 1
      /\ running' = [running EXCEPT ![w] = runs + 1]
      /\ queue' = [queue EXCEPT !.state = "active", !.lock = runs + 1]
      /\ pending' = pending \cup {p}
      /\ runs + 1 \in 1 .. MaxRuns
  BY DEF TakeJob, TypeOK
<1>2. queue.made + 1 \in 0 .. MaxAttempts
  BY <1>1 DEF QueueConsistent, TypeOK
<1>3. p \in Write /\ p.kind = "active"
  BY <1>1, <1>2, NewWriteType
<1> HIDE DEF p
<1>4. TypeOK'
  <2>1. runs + 1 \in 0 .. MaxRuns
    BY <1>1
  <2>2. running' \in [Workers -> 0 .. MaxRuns]
    BY <1>1, <2>1 DEF TypeOK
  <2>3. queue' \in QueueJob
    BY <1>1, <2>1 DEF TypeOK
  <2> QED BY <1>1, <1>3, <2>1, <2>2, <2>3 DEF TypeOK, outbox
<1>5. /\ queue'.state = "active"
      /\ queue'.made = queue.made
      /\ queue'.lock # 0
  BY <1>1 DEF TypeOK
<1>6. QueueConsistent'
  BY <1>1, <1>3, <1>5 DEF QueueConsistent
<1>7. Started'
  BY <1>1, <1>5 DEF Started, outbox, TypeOK
<1>8. RowWrites \subseteq RowWrites' /\ RowWrites' # {}
  BY <1>1, <1>3 DEF RowWrites
<1>9. CancelsSerialized' /\ QueuedRowAccounted' /\ DeadLetterRecorded'
  <2>1. runs' # 0
    BY <1>1
  <2> QED BY <1>1, <1>8, <2>1, QueueOnly
<1>10. ClaimsCounted'
  BY <1>1, <1>3, <1>5, <1>9
     DEF ClaimsCounted, CompletedSucceeded, DeadLettersExhausted, outbox
<1> QED BY <1>4, <1>6, <1>7, <1>9, <1>10

LEMMA ProcessorReturnsStep ==
    ASSUME JInv, NEW w \in Workers, ProcessorReturns(w) PROVE JInv'
<1> USE JobAssumption DEF QueueJob, JInv, history
<1> DEFINE p == NewWrite("completed", running[w], 0, w)
<1>1. /\ UNCHANGED <<row, log, outbox, inDLQ, cancel, runs, failures, faults>>
      /\ running' = [running EXCEPT ![w] = 0]
  BY DEF ProcessorReturns
<1>2. running[w] \in 1 .. MaxRuns
  BY DEF ProcessorReturns, TypeOK
<1>3. p \in Write /\ p.kind = "completed"
  BY <1>2, NewWriteType
<1>4. \/ /\ queue.state = "active"
         /\ queue' = [queue EXCEPT !.state = "completed", !.lock = 0]
         /\ pending' = pending \cup {p}
         /\ succeeded' = TRUE
      \/ UNCHANGED <<queue, pending, succeeded>>
  BY DEF ProcessorReturns, HoldsLock
<1> HIDE DEF p
<1>5. TypeOK'
  <2>1. running' \in [Workers -> 0 .. MaxRuns]
    BY <1>1 DEF TypeOK
  <2>2. 0 \in 0 .. MaxRuns
    BY <1>2
  <2>3. queue' \in QueueJob
    BY <1>4, <2>2 DEF TypeOK
  <2> QED BY <1>1, <1>3, <1>4, <2>1, <2>3 DEF TypeOK, outbox
<1>6. queue'.made = queue.made
  BY <1>4 DEF TypeOK
<1>7. CASE UNCHANGED <<queue, pending, succeeded>>
  BY <1>1, <1>5, <1>7
     DEF QueueConsistent, ClaimsCounted, Started, CancelsSerialized, outbox,
         QueuedRowAccounted, RowWrites, CompletedSucceeded, DeadLettersExhausted,
         DeadLetterRecorded, OneCancelWins
<1>8. CASE /\ queue.state = "active"
           /\ queue' = [queue EXCEPT !.state = "completed", !.lock = 0]
           /\ pending' = pending \cup {p}
           /\ succeeded' = TRUE
  <2>1. queue'.state = "completed" /\ queue'.lock = 0
    BY <1>8 DEF TypeOK
  <2>2. runs > 0
    BY <1>8 DEF Started, TypeOK
  <2>3. RowWrites \subseteq RowWrites'
    BY <1>8 DEF RowWrites
  <2>4. CancelsSerialized' /\ QueuedRowAccounted' /\ DeadLetterRecorded'
    BY <1>1, <2>2, <2>3, QueueOnly
  <2>5. QueueConsistent'
    BY <1>3, <1>8, <2>1 DEF QueueConsistent
  <2>6. Started'
    BY <1>1, <2>1, <2>2, <1>8 DEF Started, outbox
  <2>7. ClaimsCounted'
    BY <1>1, <1>3, <1>6, <1>8, <2>4
       DEF ClaimsCounted, CompletedSucceeded, DeadLettersExhausted, outbox
  <2> QED BY <1>5, <2>4, <2>5, <2>6, <2>7
<1> QED BY <1>4, <1>7, <1>8

LEMMA ProcessorThrowsStep ==
    ASSUME JInv, NEW w \in Workers, ProcessorThrows(w) PROVE JInv'
<1> USE JobAssumption DEF QueueJob, JInv, history
<1> DEFINE p == NewWrite("failed", running[w], queue.made + 1, w)
<1>1. /\ UNCHANGED <<row, log, outbox, inDLQ, cancel, runs, succeeded, faults>>
      /\ running' = [running EXCEPT ![w] = 0]
  BY DEF ProcessorThrows
<1>2. running[w] \in 1 .. MaxRuns
  BY DEF ProcessorThrows, TypeOK
<1>3. \/ /\ queue.state = "active"
         /\ queue' = [queue EXCEPT
                         !.state = IF queue.made + 1 < MaxAttempts /\ ~Doomed
                                   THEN "waiting" ELSE "failed",
                         !.made = @ + 1, !.lock = 0]
         /\ pending' = pending \cup {p}
         /\ failures' = failures + 1
      \/ UNCHANGED <<queue, pending, failures>>
  BY DEF ProcessorThrows, HoldsLock
<1>4. 0 \in 0 .. MaxRuns /\ running' \in [Workers -> 0 .. MaxRuns]
  BY <1>1, <1>2 DEF TypeOK
<1>5. CASE UNCHANGED <<queue, pending, failures>>
  BY <1>1, <1>4, <1>5
     DEF TypeOK, QueueConsistent, ClaimsCounted, Started, CancelsSerialized,
         outbox, QueuedRowAccounted, RowWrites, CompletedSucceeded,
         DeadLettersExhausted, DeadLetterRecorded, OneCancelWins
<1>6. CASE /\ queue.state = "active"
           /\ queue' = [queue EXCEPT
                           !.state = IF queue.made + 1 < MaxAttempts /\ ~Doomed
                                     THEN "waiting" ELSE "failed",
                           !.made = @ + 1, !.lock = 0]
           /\ pending' = pending \cup {p}
           /\ failures' = failures + 1
  <2>1. queue.made \in Nat /\ queue.made + 1 \in 0 .. MaxAttempts
    BY <1>6 DEF TypeOK, QueueConsistent
  <2>2. p \in Write /\ p.kind = "failed" /\ p.run = running[w]
        /\ p.attempts = queue.made + 1
    BY <1>2, <2>1, NewWriteType
  <2> HIDE DEF p
  <2>3. /\ queue'.state \in {"waiting", "failed"}
        /\ queue'.state = "waiting" => queue'.made < MaxAttempts
        /\ queue'.made = queue.made + 1
        /\ queue'.lock = 0
        /\ queue' \in QueueJob
    BY <1>4, <1>6, <2>1 DEF TypeOK
  <2>4. failures' \in Nat /\ failures' >= failures /\ queue.made + 1 <= failures'
    BY <1>6, <2>1 DEF TypeOK, ClaimsCounted
  <2>5. TypeOK'
    BY <1>1, <1>4, <1>6, <2>2, <2>3, <2>4 DEF TypeOK, outbox
  <2>6. runs > 0
    BY <1>6 DEF Started, TypeOK
  <2>7. RowWrites \subseteq RowWrites'
    BY <1>6 DEF RowWrites
  <2>8. CancelsSerialized' /\ QueuedRowAccounted' /\ DeadLetterRecorded'
    BY <1>1, <2>6, <2>7, QueueOnly
  <2>9. QueueConsistent'
    BY <1>2, <1>6, <2>2, <2>3 DEF QueueConsistent
  <2>10. Started'
    BY <1>1, <1>6, <2>3, <2>6 DEF Started, outbox
  <2>11. ClaimsCounted'
    <3>1. /\ CompletedSucceeded'
          /\ \A q \in pending' : q.kind = "completed" => succeeded'
      BY <1>1, <1>6, <2>2 DEF ClaimsCounted, CompletedSucceeded
    <3>2. queue'.made <= failures'
      BY <2>3, <2>4
    <3>3. \A q \in pending' : q.kind = "failed" => q.attempts <= failures'
      <4>1. ASSUME NEW q \in pending, q.kind = "failed" PROVE q.attempts <= failures'
        <5>1. q.attempts \in Int /\ q.attempts <= failures
          BY <4>1 DEF ClaimsCounted, TypeOK, Write
        <5> QED BY <5>1, <2>4 DEF TypeOK
      <4> QED BY <1>6, <2>2, <2>4, <4>1
    <3>4. DeadLettersExhausted'
      BY <1>1, <2>4 DEF ClaimsCounted, DeadLettersExhausted, outbox, TypeOK
    <3> QED BY <2>8, <3>1, <3>2, <3>3, <3>4 DEF ClaimsCounted
  <2> QED BY <2>5, <2>8, <2>9, <2>10, <2>11
<1> QED BY <1>3, <1>5, <1>6

\* The lock expires, the stalled checker requeues, or the job is evicted: in
\* each case the queue job existed and had been taken.
LEMMA QueueStep ==
    ASSUME JInv,
           LockExpires \/ Evict \/ \E w \in Workers : StalledCheck(w)
    PROVE  JInv'
<1> USE JobAssumption DEF QueueJob, JInv, history
<1>1. UNCHANGED <<row, log, outbox, inDLQ, running, cancel, runs, succeeded, failures, faults>>
  BY DEF LockExpires, Evict, StalledCheck
<1>2. queue.state \notin {"absent", "waiting"} /\ runs > 0
  BY DEF LockExpires, Evict, StalledCheck, QueueConsistent, Started, TypeOK
<1>3. /\ queue' \in QueueJob
      /\ queue'.made <= queue.made
      /\ queue'.lock = 0
      /\ queue'.state \in {"waiting", "active"} => queue'.made < MaxAttempts
  <2>1. 0 \in 0 .. MaxRuns /\ 0 \in 0 .. MaxAttempts
    OBVIOUS
  <2>2. CASE LockExpires
    BY <1>2, <2>1, <2>2 DEF LockExpires, TypeOK, QueueConsistent
  <2>3. CASE Evict
    <3>1. queue' = NoJob
      BY <2>3 DEF Evict
    <3>2. queue.made \in Nat
      BY DEF TypeOK
    <3> QED BY <2>1, <3>1, <3>2 DEF NoJob
  <2>4. CASE \E w \in Workers : StalledCheck(w)
    <3>1. /\ queue' = [queue EXCEPT !.state = "waiting", !.stalls = @ + 1]
          /\ queue.lock = 0 /\ queue.state = "active"
      BY <2>4 DEF StalledCheck
    <3>2. queue.made < MaxAttempts /\ queue.made \in Nat
      BY <3>1 DEF TypeOK, QueueConsistent
    <3>4. queue'.made = queue.made /\ queue'.lock = 0
      BY <3>1 DEF TypeOK
    <3>3. queue' \in QueueJob
      <4>1. queue \in QueueJob /\ queue.stalls + 1 \in Nat
        BY DEF TypeOK, QueueJob
      <4> QED BY <3>1, <4>1 DEF QueueJob
    <3>5. queue'.made <= queue.made
      BY <3>2, <3>4
    <3> QED BY <3>2, <3>3, <3>4, <3>5
  <2> QED BY <2>2, <2>3, <2>4
<1>4. /\ pending' \subseteq Write
      /\ pending \subseteq pending'
      /\ \A q \in pending' \ pending : q.kind = "stalled"
  <2>1. CASE pending' = pending
    BY <2>1 DEF TypeOK
  <2>2. ASSUME NEW w \in Workers, StalledCheck(w)
        PROVE  /\ NewWrite("stalled", runs, 0, w) \in Write
               /\ NewWrite("stalled", runs, 0, w).kind = "stalled"
               /\ pending' = pending \cup {NewWrite("stalled", runs, 0, w)}
    BY <2>2, NewWriteType DEF StalledCheck, TypeOK
  <2> QED BY <2>1, <2>2 DEF LockExpires, Evict, TypeOK
<1>5. TypeOK'
  BY <1>1, <1>3, <1>4 DEF TypeOK, outbox
<1>6. RowWrites \subseteq RowWrites'
  BY <1>4 DEF RowWrites
<1>7. CancelsSerialized' /\ QueuedRowAccounted' /\ DeadLetterRecorded'
  BY <1>1, <1>2, <1>6, QueueOnly
<1>8. QueueConsistent'
  BY <1>3, <1>4 DEF QueueConsistent
<1>9. Started'
  BY <1>1, <1>2 DEF Started, outbox, TypeOK
<1>10. ClaimsCounted'
  <2>1. queue'.made <= failures'
    BY <1>1, <1>3 DEF ClaimsCounted, TypeOK
  <2> QED BY <1>1, <1>4, <1>7, <2>1
             DEF ClaimsCounted, CompletedSucceeded, DeadLettersExhausted, outbox
<1> QED BY <1>5, <1>7, <1>8, <1>9, <1>10

-----------------------------------------------------------------------------
(* The writes.  Those that update the row leave it with another status than *)
(* "queued", and find no cancel request holding it.                         *)

\* A write that changes the row: what is left to show of its new status.
LEMMA RowWriteStep ==
    ASSUME JInv, TypeOK', ~RowLocked,
           UNCHANGED <<queue, delivered, cancel, runs, succeeded, failures, faults>>,
           \A q \in pending' : q \in pending \/ q.kind = "active_event",
           row'.status \notin {"none", "queued"},
           runs > 0,
           recorded \subseteq recorded',
           row'.status = "completed" => succeeded,
           DeadLettersExhausted', DeadLetterRecorded'
    PROVE  JInv'
<1> USE DEF JInv
<1>1. QueueConsistent'
  BY DEF QueueConsistent
<1>2. ClaimsCounted'
  BY DEF ClaimsCounted, CompletedSucceeded
<1>3. Started'
  BY DEF Started
<1>4. CancelsSerialized'
  BY DEF CancelsSerialized, OneCancelWins, RowLocked
<1>5. QueuedRowAccounted'
  BY DEF QueuedRowAccounted
<1> QED BY <1>1, <1>2, <1>3, <1>4, <1>5

\* A write that leaves the row alone.
LEMMA OtherWriteStep ==
    ASSUME JInv, TypeOK',
           UNCHANGED <<row, queue, outbox, cancel, runs, succeeded, failures>>,
           pending' \subseteq pending,
           \/ faults' = faults /\ RowWrites' = RowWrites
           \/ faults' # {}
    PROVE  JInv'
<1> USE DEF JInv, outbox
<1>1. QueueConsistent' /\ Started' /\ CancelsSerialized'
  BY DEF QueueConsistent, Started, CancelsSerialized, OneCancelWins
<1>2. ClaimsCounted'
  BY DEF ClaimsCounted, CompletedSucceeded, DeadLettersExhausted, DeadLetterRecorded
<1>3. QueuedRowAccounted'
  BY DEF QueuedRowAccounted
<1> QED BY <1>1, <1>2, <1>3

\* A write that is under way belongs to a job that was taken, hence created.
LEMMA RowExists ==
    ASSUME JInv, NEW p \in pending
    PROVE  runs > 0 /\ row.status # "none" /\ p \in Write
  BY DEF JInv, TypeOK, Started

LEMMA ApplyWriteStep == ASSUME JInv, NEW p \in pending, ApplyWrite(p) PROVE JInv'
<1> USE JobAssumption DEF ApplyWrite, history
<1>1. runs > 0 /\ row.status # "none" /\ p \in Write
  BY RowExists
<1>2. /\ UNCHANGED <<queue, inDLQ, running, delivered, acked, cancel, runs,
                     succeeded, failures, faults>>
      /\ TypeOK
  BY DEF OnJobActive, OnJobActiveEvent, OnJobCompleted, OnJobFailed, OnJobStalled,
         outbox, Delivery!Record, JInv
<1>3. CASE OnJobActive(p)
  <2>1. /\ ~RowLocked
        /\ row' = [status |-> "active", attempts |-> p.attempts]
        /\ UNCHANGED <<log, recorded>>
        /\ \A q \in pending' : q \in pending \/ q = [p EXCEPT !.kind = "active_event"]
    BY <1>3 DEF OnJobActive, outbox
  <2>2. [p EXCEPT !.kind = "active_event"] \in Write
        /\ [p EXCEPT !.kind = "active_event"].kind = "active_event"
    BY <1>1 DEF Write
  <2>3. p.attempts \in 0 .. MaxAttempts
    BY <1>1 DEF Write
  <2>4. row' \in [status : Statuses \cup {"none"}, attempts : 0 .. MaxAttempts]
    BY <2>1, <2>3 DEF Statuses
  <2>5. TypeOK'
    BY <1>2, <2>1, <2>2, <2>4 DEF TypeOK
  <2>6. DeadLettersExhausted' /\ DeadLetterRecorded'
    BY <1>2, <2>1 DEF JInv, ClaimsCounted, DeadLettersExhausted, DeadLetterRecorded
  <2> QED BY <1>1, <1>2, <2>1, <2>2, <2>5, <2>6, RowWriteStep
<1>4. CASE OnJobCompleted(p)
  <2>1. /\ ~RowLocked
        /\ row' = [row EXCEPT !.status = "completed"]
        /\ log' = log \cup {"completed"}
        /\ UNCHANGED recorded
        /\ pending' \subseteq pending
    BY <1>4 DEF OnJobCompleted, outbox
  <2>2. succeeded
    BY <1>4 DEF OnJobCompleted, JInv, ClaimsCounted
  <2>3. row'.status = "completed"
    BY <1>2, <2>1 DEF TypeOK
  <2>4. TypeOK'
    BY <1>2, <2>1 DEF TypeOK, Statuses
  <2>5. DeadLettersExhausted' /\ DeadLetterRecorded'
    BY <1>2, <2>1, <2>3 DEF JInv, ClaimsCounted, DeadLettersExhausted, DeadLetterRecorded
  <2> QED BY <1>1, <1>2, <2>1, <2>2, <2>3, <2>4, <2>5, RowWriteStep
<1>5. CASE OnJobFailed(p)
  <2>1. /\ ~RowLocked
        /\ row'.status = IF IsTerminal(p) THEN "dead_letter" ELSE "retrying"
        /\ row' = [status |-> IF IsTerminal(p) THEN "dead_letter" ELSE "retrying",
                   attempts |-> p.attempts]
        /\ log' = log \cup {row'.status}
        /\ pending' \subseteq pending
        /\ IF IsTerminal(p) /\ DeadLetter
           THEN recorded' = recorded \cup {DeadLetterEvent(p.run)}
           ELSE recorded' = recorded
    BY <1>5 DEF OnJobFailed, outbox, Delivery!Record
  <2>2. p.attempts \in 0 .. MaxAttempts /\ p.run \in 1 .. MaxRuns
    BY <1>1, <1>5 DEF Write, OnJobFailed, JInv, QueueConsistent
  <2>3. IsTerminal(p) => failures >= MaxAttempts
    <3>1. p.attempts <= failures
      BY <1>5 DEF OnJobFailed, JInv, ClaimsCounted
    <3> QED BY <1>2, <2>2, <3>1 DEF IsTerminal, TypeOK
  <2>4. DeadLetterEvent(p.run) \in OutboxEvents
    BY <2>2 DEF OutboxEvents
  <2>5. row' \in [status : Statuses \cup {"none"}, attempts : 0 .. MaxAttempts]
        /\ row'.status \in Statuses
    BY <2>1, <2>2 DEF Statuses
  <2>6. TypeOK'
    BY <1>2, <2>1, <2>4, <2>5 DEF TypeOK
  <2>7. DeadLettersExhausted'
    BY <1>2, <2>1, <2>3 DEF JInv, ClaimsCounted, DeadLettersExhausted
  <2>8. DeadLetterRecorded'
    BY <1>2, <2>1, <2>2 DEF DeadLetterRecorded
  <2> QED BY <1>1, <1>2, <2>1, <2>6, <2>7, <2>8, RowWriteStep
<1>6. CASE OnJobActiveEvent(p) \/ OnJobStalled(p)
  <2>1. /\ UNCHANGED <<row, outbox>>
        /\ pending' = pending \ {p}
        /\ log' \subseteq log \cup {"active", "retrying"}
        /\ p.kind \in {"active_event", "stalled"}
    BY <1>6 DEF OnJobActiveEvent, OnJobStalled
  <2>2. TypeOK'
    BY <1>2, <2>1 DEF TypeOK, Statuses, outbox
  <2>3. RowWrites' = RowWrites
    BY <2>1 DEF RowWrites
  <2> QED BY <1>2, <2>1, <2>2, <2>3, OtherWriteStep
<1> QED BY <1>3, <1>4, <1>5, <1>6

LEMMA WriteFailsStep == ASSUME JInv, NEW p \in pending, WriteFails(p) PROVE JInv'
<1>1. /\ UNCHANGED <<row, log, outbox, queue, inDLQ, running, cancel, runs,
                     succeeded, failures>>
      /\ pending' \subseteq pending
      /\ faults' = faults \cup {"write"}
  BY DEF WriteFails
<1>2. TypeOK'
  BY <1>1 DEF JInv, TypeOK, outbox
<1> QED BY <1>1, <1>2, OtherWriteStep

LEMMA WorkerDiesStep == ASSUME JInv, NEW w \in Workers, WorkerDies(w) PROVE JInv'
<1> USE JobAssumption DEF JInv
<1>1. /\ UNCHANGED <<row, log, outbox, queue, inDLQ, cancel, runs, succeeded, failures>>
      /\ running' = [running EXCEPT ![w] = 0]
      /\ faults' = IF pending' = pending THEN faults ELSE faults \cup {"write"}
  BY DEF WorkerDies
<1>2. ASSUME NEW q \in pending', q \notin pending
      PROVE  q \in Write /\ q.kind = "orphan"
  <2>1. PICK sent \in SUBSET {p \in pending : p.by = w /\ p.kind = "active"} :
           pending' = {p \in pending : p.by # w \/ p.kind = "orphan"}
                      \cup {[p EXCEPT !.kind = "orphan"] : p \in sent}
    BY DEF WorkerDies
  <2>2. PICK p \in sent : q = [p EXCEPT !.kind = "orphan"]
    BY <1>2, <2>1
  <2>3. p \in Write
    BY <2>2 DEF TypeOK
  <2> QED BY <2>2, <2>3 DEF Write
<1>3. runs = 0 => pending' = {}
  <2>1. CASE runs = 0
    <3>1. pending = {}
      BY <2>1 DEF Started
    <3> QED BY <3>1 DEF WorkerDies
  <2> QED BY <2>1
<1>4. TypeOK'
  <2>1. running' \in [Workers -> 0 .. MaxRuns]
    BY <1>1 DEF TypeOK
  <2> QED BY <1>1, <1>2, <2>1 DEF TypeOK, outbox
<1>5. QueueConsistent' /\ CancelsSerialized'
  BY <1>1, <1>2 DEF QueueConsistent, CancelsSerialized, OneCancelWins
<1>6. Started'
  BY <1>1, <1>3 DEF Started, outbox
<1>7. ClaimsCounted'
  BY <1>1, <1>2 DEF ClaimsCounted, CompletedSucceeded, DeadLettersExhausted,
                    DeadLetterRecorded, outbox
<1>8. QueuedRowAccounted'
  <2>1. CASE pending' = pending
    BY <1>1, <2>1 DEF QueuedRowAccounted, RowWrites, outbox
  <2>2. CASE pending' # pending
    BY <1>1, <2>2 DEF QueuedRowAccounted
  <2> QED BY <2>1, <2>2
<1> QED BY <1>4, <1>5, <1>6, <1>7, <1>8

-----------------------------------------------------------------------------
(* The cancel requests.                                                    *)

LEMMA CancelCheckLockStep ==
    ASSUME JInv, NEW c \in Cancels, CancelCheck(c) \/ CancelLock(c)
    PROVE  JInv'
<1> USE DEF JInv, CancelMoves, onlyCancel
<1>1. /\ UNCHANGED <<row, log, outbox, queue, inDLQ, running, pending, runs,
                     succeeded, failures, faults>>
      /\ cancel[c] \in {"none", "checked"}
      /\ \/ cancel' = [cancel EXCEPT ![c] = "checked"]
         \/ cancel' = [cancel EXCEPT ![c] = "conflict"]
         \/ /\ cancel' = [cancel EXCEPT ![c] = "locked"]
            /\ row.status = "queued"
            /\ ~RowLocked
  BY DEF CancelCheck, CancelLock
<1>2. TypeOK'
  BY <1>1 DEF TypeOK, outbox
<1>3. QueueConsistent' /\ ClaimsCounted' /\ Started'
  BY <1>1 DEF QueueConsistent, ClaimsCounted, Started, CompletedSucceeded,
              DeadLettersExhausted, DeadLetterRecorded, outbox
<1>4. ASSUME NEW d \in Cancels, d # c PROVE cancel'[d] = cancel[d]
  BY <1>1, <1>4 DEF TypeOK
<1>5. \/ cancel'[c] \in {"checked", "conflict"}
      \/ cancel'[c] = "locked" /\ row.status = "queued" /\ ~RowLocked
  BY <1>1 DEF TypeOK
<1>6. CancelsSerialized'
  BY <1>1, <1>4, <1>5 DEF CancelsSerialized, OneCancelWins, RowLocked
<1>7. QueuedRowAccounted'
  BY <1>1, <1>4 DEF QueuedRowAccounted, RowWrites, outbox
<1> QED BY <1>2, <1>3, <1>6, <1>7

LEMMA CancelRemoveStep == ASSUME JInv, NEW c \in Cancels, CancelRemove(c) PROVE JInv'
<1> USE JobAssumption DEF JInv, CancelMoves, onlyCancel
<1>1. /\ UNCHANGED <<row, log, outbox, inDLQ, running, pending, runs,
                     succeeded, failures, faults>>
      /\ cancel[c] = "locked"
      /\ \/ /\ cancel' = [cancel EXCEPT ![c] = "error"]
            /\ queue' = queue /\ queue.lock # 0
         \/ /\ cancel' = [cancel EXCEPT ![c] = "removed"]
            /\ queue' = NoJob
  BY DEF CancelRemove
<1>2. NoJob \in QueueJob /\ NoJob.state = "absent" /\ NoJob.made = 0 /\ NoJob.lock = 0
  BY DEF NoJob, QueueJob
<1>3. TypeOK'
  BY <1>1, <1>2 DEF TypeOK, outbox
<1>4. QueueConsistent' /\ Started'
  BY <1>1, <1>2 DEF QueueConsistent, Started, outbox
<1>5. ClaimsCounted'
  BY <1>1, <1>2 DEF ClaimsCounted, CompletedSucceeded, DeadLettersExhausted,
                    DeadLetterRecorded, outbox, TypeOK
<1>6. ASSUME NEW d \in Cancels, d # c PROVE cancel'[d] = cancel[d]
  BY <1>1, <1>6 DEF TypeOK
<1>7. cancel'[c] \in {"error", "removed"}
  BY <1>1 DEF TypeOK
<1>8. CancelsSerialized'
  BY <1>1, <1>6, <1>7 DEF CancelsSerialized, OneCancelWins
<1>9. QueuedRowAccounted'
  <2>1. RowWrites' = RowWrites
    BY <1>1 DEF RowWrites
  <2>2. CASE cancel' = [cancel EXCEPT ![c] = "removed"]
    <3>1. cancel'[c] = "removed"
      BY <2>2 DEF TypeOK
    <3> QED BY <1>1, <2>1, <3>1 DEF QueuedRowAccounted
  <2>3. CASE queue' = queue /\ queue.lock # 0
    <3>1. runs > 0
      BY <2>3 DEF QueueConsistent, Started, TypeOK
    <3> QED BY <1>1, <2>1, <3>1 DEF QueuedRowAccounted, TypeOK
  <2> QED BY <1>1, <2>2, <2>3
<1> QED BY <1>3, <1>4, <1>5, <1>8, <1>9

LEMMA CancelCommitStep == ASSUME JInv, NEW c \in Cancels, CancelCommit(c) PROVE JInv'
<1> USE DEF JInv, CancelMoves
<1>1. /\ UNCHANGED <<queue, outbox, inDLQ, running, pending, runs,
                     succeeded, failures, faults>>
      /\ cancel[c] = "removed"
      /\ cancel' = [cancel EXCEPT ![c] = "done"]
      /\ row' = [row EXCEPT !.status = "cancelled"]
      /\ log' = log \cup {"cancelled"}
  BY DEF CancelCommit, history
<1>2. row'.status = "cancelled" /\ row.status = "queued"
  BY <1>1 DEF TypeOK, CancelsSerialized
<1>3. TypeOK'
  BY <1>1 DEF TypeOK, outbox, Statuses
<1>4. QueueConsistent'
  BY <1>1 DEF QueueConsistent
<1>5. ClaimsCounted'
  BY <1>1, <1>2 DEF ClaimsCounted, CompletedSucceeded, DeadLettersExhausted,
                    DeadLetterRecorded, outbox
<1>6. Started'
  BY <1>1, <1>2 DEF Started, outbox
<1>7. ASSUME NEW d \in Cancels, d # c
      PROVE  cancel'[d] = cancel[d] /\ cancel[d] \notin {"locked", "removed", "done"}
  BY <1>1, <1>2, <1>7 DEF TypeOK, CancelsSerialized
<1>8. CancelsSerialized'
  BY <1>1, <1>2, <1>7 DEF CancelsSerialized, OneCancelWins, TypeOK
<1>9. QueuedRowAccounted'
  BY <1>2 DEF QueuedRowAccounted
<1> QED BY <1>3, <1>4, <1>5, <1>6, <1>8, <1>9

LEMMA CancelAbortsStep == ASSUME JInv, NEW c \in Cancels, CancelAborts(c) PROVE JInv'
<1> USE DEF JInv, CancelMoves, onlyCancel
<1>1. /\ UNCHANGED <<row, log, outbox, queue, inDLQ, running, pending, runs,
                     succeeded, failures>>
      /\ cancel' = [cancel EXCEPT ![c] = "error"]
      /\ \/ faults' = faults /\ cancel[c] = "locked"
         \/ faults' = faults \cup {"job"}
  BY DEF CancelAborts
<1>2. TypeOK'
  BY <1>1 DEF TypeOK, outbox
<1>3. QueueConsistent' /\ ClaimsCounted' /\ Started'
  BY <1>1 DEF QueueConsistent, ClaimsCounted, Started, CompletedSucceeded,
              DeadLettersExhausted, DeadLetterRecorded, outbox
<1>4. ASSUME NEW d \in Cancels, d # c PROVE cancel'[d] = cancel[d]
  BY <1>1, <1>4 DEF TypeOK
<1>5. cancel'[c] = "error"
  BY <1>1 DEF TypeOK
<1>6. CancelsSerialized'
  BY <1>1, <1>4, <1>5 DEF CancelsSerialized, OneCancelWins
<1>7. QueuedRowAccounted'
  BY <1>1, <1>4 DEF QueuedRowAccounted, RowWrites, outbox
<1> QED BY <1>2, <1>3, <1>6, <1>7

-----------------------------------------------------------------------------
LEMMA JInvNext == JInv /\ [Next]_vars => JInv'
<1> SUFFICES ASSUME JInv, [Next]_vars PROVE JInv'
  OBVIOUS
<1>1. CASE CreateJob \/ EnqueueJob \/ EnqueueDeadLetter \/ MarkProcessed
  BY <1>1, CreateJobStep, EnqueueJobStep, OtherOutboxStep
<1>2. CASE LockExpires \/ Evict
  BY <1>2, QueueStep
<1>3. ASSUME NEW w \in Workers, WorkerStep(w) PROVE JInv'
  BY <1>3, TakeJobStep, ProcessorReturnsStep, ProcessorThrowsStep, QueueStep,
     WorkerDiesStep DEF WorkerStep
<1>4. ASSUME NEW p \in pending, ApplyWrite(p) \/ WriteFails(p) PROVE JInv'
  BY <1>4, ApplyWriteStep, WriteFailsStep
<1>5. ASSUME NEW c \in Cancels, CancelStep(c) PROVE JInv'
  BY <1>5, CancelCheckLockStep, CancelRemoveStep, CancelCommitStep, CancelAbortsStep
     DEF CancelStep
<1>6. CASE UNCHANGED vars
  BY <1>6 DEF vars, outbox, history, JInv, TypeOK, QueueConsistent, ClaimsCounted,
              Started, CancelsSerialized, QueuedRowAccounted, RowWrites,
              CompletedSucceeded, DeadLettersExhausted, DeadLetterRecorded, OneCancelWins
<1> QED BY <1>1, <1>2, <1>3, <1>4, <1>5, <1>6 DEF Next

\* The invariant that the properties below follow from.
THEOREM Inductive == Spec => []JInv
  BY JInvInit, JInvNext, PTL DEF Spec

\* The attempts column and the queue's counter never exceed opts.attempts,
\* and no row gets a status that the code does not write.
THEOREM TypeCorrect == Spec => []TypeOK
<1>1. JInv => TypeOK
  BY DEF JInv
<1> QED BY <1>1, Inductive, PTL

\* Whatever is reordered or lost, "completed" means that the queue accepted
\* a result.
THEOREM CompletedIsTrue == Spec => []CompletedSucceeded
<1>1. JInv => CompletedSucceeded
  BY DEF JInv, ClaimsCounted
<1> QED BY <1>1, Inductive, PTL

\* Dead letters are written only for jobs that failed opts.attempts times.
THEOREM DeadLettersAreExhausted == Spec => []DeadLettersExhausted
<1>1. JInv => DeadLettersExhausted
  BY DEF JInv, ClaimsCounted
<1> QED BY <1>1, Inductive, PTL

\* The status "dead_letter" and its outbox event come together.
THEOREM DeadLettersAreRecorded == Spec => []DeadLetterRecorded
<1>1. JInv => DeadLetterRecorded
  BY DEF JInv, ClaimsCounted
<1> QED BY <1>1, Inductive, PTL

\* A queued job leaves the queue for good only by a fault.
THEOREM StrandedJobsNeedFaults == Spec => []StrandedNeedsFault
<1>1. JInv => StrandedNeedsFault
  <2> SUFFICES ASSUME JInv, row.status = "queued", EnqueueEvent \in delivered,
                      queue.state = "absent", faults = {}
               PROVE  RowWrites # {} \/ \E c \in Cancels : cancel[c] = "removed"
    BY DEF StrandedNeedsFault
  <2>1. runs = 0 \/ runs > 0
    BY DEF JInv, TypeOK
  <2> QED BY <2>1 DEF JInv, QueuedRowAccounted
<1> QED BY <1>1, Inductive, PTL

\* Concurrent cancel requests do not both succeed.
THEOREM CancelsExclude == Spec => []OneCancelWins
<1>1. JInv => OneCancelWins
  BY DEF JInv, CancelsSerialized
<1> QED BY <1>1, Inductive, PTL

\* A row becomes "cancelled" only from "queued".
THEOREM CancelsTakeQueuedRows == Spec => CancelledFromQueued
<1>1. JInv /\ [Next]_vars =>
        [row'.status = "cancelled" /\ row.status # "cancelled" => row.status = "queued"]_vars
  <2> SUFFICES ASSUME JInv, Next, row'.status = "cancelled", row.status # "cancelled"
               PROVE  row.status = "queued"
    OBVIOUS
  <2>1. CASE row' = row
    BY <2>1
  <2>2. CASE CreateJob
    BY <2>2 DEF CreateJob, JInv, TypeOK
  <2>3. ASSUME NEW p \in pending, ApplyWrite(p) PROVE FALSE
    BY <2>3 DEF ApplyWrite, OnJobActive, OnJobActiveEvent, OnJobCompleted, OnJobFailed,
                OnJobStalled, JInv, TypeOK
  <2>4. ASSUME NEW c \in Cancels, CancelCommit(c) PROVE row.status = "queued"
    BY <2>4 DEF CancelCommit, JInv, CancelsSerialized
  <2>5. ASSUME NEW c \in Cancels,
               CancelCheck(c) \/ CancelLock(c) \/ CancelRemove(c) \/ CancelAborts(c)
        PROVE  row' = row
    BY <2>5 DEF CancelCheck, CancelLock, CancelRemove, CancelAborts
  <2>6. ASSUME NEW w \in Workers, WorkerStep(w) PROVE row' = row
    BY <2>6 DEF WorkerStep, TakeJob, ProcessorReturns, ProcessorThrows, StalledCheck,
                WorkerDies
  <2>7. ASSUME NEW p \in pending, WriteFails(p) PROVE row' = row
    BY <2>7 DEF WriteFails
  <2>8. CASE EnqueueJob \/ EnqueueDeadLetter \/ MarkProcessed \/ LockExpires \/ Evict
    BY <2>1, <2>8 DEF EnqueueJob, EnqueueDeadLetter, MarkProcessed, LockExpires, Evict
  <2> QED BY <2>1, <2>2, <2>3, <2>4, <2>5, <2>6, <2>7, <2>8 DEF Next, CancelStep
<1> QED BY <1>1, Inductive, PTL DEF Spec, CancelledFromQueued
-----------------------------------------------------------------------------
LEMMA LogInvInit == Init => LogInv
  BY DEF Init, LogInv, StatusLogged

\* The steps that touch neither the row, job_events, the writes in flight
\* nor what was lost.
LEMMA LogUnchanged ==
  ASSUME LogInv, UNCHANGED <<row, log, pending, faults>>
  PROVE  LogInv'
  BY DEF LogInv, StatusLogged

\* The events of the queue add writes, but no "orphan".
LEMMA LogNewWrite ==
  ASSUME LogInv, NEW new, new.kind # "orphan", UNCHANGED <<row, log, faults>>,
         pending' = pending \cup {new}
  PROVE  LogInv'
  BY DEF LogInv, StatusLogged

\* A write that sets the row logs its status, or leaves the event to
\* onJobActive's second statement; the others only add to the log.
LEMMA LogApplyWrite == ASSUME TypeOK, LogInv, NEW p \in pending, ApplyWrite(p) PROVE LogInv'
<1>1. p.kind \in {"active", "active_event", "orphan", "completed", "failed", "stalled"}
  BY DEF TypeOK, Write
<1>2. faults' = faults
  BY DEF ApplyWrite, history
<1>3. CASE OnJobActive(p)
  <2>0. row'.status = "active" /\ log' = log
    BY <1>3 DEF OnJobActive
  <2>1. CASE p.kind = "orphan"
    <3>1. "write" \in faults
      BY <2>1 DEF LogInv
    <3> QED BY <1>2, <2>0, <3>1 DEF LogInv, StatusLogged
  <2>2. CASE p.kind = "active"
    <3> DEFINE event == [p EXCEPT !.kind = "active_event"]
    <3>1. event.kind = "active_event"
      BY DEF TypeOK, Write
    <3>2. pending' = (pending \ {p}) \cup {event}
      BY <1>3, <2>2 DEF OnJobActive
    <3> HIDE DEF event
    <3> QED BY <1>2, <2>0, <3>1, <3>2 DEF LogInv, StatusLogged
  <2> QED BY <1>3, <2>1, <2>2 DEF OnJobActive
<1>4. CASE OnJobActiveEvent(p)
  BY <1>2, <1>4 DEF OnJobActiveEvent, LogInv, StatusLogged
<1>5. CASE OnJobCompleted(p)
  <2>1. row'.status = "completed"
    BY <1>5 DEF OnJobCompleted, TypeOK
  <2> QED BY <1>2, <1>5, <2>1 DEF OnJobCompleted, LogInv, StatusLogged
<1>6. CASE OnJobFailed(p)
  BY <1>2, <1>6 DEF OnJobFailed, LogInv, StatusLogged
<1>7. CASE OnJobStalled(p)
  BY <1>2, <1>7 DEF OnJobStalled, LogInv, StatusLogged
<1> QED BY <1>3, <1>4, <1>5, <1>6, <1>7 DEF ApplyWrite

LEMMA LogWriteFails == ASSUME LogInv, NEW p \in pending, WriteFails(p) PROVE LogInv'
  BY DEF WriteFails, LogInv, StatusLogged

\* Unless only orphans were left of the worker, its death is a lost write.
LEMMA LogWorkerDies == ASSUME LogInv, NEW w \in Workers, WorkerDies(w) PROVE LogInv'
<1>1. UNCHANGED <<row, log>>
  BY DEF WorkerDies
<1>2. CASE pending' = pending
  BY <1>1, <1>2, LogUnchanged DEF WorkerDies
<1>3. CASE pending' # pending
  <2>1. "write" \in faults'
    BY <1>3 DEF WorkerDies
  <2> QED BY <1>1, <2>1 DEF LogInv, StatusLogged
<1> QED BY <1>2, <1>3

\* A cancel writes the row and its event in one step, its commit; an abort
\* loses no write.
LEMMA LogCancelStep == ASSUME TypeOK, LogInv, NEW c \in Cancels, CancelStep(c) PROVE LogInv'
<1>1. CASE CancelCommit(c)
  <2>1. row'.status = "cancelled"
    BY <1>1 DEF CancelCommit, TypeOK
  <2> QED BY <1>1, <2>1 DEF CancelCommit, LogInv, StatusLogged, history
<1>2. CASE ~CancelCommit(c)
  <2>1. UNCHANGED <<row, log, pending>> /\ ("write" \in faults => "write" \in faults')
    BY <1>2 DEF CancelStep, CancelCheck, CancelLock, CancelRemove, CancelAborts, onlyCancel
  <2> QED BY <2>1 DEF LogInv, StatusLogged
<1> QED BY <1>1, <1>2

LEMMA LogInvNext == TypeOK /\ LogInv /\ [Next]_vars => LogInv'
<1> SUFFICES ASSUME TypeOK, LogInv, [Next]_vars PROVE LogInv'
  OBVIOUS
<1>1. CASE CreateJob
  <2>1. row'.status = "queued"
    BY <1>1 DEF CreateJob, TypeOK
  <2> QED BY <1>1, <2>1 DEF CreateJob, LogInv, StatusLogged, history
<1>2. CASE EnqueueJob \/ EnqueueDeadLetter \/ MarkProcessed \/ LockExpires \/ Evict
  BY <1>2, LogUnchanged
     DEF EnqueueJob, EnqueueDeadLetter, MarkProcessed, LockExpires, Evict, history
<1>3. ASSUME NEW w \in Workers, WorkerStep(w) PROVE LogInv'
  <2>1. CASE TakeJob(w)
    BY <2>1, LogNewWrite DEF TakeJob, NewWrite, history
  <2>2. CASE ProcessorReturns(w)
    BY <2>2, LogUnchanged, LogNewWrite DEF ProcessorReturns, NewWrite
  <2>3. CASE ProcessorThrows(w)
    BY <2>3, LogUnchanged, LogNewWrite DEF ProcessorThrows, NewWrite
  <2>4. CASE StalledCheck(w)
    BY <2>4, LogNewWrite DEF StalledCheck, NewWrite, history
  <2>5. CASE WorkerDies(w)
    BY <2>5, LogWorkerDies
  <2> QED BY <1>3, <2>1, <2>2, <2>3, <2>4, <2>5 DEF WorkerStep
<1>4. ASSUME NEW p \in pending, ApplyWrite(p) \/ WriteFails(p) PROVE LogInv'
  BY <1>4, LogApplyWrite, LogWriteFails
<1>5. ASSUME NEW c \in Cancels, CancelStep(c) PROVE LogInv'
  BY <1>5, LogCancelStep
<1>6. CASE UNCHANGED vars
  BY <1>6, LogUnchanged DEF vars, history
<1> QED BY <1>1, <1>2, <1>3, <1>4, <1>5, <1>6 DEF Next

\* An UPDATE that outlives its worker counts as a lost write, throughout.
THEOREM LogInductive == Spec => []LogInv
  BY LogInvInit, LogInvNext, TypeCorrect, PTL DEF Spec

\* A status of the row has its event in job_events, unless onJobActive is
\* between its two statements or its second one was lost.
THEOREM StatusesAreLogged == Spec => []StatusLogged
<1>1. LogInv => StatusLogged
  BY DEF LogInv
<1> QED BY <1>1, LogInductive, PTL

-----------------------------------------------------------------------------
(* The given-up job.                                                       *)

LEMMA GivenUpInit == Init => GivenUpAccounted
  BY DEF Init, GivenUpAccounted, NoJob

\* A step that gives nothing up and takes no failed write away, or loses one.
LEMMA GivenUpKept ==
  ASSUME GivenUpAccounted, queue'.state # "failed" \/ queue' = queue,
         faults \subseteq faults', recorded \subseteq recorded',
         faults' # {} \/ \A p \in pending : p.kind = "failed" => p \in pending'
  PROVE  GivenUpAccounted'
  BY DEF GivenUpAccounted, Doomed

\* The write of a failure is applied: if it was the last, it records the
\* dead letter.
LEMMA GivenUpApply ==
  ASSUME JInv, GivenUpAccounted, NEW p \in pending, ApplyWrite(p)
  PROVE  GivenUpAccounted'
<1>0. TypeOK
  BY DEF JInv
<1>1. queue' = queue /\ faults' = faults
  BY DEF ApplyWrite, history
<1>2. CASE p.kind # "failed"
  <2>1. \A q \in pending : q.kind = "failed" => q \in pending'
    BY <1>2 DEF ApplyWrite, OnJobActive, OnJobActiveEvent, OnJobCompleted, OnJobFailed, OnJobStalled
  <2>2. recorded \subseteq recorded'
    BY <1>2 DEF ApplyWrite, OnJobActive, OnJobActiveEvent, OnJobCompleted, OnJobFailed, OnJobStalled,
                outbox
  <2> QED BY <1>1, <2>1, <2>2, GivenUpKept
<1>3. CASE p.kind = "failed"
  <2>1. OnJobFailed(p)
    BY <1>3 DEF ApplyWrite, OnJobActive, OnJobActiveEvent, OnJobCompleted, OnJobStalled
  <2>2. pending' = pending \ {p}
    BY <2>1 DEF OnJobFailed
  <2>3. recorded \subseteq recorded'
    BY <2>1 DEF OnJobFailed, outbox, Delivery!Record
  <2>4. CASE IsTerminal(p) /\ DeadLetter
    <3>1. DeadLetterEvent(p.run) \in recorded'
      BY <2>1, <2>4 DEF OnJobFailed, Delivery!Record
    <3>2. p.run \in 1 .. MaxRuns
      BY <1>3, JobAssumption DEF JInv, QueueConsistent, TypeOK, Write
    <3> QED BY <3>1, <3>2 DEF GivenUpAccounted
  <2>5. CASE ~(IsTerminal(p) /\ DeadLetter)
    <3>1. DeadLetter => p.attempts < MaxAttempts
      BY <1>0, <2>5, JobAssumption DEF IsTerminal, TypeOK, Write
    <3> QED BY <1>0, <1>1, <2>2, <2>3, <3>1, JobAssumption DEF GivenUpAccounted, Doomed, TypeOK, Write
  <2> QED BY <2>4, <2>5
<1> QED BY <1>2, <1>3

\* The queue gives a job up: its last failure is written.
LEMMA GivenUpThrow ==
  ASSUME TypeOK, GivenUpAccounted, NEW w \in Workers, ProcessorThrows(w)
  PROVE  GivenUpAccounted'
<1>1. recorded' = recorded /\ faults' = faults /\ pending \subseteq pending'
  BY DEF ProcessorThrows, outbox
<1>2. CASE ~HoldsLock(w)
  BY <1>1, <1>2, GivenUpKept DEF ProcessorThrows
<1>3. CASE HoldsLock(w)
  <2> DEFINE write == NewWrite("failed", running[w], queue.made + 1, w)
  <2>1. /\ write \in pending' /\ write.kind = "failed" /\ write.attempts = queue.made + 1
        /\ queue' = [queue EXCEPT !.state = IF queue.made + 1 < MaxAttempts /\ ~Doomed
                                            THEN "waiting" ELSE "failed",
                                  !.made = queue.made + 1, !.lock = 0]
    BY <1>3 DEF ProcessorThrows, NewWrite
  <2>2. queue'.stalls = queue.stalls /\ (queue'.state = "failed" => queue.made + 1 >= MaxAttempts \/ Doomed)
    BY <2>1, JobAssumption DEF TypeOK, QueueJob
  <2> HIDE DEF write
  <2> QED BY <2>1, <2>2 DEF GivenUpAccounted, Doomed
<1> QED BY <1>2, <1>3

LEMMA GivenUpNext == JInv /\ GivenUpAccounted /\ [Next]_vars => GivenUpAccounted'
<1> SUFFICES ASSUME JInv, GivenUpAccounted, [Next]_vars PROVE GivenUpAccounted'
  OBVIOUS
<1>0. TypeOK
  BY DEF JInv
<1>1. CASE CreateJob \/ EnqueueDeadLetter \/ MarkProcessed \/ UNCHANGED vars
  BY <1>1, GivenUpKept
     DEF CreateJob, EnqueueDeadLetter, MarkProcessed, vars, history, outbox, Delivery!Record,
         Delivery!Deliver, Delivery!Ack
<1>2. CASE EnqueueJob \/ Evict
  <2>1. queue'.state # "failed" \/ queue' = queue
    BY <1>2 DEF EnqueueJob, Evict, NoJob
  <2> QED BY <1>2, <2>1, GivenUpKept DEF EnqueueJob, Evict, history, outbox, Delivery!Deliver
<1>3. CASE LockExpires
  BY <1>0, <1>3 DEF LockExpires, history, outbox, GivenUpAccounted, Doomed, TypeOK, QueueJob
<1>4. ASSUME NEW w \in Workers, WorkerStep(w) PROVE GivenUpAccounted'
  <2>1. CASE TakeJob(w) \/ ProcessorReturns(w) \/ StalledCheck(w)
    <3>1. queue'.state # "failed" \/ queue' = queue
      BY <1>0, <2>1 DEF TakeJob, ProcessorReturns, StalledCheck, TypeOK, QueueJob
    <3> QED BY <2>1, <3>1, GivenUpKept
            DEF TakeJob, ProcessorReturns, StalledCheck, history, outbox
  <2>2. CASE ProcessorThrows(w)
    BY <1>0, <2>2, GivenUpThrow
  <2>3. CASE WorkerDies(w)
    <3>1. pending' = pending \/ faults' # {}
      BY <2>3 DEF WorkerDies
    <3> QED BY <2>3, <3>1, GivenUpKept DEF WorkerDies, outbox
  <2> QED BY <1>4, <2>1, <2>2, <2>3 DEF WorkerStep
<1>5. ASSUME NEW p \in pending, ApplyWrite(p) \/ WriteFails(p) PROVE GivenUpAccounted'
  <2>1. CASE WriteFails(p)
    BY <2>1, GivenUpKept DEF WriteFails, outbox
  <2> QED BY <1>5, <2>1, GivenUpApply
<1>6. ASSUME NEW c \in Cancels, CancelStep(c) PROVE GivenUpAccounted'
  <2>1. queue'.state # "failed" \/ queue' = queue
    BY <1>6 DEF CancelStep, CancelCheck, CancelLock, CancelRemove, CancelCommit, CancelAborts, NoJob
  <2>2. faults \subseteq faults' /\ recorded' = recorded /\ pending' = pending
    BY <1>6 DEF CancelStep, CancelCheck, CancelLock, CancelRemove, CancelCommit, CancelAborts,
                onlyCancel, outbox, history
  <2> QED BY <2>1, <2>2, GivenUpKept
<1> QED BY <1>1, <1>2, <1>3, <1>4, <1>5, <1>6 DEF Next

\* A job the queue gave up with no attempts left is recorded for the dead
\* letter queue once its writes are applied, unless one was lost
\* (services/job.service.ts:215, onJobFailed).
THEOREM GivenUpJobsAreDeadLettered == Spec => []GivenUpIsDeadLettered
<1>1. GivenUpAccounted => GivenUpIsDeadLettered
  BY DEF GivenUpAccounted, GivenUpIsDeadLettered
<1> QED BY <1>1, GivenUpInit, GivenUpNext, Inductive, PTL DEF Spec
=============================================================================
