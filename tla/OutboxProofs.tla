---------------------------- MODULE OutboxProofs ----------------------------
(***************************************************************************)
(* Proofs about Outbox for every number of workers, slots, events and      *)
(* deaths, and every pool and batch size.                                  *)
(***************************************************************************)
EXTENDS Outbox, FiniteSetTheorems, TLAPS

\* The parts of a task identifier are what they should be.
LEMMA TaskParts ==
    ASSUME NEW t \in Task
    PROVE  WorkerOf(t) \in Workers /\ EventOf(t) \in Events
  BY DEF Task, WorkerOf, EventOf

\* The states that hold the row lock are among those that hold a connection.
LEMMA HoldingStates ==
    /\ Holding = {"giveup", "backoff", "dispatch", "mark", "update", "marked"}
    /\ Holding \subseteq PC
  BY DEF Holding, Connected, PC

\* processOutbox starts a task only where no call is open.
LEMMA FreeSlotIsIdle ==
    ASSUME NEW w, NEW e, IdleSlots(w, e) # {}
    PROVE  pc[<<w, FreeSlot(w, e), e>>] = "idle"
  BY DEF FreeSlot, IdleSlots

\* A row that could be locked is pending, and nobody holds it.
LEMMA VerdictState ==
    ASSUME NEW e, attempts[e] = 0
    PROVE  Verdict(e) \in {"backoff", "dispatch"}
  <1>1. MaxAttempts \in Nat \ {0}
    BY OutboxAssumption
  <1>2. ~(attempts[e] >= MaxAttempts)
    BY <1>1
  <1> QED BY <1>2 DEF Verdict

-----------------------------------------------------------------------------
LEMMA TypeInit == Init => TypeOK
  BY DEF Init, TypeOK, PC

LEMMA TypeNext == TypeOK /\ [Next]_vars => TypeOK'
<1> SUFFICES ASSUME TypeOK, [Next]_vars PROVE TypeOK'
  OBVIOUS
<1> USE TaskParts DEF TypeOK, PC, rows, history
<1>1. ASSUME NEW e \in Events, Create(e) PROVE TypeOK'
  BY <1>1 DEF Create
<1>2. ASSUME NEW e \in Events, RunUpdate(e) PROVE TypeOK'
  BY <1>2 DEF RunUpdate
<1>3. CASE Tick
  BY <1>3 DEF Tick
<1>4. ASSUME NEW w \in Workers, ProcessOutbox(w) PROVE TypeOK'
  BY <1>4 DEF ProcessOutbox
<1>5. ASSUME NEW t \in Task, Connect(t) PROVE TypeOK'
  BY <1>5 DEF Connect
<1>6. ASSUME NEW t \in Task, LockAndFetchSingle(t) PROVE TypeOK'
  <2>1. Verdict(EventOf(t)) \in PC
    BY DEF Verdict
  <2> QED BY <1>6, <2>1 DEF LockAndFetchSingle
<1>7. ASSUME NEW t \in Task, DispatchEvent(t) PROVE TypeOK'
  BY <1>7 DEF DispatchEvent
<1>8. ASSUME NEW t \in Task, MarkProcessed(t) PROVE TypeOK'
  BY <1>8 DEF MarkProcessed
<1>9. ASSUME NEW t \in Task, Commit(t) PROVE TypeOK'
  BY <1>9 DEF Commit
<1>10. ASSUME NEW w \in Workers, Die(w), failures' \in [Events -> Nat]
       PROVE  TypeOK'
  <2>1. UpdatesOf(w) \subseteq Events
    BY DEF UpdatesOf
  <2>2. orphans' \subseteq Events
    BY <1>10, <2>1 DEF Die
  <2> QED BY <1>10, <2>2 DEF Die
<1>11. ASSUME NEW t \in Task, DispatchError(t) PROVE TypeOK'
  BY <1>10, <1>11 DEF DispatchError
<1>12. ASSUME NEW t \in Task, ConnectTimeout(t) PROVE TypeOK'
  BY <1>10, <1>12 DEF ConnectTimeout
<1>13. ASSUME NEW w \in Workers, Kill(w) PROVE TypeOK'
  BY <1>10, <1>13 DEF Kill
<1>14. ASSUME NEW w \in Workers, Restart(w) PROVE TypeOK'
  BY <1>14 DEF Restart
<1>15. CASE UNCHANGED vars
  BY <1>15 DEF vars
<1> QED
  BY <1>1, <1>2, <1>3, <1>4, <1>5, <1>6, <1>7, <1>8, <1>9, <1>11, <1>12,
     <1>13, <1>14, <1>15 DEF Next, TaskStep

\* Rows, connections, open transactions and history keep their types.
THEOREM TypeCorrect == Spec => []TypeOK
  BY TypeInit, TypeNext, PTL DEF Spec

-----------------------------------------------------------------------------
(* The inductive invariant.  What an action can disturb is grouped by what  *)
(* it changes: rows and queue (Create, RunUpdate, DispatchEvent), only the  *)
(* states of tasks, the death of a worker, or nothing of interest.         *)

LEMMA IInvInit == Init => IInv
<1> SUFFICES ASSUME Init PROVE IInv
  OBVIOUS
<1>1. TypeOK
  BY TypeInit
<1>2. ASSUME NEW t \in Task PROVE pc[t] = "idle"
  BY DEF Init
<1>3. NothingCounted /\ TaskOfRow /\ ExclusiveDispatch /\ UpdateAfterAdd
  BY <1>2, HoldingStates, TaskParts
     DEF Init, NothingCounted, TaskOfRow, ExclusiveDispatch, UpdateAfterAdd
<1>4. AddsCounted
  BY DEF Init, AddsCounted, Offers
<1> QED BY <1>1, <1>3, <1>4 DEF IInv

\* Nobody holds the lock of an event that could be locked.
LEMMA LockableIsFree ==
    ASSUME NEW e \in Events, Lockable(e)
    PROVE  /\ status[e] = "pending"
           /\ \A t \in Task : EventOf(t) = e => pc[t] \notin Holding
  BY DEF Lockable, Locked

\* Because a task that waits for its UPDATE holds the lock the UPDATE needs,
\* only orphans run: no task moves.
LEMMA OnlyOrphansRun ==
    ASSUME TypeOK, NEW e \in Events, RunUpdate(e)
    PROVE  e \in orphans /\ UNCHANGED pc
<1>1. ASSUME NEW t \in Task, EventOf(t) = e PROVE pc[t] \notin Holding
  BY <1>1 DEF RunUpdate, RowFree, Locked
<1>2. ASSUME NEW t \in Task PROVE ~(EventOf(t) = e /\ pc[t] = "update")
  BY <1>1, HoldingStates
<1>3. e \in orphans
  BY <1>2 DEF RunUpdate
<1>4. pc' = [t \in Task |-> pc[t]]
  BY <1>2 DEF RunUpdate
<1>5. pc' = pc
  BY <1>4 DEF TypeOK
<1> QED BY <1>3, <1>5

LEMMA CreateStep ==
    ASSUME IInv, TypeOK', NEW e \in Events, Create(e)
    PROVE  IInv'
<1> USE DEF IInv, Create, rows, history
<1>1. ASSUME NEW f \in Events, f # e PROVE status'[f] = status[f]
  BY <1>1 DEF TypeOK
<1>2. status[e] = "none" /\ status'[e] = "pending"
  BY DEF TypeOK
<1>3. NothingCounted'
  BY <1>1, <1>2 DEF NothingCounted
<1>4. TaskOfRow'
  BY <1>1, <1>2, TaskParts DEF TaskOfRow
<1>5. ExclusiveDispatch'
  BY DEF ExclusiveDispatch
<1>6. UpdateAfterAdd'
  BY <1>1, <1>2 DEF UpdateAfterAdd
<1>7. AddsCounted'
  <2>1. ASSUME NEW f \in Events PROVE Accounted(f)' <=> Accounted(f)
    BY <1>1, <1>2 DEF Accounted
  <2> QED BY <2>1 DEF AddsCounted, Offers
<1> QED BY <1>3, <1>4, <1>5, <1>6, <1>7

LEMMA RunUpdateStep ==
    ASSUME IInv, TypeOK', NEW e \in Events, RunUpdate(e)
    PROVE  IInv'
<1> USE DEF IInv, RunUpdate, rows, history
<1>1. e \in orphans /\ pc' = pc
  BY OnlyOrphansRun
<1>2. ASSUME NEW f \in Events, f # e PROVE status'[f] = status[f]
  BY <1>2 DEF TypeOK
<1>3. status'[e] = "processed"
  BY DEF TypeOK
<1>4. NothingCounted'
  BY <1>1, <1>2, <1>3 DEF NothingCounted
<1>6. TaskOfRow'
  <2>1. ASSUME NEW t \in Task, EventOf(t) = e PROVE pc[t] \notin Holding
    BY <2>1 DEF RowFree, Locked
  <2> QED BY <1>1, <1>2, <1>3, <2>1, TaskParts DEF TaskOfRow
<1>7. ExclusiveDispatch'
  BY <1>1 DEF ExclusiveDispatch
<1>8. UpdateAfterAdd'
  BY <1>1, <1>2, <1>3 DEF UpdateAfterAdd
<1>9. AddsCounted'
  <2>1. ASSUME NEW f \in Events PROVE Accounted(f) => Accounted(f)'
    BY <1>1, <1>2, <1>3 DEF Accounted
  <2> QED BY <2>1 DEF AddsCounted, Offers
<1> QED BY <1>4, <1>6, <1>7, <1>8, <1>9

LEMMA DispatchEventStep ==
    ASSUME IInv, TypeOK', NEW t \in Task, DispatchEvent(t)
    PROVE  IInv'
<1> USE TaskParts, HoldingStates DEF IInv, DispatchEvent, rows, history
<1>1. pc[t] = "dispatch" /\ pc'[t] = "mark"
  BY DEF TypeOK
<1>2. ASSUME NEW u \in Task, u # t PROVE pc'[u] = pc[u]
  BY <1>2 DEF TypeOK
<1>3. adds'[EventOf(t)] = adds[EventOf(t)] + 1
  BY DEF TypeOK
<1>4. ASSUME NEW e \in Events, e # EventOf(t) PROVE adds'[e] = adds[e]
  BY <1>4 DEF TypeOK
<1>5. NothingCounted'
  BY <1>1, <1>2 DEF NothingCounted
<1>6. TaskOfRow'
  BY <1>1, <1>2, <1>4 DEF TaskOfRow
<1>7. ExclusiveDispatch'
  <2>1. ASSUME NEW u \in Task PROVE pc'[u] \in Holding <=> pc[u] \in Holding
    BY <1>1, <1>2
  <2> QED BY <2>1 DEF ExclusiveDispatch
<1>8. UpdateAfterAdd'
  <2>1. ASSUME NEW e \in Events PROVE adds'[e] >= adds[e] /\ adds[e] \in Nat
    BY <1>3, <1>4 DEF TypeOK
  <2>2. adds'[EventOf(t)] > 0
    BY <1>3, <2>1
  <2>3. \A u \in Task : pc'[u] \in {"mark", "update"} => adds'[EventOf(u)] > 0
    <3> TAKE u \in Task
    <3>1. adds'[EventOf(u)] \in Nat
      BY DEF TypeOK
    <3>2. CASE u = t
      BY <2>2, <3>2
    <3>3. CASE u # t
      BY <1>2, <2>1, <3>1, <3>3 DEF UpdateAfterAdd
    <3> QED BY <3>2, <3>3
  <2>4. \A e \in Events :
          e \in orphans' \/ status'[e] = "processed" => adds'[e] > 0 /\ crashes' > 0
    <3> TAKE e \in Events
    <3>1. adds'[e] \in Nat
      BY DEF TypeOK
    <3> QED BY <2>1, <3>1 DEF UpdateAfterAdd
  <2> QED BY <2>3, <2>4 DEF UpdateAfterAdd
<1>9. AddsCounted'
  <2>1. ~Accounted(EventOf(t))
    <3>1. status[EventOf(t)] = "pending"
      BY <1>1 DEF TaskOfRow
    <3>2. ASSUME NEW u \in Task, EventOf(u) = EventOf(t)
          PROVE  pc[u] \notin {"mark", "update"}
      BY <1>1, <3>2 DEF ExclusiveDispatch
    <3> QED BY <3>1, <3>2 DEF Accounted
  <2>2. Accounted(EventOf(t))'
    BY <1>1 DEF Accounted
  <2>3. ASSUME NEW e \in Events PROVE Accounted(e) => Accounted(e)'
    BY <1>1, <1>2 DEF Accounted
  <2>4. Offers(EventOf(t))' <= crashes' + 1
    <3>1. Offers(EventOf(t)) <= crashes
      BY <2>1 DEF AddsCounted
    <3> QED BY <1>3, <3>1 DEF Offers, TypeOK
  <2>5. ASSUME NEW e \in Events
        PROVE  /\ Offers(e)' <= crashes' + 1
               /\ ~Accounted(e)' => Offers(e)' <= crashes'
    <3>1. CASE e = EventOf(t)
      BY <2>2, <2>4, <3>1
    <3>2. CASE e # EventOf(t)
      BY <1>4, <2>3, <3>2 DEF AddsCounted, Offers
    <3> QED BY <3>1, <3>2
  <2> QED BY <2>5 DEF AddsCounted
<1> QED BY <1>5, <1>6, <1>7, <1>8, <1>9

\* Steps that move one task and change nothing else, none of them across
\* the add: the invariant survives if the task enters the set of lock
\* holders only from LockAndFetchSingle's success.
LEMMA TaskMoveStep ==
    ASSUME IInv, TypeOK', NEW t \in Task, NEW s \in PC \ {"giveup", "marked"},
           pc' = [pc EXCEPT ![t] = s],
           UNCHANGED <<rows, orphans, history>>,
           pc[t] # "idle",
           s \in Holding => \/ pc[t] \in Holding
                            \/ Lockable(EventOf(t)),
           s \in {"mark", "update"} <=> pc[t] \in {"mark", "update"}
    PROVE  IInv'
<1> USE TaskParts, HoldingStates DEF IInv, rows, history
<1>1. pc'[t] = s
  BY DEF TypeOK
<1>2. ASSUME NEW u \in Task, u # t PROVE pc'[u] = pc[u]
  BY <1>2 DEF TypeOK
<1>3. s \in Holding => status[EventOf(t)] = "pending"
  BY LockableIsFree DEF TaskOfRow
<1>4. NothingCounted'
  BY <1>1, <1>2 DEF NothingCounted
<1>5. TaskOfRow'
  BY <1>1, <1>2, <1>3 DEF TaskOfRow
<1>6. ExclusiveDispatch'
  <2>1. ASSUME NEW u \in Task, u # t, EventOf(u) = EventOf(t), s \in Holding
        PROVE  pc[u] \notin Holding
    BY <2>1, LockableIsFree DEF ExclusiveDispatch
  <2> QED BY <1>1, <1>2, <2>1 DEF ExclusiveDispatch
<1>7. UpdateAfterAdd'
  BY <1>1, <1>2 DEF UpdateAfterAdd
<1>8. AddsCounted'
  <2>1. ASSUME NEW e \in Events PROVE Accounted(e)' <=> Accounted(e)
    BY <1>1, <1>2 DEF Accounted
  <2> QED BY <2>1 DEF AddsCounted, Offers
<1> QED BY <1>4, <1>5, <1>6, <1>7, <1>8

LEMMA ProcessOutboxStep ==
    ASSUME IInv, TypeOK', NEW w \in Workers, ProcessOutbox(w)
    PROVE  IInv'
<1> USE TaskParts, HoldingStates DEF IInv, rows, history
<1>1. UNCHANGED <<status, attempts, orphans, history>>
  BY DEF ProcessOutbox
<1>2. ASSUME NEW t \in Task
      PROVE  \/ pc'[t] = pc[t]
             \/ /\ pc[t] = "idle"
                /\ pc'[t] = "connect"
                /\ status[EventOf(t)] = "pending"
  <2>1. CASE pc'[t] # pc[t]
    <3>1. /\ WorkerOf(t) = w
          /\ EventOf(t) \in PendingBatch
          /\ IdleSlots(w, EventOf(t)) # {}
          /\ t[2] = FreeSlot(w, EventOf(t))
          /\ pc'[t] = "connect"
      BY <2>1 DEF ProcessOutbox
    <3>2. t = <<w, FreeSlot(w, EventOf(t)), EventOf(t)>>
      BY <3>1 DEF Task, WorkerOf, EventOf
    <3>3. pc[t] = "idle"
      BY <3>1, <3>2, FreeSlotIsIdle
    <3>4. status[EventOf(t)] = "pending"
      BY <3>1 DEF PendingBatch, Pending
    <3> QED BY <3>1, <3>3, <3>4
  <2> QED BY <2>1
<1>3. NothingCounted'
  BY <1>1, <1>2 DEF NothingCounted
<1>4. TaskOfRow'
  BY <1>1, <1>2 DEF TaskOfRow
<1>5. ExclusiveDispatch'
  BY <1>2 DEF ExclusiveDispatch
<1>6. UpdateAfterAdd'
  BY <1>1, <1>2 DEF UpdateAfterAdd
<1>7. AddsCounted'
  <2>1. ASSUME NEW e \in Events PROVE Accounted(e)' <=> Accounted(e)
    BY <1>1, <1>2 DEF Accounted
  <2> QED BY <1>1, <2>1 DEF AddsCounted, Offers
<1> QED BY <1>3, <1>4, <1>5, <1>6, <1>7

\* A death takes the tasks of one worker away, may leave their UPDATEs
\* behind, and pays for an add or a refusal.
LEMMA DieStep ==
    ASSUME IInv, TypeOK', NEW w \in Workers, Die(w),
           failures' = failures \/ \E t \in Task : DispatchError(t)
    PROVE  IInv'
<1> USE TaskParts, HoldingStates DEF IInv, rows
<1>1. UNCHANGED <<status, attempts, adds>> /\ crashes' = crashes + 1
  BY DEF Die
<1>2. ASSUME NEW t \in Task PROVE pc'[t] \in {"idle", pc[t]}
  BY DEF Die
<1>3. ASSUME NEW e \in Events, e \in orphans' \ orphans PROVE adds[e] > 0
  <2>1. e \in UpdatesOf(w)
    BY <1>3 DEF Die
  <2>2. PICK t \in Task : EventOf(t) = e /\ pc[t] = "update"
    BY <2>1 DEF UpdatesOf
  <2> QED BY <2>2 DEF UpdateAfterAdd
<1>4. NothingCounted'
  BY <1>1, <1>2 DEF NothingCounted
<1>5. TaskOfRow'
  BY <1>1, <1>2 DEF TaskOfRow
<1>6. ExclusiveDispatch'
  BY <1>2 DEF ExclusiveDispatch
<1>7. UpdateAfterAdd'
  <2>1. crashes' > 0
    BY <1>1 DEF TypeOK
  <2>2. \A t \in Task : pc'[t] \in {"mark", "update"} => adds'[EventOf(t)] > 0
    BY <1>1, <1>2 DEF UpdateAfterAdd
  <2>3. ASSUME NEW e \in Events, e \in orphans' \/ status'[e] = "processed"
        PROVE  adds'[e] > 0
    BY <1>1, <1>3, <2>3 DEF UpdateAfterAdd
  <2> QED BY <2>1, <2>2, <2>3 DEF UpdateAfterAdd
<1>8. AddsCounted'
  <2>1. ASSUME NEW e \in Events PROVE Offers(e)' <= crashes'
    <3>1. CASE failures'[e] = failures[e]
      BY <1>1, <3>1 DEF AddsCounted, Offers
    <3>2. CASE failures'[e] # failures[e]
      <4>1. PICK t \in Task : DispatchError(t)
        BY <3>2
      <4>2. EventOf(t) = e /\ pc[t] = "dispatch" /\ failures'[e] = failures[e] + 1
        BY <3>2, <4>1 DEF DispatchError, TypeOK
      <4>3. ~Accounted(e)
        <5>1. status[e] = "pending"
          BY <4>2 DEF TaskOfRow
        <5>2. ASSUME NEW u \in Task, EventOf(u) = e PROVE pc[u] \notin {"mark", "update"}
          BY <4>2, <5>2 DEF ExclusiveDispatch
        <5> QED BY <5>1, <5>2 DEF Accounted
      <4>4. Offers(e) <= crashes
        BY <4>3 DEF AddsCounted
      <4> QED BY <1>1, <4>2, <4>4 DEF Offers, TypeOK
    <3> QED BY <3>1, <3>2
  <2>2. ASSUME NEW e \in Events PROVE Offers(e)' <= crashes' + 1
    BY <2>1 DEF Offers, TypeOK
  <2> QED BY <2>1, <2>2 DEF AddsCounted
<1> QED BY <1>4, <1>5, <1>6, <1>7, <1>8

LEMMA IInvNext == IInv /\ [Next]_vars => IInv'
<1> SUFFICES ASSUME IInv, [Next]_vars PROVE IInv'
  OBVIOUS
<1>0. TypeOK'
  BY TypeNext DEF IInv
<1> USE <1>0
<1>1. ASSUME NEW e \in Events, Create(e) PROVE IInv'
  BY <1>1, CreateStep
<1>2. ASSUME NEW e \in Events, RunUpdate(e) PROVE IInv'
  BY <1>2, RunUpdateStep
<1>3. ASSUME UNCHANGED <<rows, pc, orphans, history>> PROVE IInv'
  BY <1>3 DEF IInv, rows, history, NothingCounted, TaskOfRow, ExclusiveDispatch,
              UpdateAfterAdd, AddsCounted, Accounted, Offers
<1>4. CASE Tick
  BY <1>3, <1>4 DEF Tick, history
<1>5. ASSUME NEW w \in Workers, ProcessOutbox(w) PROVE IInv'
  BY <1>5, ProcessOutboxStep
<1>6. ASSUME NEW t \in Task, Connect(t) PROVE IInv'
  BY <1>6, TaskMoveStep, HoldingStates DEF Connect, history, PC
<1>7. ASSUME NEW t \in Task, LockAndFetchSingle(t) PROVE IInv'
  <2>1. attempts[EventOf(t)] = 0
    BY TaskParts DEF IInv, NothingCounted
  <2>2. Verdict(EventOf(t)) \in {"backoff", "dispatch"}
    BY <2>1, VerdictState
  <2>3. CASE Lockable(EventOf(t))
    <3>1. pc' = [pc EXCEPT ![t] = Verdict(EventOf(t))]
      BY <1>7, <2>3 DEF LockAndFetchSingle
    <3> QED
      BY <1>7, <2>2, <2>3, <3>1, TaskMoveStep, HoldingStates
         DEF LockAndFetchSingle, history, PC
  <2>4. CASE ~Lockable(EventOf(t))
    <3>1. pc' = [pc EXCEPT ![t] = "skipped"]
      BY <1>7, <2>4 DEF LockAndFetchSingle
    <3> QED
      BY <1>7, <3>1, TaskMoveStep, HoldingStates
         DEF LockAndFetchSingle, history, PC
  <2> QED BY <2>3, <2>4
<1>8. ASSUME NEW t \in Task, DispatchEvent(t) PROVE IInv'
  BY <1>8, DispatchEventStep
<1>9. ASSUME NEW t \in Task, MarkProcessed(t) PROVE IInv'
  BY <1>9, TaskMoveStep, HoldingStates DEF MarkProcessed, history, PC
<1>10. ASSUME NEW t \in Task, Commit(t) PROVE IInv'
  <2>1. pc[t] \in {"skipped", "backoff"}
    BY <1>10 DEF Commit, IInv, NothingCounted
  <2>2. UNCHANGED <<rows, orphans, history>>
    BY <1>10, <2>1 DEF Commit, rows, history
  <2> QED
    BY <1>10, <2>1, <2>2, TaskMoveStep, HoldingStates DEF Commit, PC
<1>11. ASSUME NEW t \in Task, DispatchError(t) \/ ConnectTimeout(t) PROVE IInv'
  BY <1>11, DieStep, TaskParts DEF DispatchError, ConnectTimeout
<1>12. ASSUME NEW w \in Workers, Kill(w) PROVE IInv'
  BY <1>12, DieStep DEF Kill
<1>13. ASSUME NEW w \in Workers, Restart(w) PROVE IInv'
  BY <1>3, <1>13 DEF Restart, history
<1>14. CASE UNCHANGED vars
  BY <1>3, <1>14 DEF vars, rows, history
<1> QED
  BY <1>1, <1>2, <1>4, <1>5, <1>6, <1>7, <1>8, <1>9, <1>10, <1>11, <1>12,
     <1>13, <1>14 DEF Next, TaskStep

\* The invariant that the properties below follow from.
THEOREM Inductive == Spec => []IInv
  BY IInvInit, IInvNext, PTL DEF Spec

\* No two transactions, of whatever workers and polls, ever dispatch the
\* same event concurrently.
THEOREM DispatchIsExclusive == Spec => []ExclusiveDispatch
<1>1. IInv => ExclusiveDispatch
  BY DEF IInv
<1> QED BY <1>1, Inductive, PTL

\* A processed row was handed to the queue before.
THEOREM ProcessedIsEnqueued == Spec => []ProcessedWasEnqueued
<1>1. IInv => ProcessedWasEnqueued
  BY DEF IInv, UpdateAfterAdd, ProcessedWasEnqueued
<1> QED BY <1>1, Inductive, PTL

\* One duplicate or refusal per death, at most.
THEOREM OffersBounded == Spec => []OffersNeedCrashes
<1>1. IInv => OffersNeedCrashes
  BY DEF IInv, AddsCounted, OffersNeedCrashes
<1> QED BY <1>1, Inductive, PTL

\* Without a death no row is ever marked processed, for any pool size: the
\* second connection does not help, the row lock is what is missing.
THEOREM NothingProcessedAlive == Spec => []ProcessedOnlyAfterCrash
<1>1. IInv => ProcessedOnlyAfterCrash
  BY DEF IInv, UpdateAfterAdd, ProcessedOnlyAfterCrash
<1> QED BY <1>1, Inductive, PTL

\* A processed row is never dispatched again and never leaves "processed".
THEOREM ProcessedStays == Spec => ProcessedIsFinal
<1>1. ASSUME IInv, [Next]_vars, NEW e \in Events, status[e] = "processed"
      PROVE  status'[e] = "processed" /\ adds'[e] = adds[e]
  <2> USE <1>1, TaskParts, HoldingStates DEF IInv
  <2>1. ASSUME NEW f \in Events, Create(f) \/ RunUpdate(f)
        PROVE  status'[e] = "processed" /\ adds'[e] = adds[e]
    BY <2>1 DEF Create, RunUpdate, history, TypeOK
  <2>2. CASE Tick
    BY <2>2 DEF Tick, rows, history
  <2>3. ASSUME NEW w \in Workers, ProcessOutbox(w) \/ Kill(w) \/ Restart(w)
        PROVE  UNCHANGED <<status, adds>>
    BY <2>3 DEF ProcessOutbox, Kill, Die, Restart, rows, history
  <2>4. ASSUME NEW t \in Task, DispatchEvent(t)
        PROVE  UNCHANGED status /\ adds'[e] = adds[e]
    <3>1. status[EventOf(t)] = "pending"
      BY <2>4 DEF DispatchEvent, TaskOfRow
    <3> QED BY <2>4, <3>1 DEF DispatchEvent, rows, TypeOK
  <2>5. ASSUME NEW t \in Task, Commit(t)
        PROVE  UNCHANGED <<status, adds>>
    BY <2>5 DEF Commit, NothingCounted, history
  <2>6. ASSUME NEW t \in Task,
               \/ Connect(t) \/ LockAndFetchSingle(t) \/ MarkProcessed(t)
               \/ DispatchError(t) \/ ConnectTimeout(t)
        PROVE  UNCHANGED <<status, adds>>
    BY <2>6 DEF Connect, LockAndFetchSingle, MarkProcessed, DispatchError,
                ConnectTimeout, Die, rows, history
  <2>7. CASE UNCHANGED vars
    BY <2>7 DEF vars
  <2> QED
    BY <2>1, <2>2, <2>3, <2>4, <2>5, <2>6, <2>7 DEF Next, TaskStep
<1>2. IInv /\ [Next]_vars =>
        [\A e \in Events : status[e] = "processed" =>
            status'[e] = "processed" /\ adds'[e] = adds[e]]_vars
  BY <1>1
<1> QED BY <1>2, Inductive, PTL DEF Spec, ProcessedIsFinal

-----------------------------------------------------------------------------
(* The outbox keeps the abstract promise.                                  *)

LEMMA DeliveryInitially == Init => Delivery!DeliveryInit
  BY DEF Init, Delivery!DeliveryInit

LEMMA DeliveryStep ==
    IInv /\ [Next]_vars => [Delivery!DeliveryNext]_(Delivery!deliveryVars)
<1> SUFFICES ASSUME IInv, [Next]_vars
             PROVE  [Delivery!DeliveryNext]_(Delivery!deliveryVars)
  OBVIOUS
<1> USE TaskParts, HoldingStates DEF IInv
<1>1. ASSUME UNCHANGED <<status, adds>>
      PROVE  UNCHANGED Delivery!deliveryVars
  BY <1>1 DEF Delivery!deliveryVars
<1>2. ASSUME NEW e \in Events, Create(e) PROVE Delivery!Record(e)
  BY <1>2 DEF Create, history, Delivery!Record, TypeOK
<1>3. ASSUME NEW e \in Events, RunUpdate(e)
      PROVE  Delivery!Ack(e) \/ UNCHANGED Delivery!deliveryVars
  <2>1. e \in orphans /\ adds[e] > 0
    BY <1>3, OnlyOrphansRun DEF UpdateAfterAdd
  <2>2. status' = [status EXCEPT ![e] = "processed"] /\ UNCHANGED adds
    BY <1>3 DEF RunUpdate, history
  <2>3. CASE status[e] = "processed"
    <3>1. status' = status
      BY <2>2, <2>3 DEF TypeOK
    <3> QED BY <1>1, <2>2, <3>1
  <2>4. CASE status[e] # "processed"
    <3>1. status[e] # "none"
      BY <2>1 DEF TaskOfRow
    <3>2. \A f \in Events : status'[f] = IF f = e THEN "processed" ELSE status[f]
      BY <2>2 DEF TypeOK
    <3> QED BY <2>1, <2>2, <2>4, <3>1, <3>2 DEF Delivery!Ack
  <2> QED BY <2>3, <2>4
<1>4. ASSUME NEW t \in Task, DispatchEvent(t)
      PROVE  Delivery!Deliver(EventOf(t))
  <2>1. status[EventOf(t)] = "pending" /\ UNCHANGED status
    BY <1>4 DEF DispatchEvent, TaskOfRow, rows
  <2>2. adds' = [adds EXCEPT ![EventOf(t)] = adds[EventOf(t)] + 1]
    BY <1>4 DEF DispatchEvent
  <2>3. ASSUME NEW e \in Events
        PROVE  adds'[e] > 0 <=> adds[e] > 0 \/ e = EventOf(t)
    BY <2>2 DEF TypeOK
  <2> QED BY <2>1, <2>3 DEF Delivery!Deliver
<1>5. CASE Tick
  BY <1>1, <1>5 DEF Tick, rows, history
<1>6. ASSUME NEW w \in Workers, ProcessOutbox(w) \/ Kill(w) \/ Restart(w)
      PROVE  UNCHANGED Delivery!deliveryVars
  BY <1>1, <1>6 DEF ProcessOutbox, Kill, Die, Restart, rows, history
<1>7. ASSUME NEW t \in Task, Commit(t)
      PROVE  UNCHANGED Delivery!deliveryVars
  BY <1>1, <1>7 DEF Commit, NothingCounted, history
<1>8. ASSUME NEW t \in Task,
             \/ Connect(t) \/ LockAndFetchSingle(t) \/ MarkProcessed(t)
             \/ DispatchError(t) \/ ConnectTimeout(t)
      PROVE  UNCHANGED Delivery!deliveryVars
  BY <1>1, <1>8 DEF Connect, LockAndFetchSingle, MarkProcessed, DispatchError,
                    ConnectTimeout, Die, rows, history
<1>9. CASE UNCHANGED vars
  BY <1>1, <1>9 DEF vars
<1> QED
  BY <1>2, <1>3, <1>4, <1>5, <1>6, <1>7, <1>8, <1>9
     DEF Next, TaskStep, Delivery!DeliveryNext

\* Every behaviour of the outbox workers is one of OutboxDelivery: events
\* are recorded first, delivered at least once before they are acknowledged,
\* and not delivered again afterwards.
THEOREM Implementation == Spec => ImplementsDelivery
<1> QED
  BY DeliveryInitially, DeliveryStep, Inductive, PTL
     DEF Spec, ImplementsDelivery, Delivery!DeliverySpec

-----------------------------------------------------------------------------
(* The pool.                                                               *)

\* Fewer transactions, and fewer updates, use fewer connections; one more of
\* either uses at most one more.
LEMMA UsedGrowth ==
    ASSUME NEW C, IsFiniteSet(C), NEW U, U \subseteq C,
           NEW D, NEW V, V \subseteq D, NEW x, NEW y,
           D \subseteq C \cup {x}, V \subseteq U \cup {y}
    PROVE  /\ IsFiniteSet(D)
           /\ Cardinality(D) <= Cardinality(C) + 1
           /\ Cardinality(V) <= Cardinality(U) + 1
           /\ D \subseteq C => Cardinality(D) <= Cardinality(C)
           /\ V \subseteq U => Cardinality(V) <= Cardinality(U)
           /\ Cardinality(C) \in Nat /\ Cardinality(U) \in Nat
           /\ Cardinality(D) \in Nat /\ Cardinality(V) \in Nat
<1>1. IsFiniteSet(U) /\ IsFiniteSet(C \cup {x}) /\ IsFiniteSet(U \cup {y})
  BY FS_Subset, FS_AddElement
<1>2. IsFiniteSet(D) /\ IsFiniteSet(V)
  BY <1>1, FS_Subset
<1>3. /\ Cardinality(C) \in Nat /\ Cardinality(U) \in Nat
      /\ Cardinality(D) \in Nat /\ Cardinality(V) \in Nat
  BY <1>1, <1>2, FS_CardinalityType
<1>4. /\ Cardinality(C \cup {x}) <= Cardinality(C) + 1
      /\ Cardinality(U \cup {y}) <= Cardinality(U) + 1
      /\ Cardinality(C \cup {x}) \in Nat /\ Cardinality(U \cup {y}) \in Nat
  BY <1>1, <1>3, FS_AddElement, FS_CardinalityType
<1>5. Cardinality(D) <= Cardinality(C \cup {x}) /\ Cardinality(V) <= Cardinality(U \cup {y})
  BY <1>1, FS_Subset
<1>6. /\ D \subseteq C => Cardinality(D) <= Cardinality(C)
      /\ V \subseteq U => Cardinality(V) <= Cardinality(U)
  BY <1>1, FS_Subset
<1> QED BY <1>2, <1>3, <1>4, <1>5, <1>6

\* No step opens a transaction or sends an UPDATE but Connect and
\* MarkProcessed, which see to the pool first.
LEMMA PoolUse ==
    ASSUME IInv, [Next]_vars, NEW w \in Workers
    PROVE  \/ Open(w)' \subseteq Open(w) /\ Updating(w)' \subseteq Updating(w)
           \/ /\ HasConnection(w)
              /\ \E t \in Task : \/ /\ Open(w)' \subseteq Open(w) \cup {t}
                                   /\ Updating(w)' \subseteq Updating(w)
                                \/ /\ Open(w)' \subseteq Open(w)
                                   /\ Updating(w)' \subseteq Updating(w) \cup {t}
<1> USE TaskParts DEF IInv, TypeOK, Open, Updating, Connected, PC
<1>1. ASSUME NEW t \in Task, Connect(t)
      PROVE  /\ \A u \in Task \ {t} : pc'[u] = pc[u]
             /\ pc'[t] = "begun" /\ HasConnection(WorkerOf(t))
  BY <1>1 DEF Connect
<1>2. ASSUME NEW t \in Task, MarkProcessed(t)
      PROVE  /\ \A u \in Task \ {t} : pc'[u] = pc[u]
             /\ pc[t] = "mark" /\ pc'[t] = "update" /\ HasConnection(WorkerOf(t))
  BY <1>2 DEF MarkProcessed
<1>3. ASSUME NEW t \in Task, LockAndFetchSingle(t) \/ DispatchEvent(t) \/ Commit(t)
      PROVE  /\ \A u \in Task \ {t} : pc'[u] = pc[u]
             /\ pc[t] \in Connected /\ pc'[t] # "update"
  BY <1>3 DEF LockAndFetchSingle, DispatchEvent, Commit, Verdict
<1>4. ASSUME NEW v \in Workers, ProcessOutbox(v), NEW u \in Task
      PROVE  pc'[u] \in {pc[u], "connect"}
  BY <1>4 DEF ProcessOutbox
<1>5. ASSUME NEW v \in Workers, Die(v), NEW u \in Task
      PROVE  pc'[u] \in {pc[u], "idle"}
  BY <1>5 DEF Die
<1>6. ASSUME NEW e \in Events, Create(e) \/ RunUpdate(e)
      PROVE  UNCHANGED pc
  BY <1>6, OnlyOrphansRun DEF Create
<1>7. CASE UNCHANGED pc
  BY <1>7
<1>8. ASSUME NEW t \in Task, TaskStep(t)
      PROVE  \/ Open(w)' \subseteq Open(w) /\ Updating(w)' \subseteq Updating(w)
             \/ /\ HasConnection(w)
                /\ \/ /\ Open(w)' \subseteq Open(w) \cup {t}
                      /\ Updating(w)' \subseteq Updating(w)
                   \/ /\ Open(w)' \subseteq Open(w)
                      /\ Updating(w)' \subseteq Updating(w) \cup {t}
  BY <1>1, <1>2, <1>3, <1>8 DEF TaskStep
<1>9. CASE \E v \in Workers : ProcessOutbox(v)
  BY <1>4, <1>9
<1>10. CASE \E v \in Workers : Die(v)
  BY <1>5, <1>10
<1>11. \/ UNCHANGED pc
       \/ \E v \in Workers : ProcessOutbox(v)
       \/ \E v \in Workers : Die(v)
       \/ \E t \in Task : TaskStep(t)
  BY <1>6 DEF Next, Tick, Kill, Restart, DispatchError, ConnectTimeout, vars
<1> QED BY <1>7, <1>8, <1>9, <1>10, <1>11

LEMMA PoolInit == Init => PoolInv
<1> SUFFICES ASSUME Init, NEW w \in Workers PROVE IsFiniteSet(Open(w)) /\ Used(w) <= PoolMax
  BY DEF PoolInv, PoolIsRespected
<1>1. Open(w) = {} /\ Updating(w) = {}
  BY DEF Init, Open, Updating, Connected, PC
<1> QED BY <1>1, FS_EmptySet, OutboxAssumption DEF Used

LEMMA PoolNext == IInv /\ PoolInv /\ [Next]_vars => PoolInv'
<1> SUFFICES ASSUME IInv, PoolInv, [Next]_vars, NEW w \in Workers
             PROVE  IsFiniteSet(Open(w)') /\ Used(w)' <= PoolMax
  BY DEF PoolInv, PoolIsRespected
<1>1. IsFiniteSet(Open(w)) /\ Used(w) <= PoolMax /\ PoolMax \in Nat
  BY OutboxAssumption DEF PoolInv, PoolIsRespected
<1> DEFINE C == Open(w)  U == Updating(w)  D == Open(w)'  V == Updating(w)'
<1>2. U \subseteq C /\ V \subseteq D
  BY DEF Updating
<1>3. /\ Used(w) = Cardinality(C) + Cardinality(U)
      /\ Used(w)' = Cardinality(D) + Cardinality(V)
  BY DEF Used
<1>4. \/ D \subseteq C /\ V \subseteq U
      \/ HasConnection(w) /\ \E t : D \subseteq C \cup {t} /\ V \subseteq U
      \/ HasConnection(w) /\ \E t : D \subseteq C /\ V \subseteq U \cup {t}
  BY PoolUse
<1>5. HasConnection(w) => Used(w) < PoolMax
  BY DEF HasConnection
<1> HIDE DEF C, U, D, V
<1>6. ASSUME D \subseteq C, V \subseteq U
      PROVE  IsFiniteSet(D) /\ Used(w)' <= PoolMax
  <2>1. D \subseteq C \cup {0} /\ V \subseteq U \cup {0}
    BY <1>6
  <2>2. /\ IsFiniteSet(D)
        /\ Cardinality(D) <= Cardinality(C) /\ Cardinality(V) <= Cardinality(U)
        /\ Cardinality(C) \in Nat /\ Cardinality(U) \in Nat
        /\ Cardinality(D) \in Nat /\ Cardinality(V) \in Nat
    BY <1>1, <1>2, <1>6, <2>1, UsedGrowth DEF C
  <2> QED BY <1>1, <1>3, <2>2
<1>7. ASSUME HasConnection(w), NEW t, D \subseteq C \cup {t}, V \subseteq U
      PROVE  IsFiniteSet(D) /\ Used(w)' <= PoolMax
  <2>1. V \subseteq U \cup {t}
    BY <1>7
  <2>2. /\ IsFiniteSet(D)
        /\ Cardinality(D) <= Cardinality(C) + 1
        /\ V \subseteq U => Cardinality(V) <= Cardinality(U)
        /\ Cardinality(C) \in Nat /\ Cardinality(U) \in Nat
        /\ Cardinality(D) \in Nat /\ Cardinality(V) \in Nat
    <3>1. IsFiniteSet(C)
      BY <1>1 DEF C
    <3> QED BY <1>2, <1>7, <2>1, <3>1, UsedGrowth
  <2> QED BY <1>1, <1>3, <1>5, <1>7, <2>2
<1>8. ASSUME HasConnection(w), NEW t, D \subseteq C, V \subseteq U \cup {t}
      PROVE  IsFiniteSet(D) /\ Used(w)' <= PoolMax
  <2>1. D \subseteq C \cup {t}
    BY <1>8
  <2>2. /\ IsFiniteSet(D)
        /\ Cardinality(D) <= Cardinality(C) /\ Cardinality(V) <= Cardinality(U) + 1
        /\ Cardinality(C) \in Nat /\ Cardinality(U) \in Nat
        /\ Cardinality(D) \in Nat /\ Cardinality(V) \in Nat
    BY <1>1, <1>2, <1>8, <2>1, UsedGrowth DEF C
  <2> QED BY <1>1, <1>3, <1>5, <1>8, <2>2
<1> QED BY <1>4, <1>6, <1>7, <1>8 DEF D

LEMMA PoolInductive == Spec => []PoolInv
  BY PoolInit, PoolNext, Inductive, PTL DEF Spec

\* The pool's limit holds, counted as the code takes connections: one per
\* transaction and one per markProcessed inside it (database/client.ts:17).
THEOREM PoolIsNotOverdrawn == Spec => []PoolIsRespected
<1>1. PoolInv => PoolIsRespected
  BY DEF PoolInv
<1> QED BY <1>1, PoolInductive, PTL

-----------------------------------------------------------------------------
(* Transactions that wait for themselves.                                  *)

LEMMA UpdateWaits ==
    ASSUME IInv, [Next]_vars, NEW t \in Task, pc[t] = "update"
    PROVE  pc'[t] = "update" \/ ~up'[WorkerOf(t)]
<1> USE TaskParts DEF IInv, TypeOK, PC
<1>1. ASSUME NEW u \in Task, TaskStep(u) PROVE pc'[t] = pc[t]
  <2>1. pc[u] # "update"
    BY <1>1 DEF TaskStep, Connect, LockAndFetchSingle, DispatchEvent, MarkProcessed, Commit
  <2>2. t # u
    BY <2>1
  <2> QED BY <1>1, <2>2 DEF TaskStep, Connect, LockAndFetchSingle, DispatchEvent, MarkProcessed, Commit
<1>2. ASSUME NEW w \in Workers, ProcessOutbox(w) PROVE pc'[t] = pc[t]
  <2>1. CASE /\ WorkerOf(t) = w /\ EventOf(t) \in PendingBatch
             /\ IdleSlots(w, EventOf(t)) # {}
             /\ t[2] = FreeSlot(w, EventOf(t))
    <3>1. t = <<w, FreeSlot(w, EventOf(t)), EventOf(t)>>
      BY <2>1 DEF Task, WorkerOf, EventOf
    <3>2. pc[t] = "idle"
      BY <2>1, <3>1, FreeSlotIsIdle
    <3> QED BY <3>2
  <2>2. CASE ~ /\ WorkerOf(t) = w /\ EventOf(t) \in PendingBatch
               /\ IdleSlots(w, EventOf(t)) # {}
               /\ t[2] = FreeSlot(w, EventOf(t))
    BY <1>2, <2>2 DEF ProcessOutbox
  <2> QED BY <2>1, <2>2
<1>3. ASSUME NEW w \in Workers, Die(w) PROVE pc'[t] = pc[t] \/ ~up'[WorkerOf(t)]
  BY <1>3 DEF Die
<1>4. ASSUME NEW e \in Events, Create(e) \/ RunUpdate(e)
      PROVE  UNCHANGED pc
  BY <1>4, OnlyOrphansRun DEF Create
<1> QED
  BY <1>1, <1>2, <1>3, <1>4 DEF Next, Tick, Kill, Restart, DispatchError, ConnectTimeout, vars

\* The UPDATE of markProcessed never returns to the transaction that awaits
\* it, for any pool size (workers/outbox.worker.ts:179).
THEOREM UpdatesWaitForDeath == Spec => UpdateWaitsForDeath
<1>1. IInv /\ [Next]_vars =>
        [\A t \in Task : pc[t] = "update" => pc'[t] = "update" \/ ~up'[WorkerOf(t)]]_vars
  BY UpdateWaits
<1> QED BY <1>1, Inductive, PTL DEF Spec, UpdateWaitsForDeath

\* A worker that has marked half as many events as its pool has connections
\* delivers nothing more in this life, whatever the pool's size: the general
\* form of what the run outbox_pool shows for a pool of two.
THEOREM LostPoolStaysLost == Spec => PoolIsLostForGood
<1>1. ASSUME IInv, PoolInv, PoolInv', [Next]_vars, NEW w \in Workers, PoolLost(w), up'[w]
      PROVE  PoolLost(w)' /\ Open(w)' \subseteq Open(w)
  <2>0. PoolMax \in Nat
    BY OutboxAssumption
  <2>1. Updating(w) \subseteq Updating(w)'
    <3>1. ASSUME NEW t \in Updating(w) PROVE t \in Updating(w)'
      <4>1. pc'[t] = "update"
        BY <1>1, <3>1, UpdateWaits DEF Updating, Open
      <4> QED BY <3>1, <4>1 DEF Updating, Open, Connected, PC
    <3> QED BY <3>1
  <2>2. IsFiniteSet(Open(w)) /\ IsFiniteSet(Open(w)') /\ Used(w) <= PoolMax
    BY <1>1 DEF PoolInv, PoolIsRespected
  <2>3. Updating(w) \subseteq Open(w) /\ Updating(w)' \subseteq Open(w)'
    BY DEF Updating
  <2>4. /\ IsFiniteSet(Updating(w)) /\ IsFiniteSet(Updating(w)')
        /\ Cardinality(Updating(w)) <= Cardinality(Open(w))
    BY <2>2, <2>3, FS_Subset
  <2>5. /\ Cardinality(Updating(w)) <= Cardinality(Updating(w)')
        /\ Cardinality(Updating(w)) \in Nat /\ Cardinality(Updating(w)') \in Nat
        /\ Cardinality(Open(w)) \in Nat
    BY <2>1, <2>2, <2>4, FS_Subset, FS_CardinalityType
  <2>6. PoolLost(w)'
    BY <1>1, <2>0, <2>5 DEF PoolLost
  <2>7. ~HasConnection(w)
    BY <1>1, <2>0, <2>2, <2>4, <2>5 DEF PoolLost, Used, HasConnection
  <2>8. Open(w)' \subseteq Open(w)
    <3>1. (Open(w)' \subseteq Open(w) /\ Updating(w)' \subseteq Updating(w)) \/ HasConnection(w)
      BY <1>1, PoolUse
    <3> QED BY <2>7, <3>1
  <2> QED BY <2>6, <2>8
<1>2. IInv /\ PoolInv /\ [Next]_vars =>
        [\A w \in Workers : PoolLost(w) => \/ PoolLost(w)' /\ Open(w)' \subseteq Open(w)
                                           \/ ~up'[w]]_vars
  BY <1>1, PoolNext
<1> QED BY <1>2, Inductive, PoolInductive, PTL DEF Spec, PoolIsLostForGood
=============================================================================
