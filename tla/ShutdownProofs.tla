---------------------------- MODULE ShutdownProofs ----------------------------
(***************************************************************************)
(* Proofs about Shutdown, for any set of tasks, pool size and number of    *)
(* signals.  There are three kinds of step: one task moves, the process    *)
(* exits, or only the shutdown itself goes on.                             *)
(***************************************************************************)
EXTENDS Shutdown, TLAPS

Live == {"idle", "running", "open", "dispatched", "stuck", "waiting", "between", "marking",
         "done", "failed"}

ConnectionTypes ==
    /\ redis \in {"open", "quitting", "closed", "reopened"}
    /\ queue \in [Queues -> {"none", "first", "second"}]

\* Most steps leave Redis alone.
LEMMA Disconnected ==
    ASSUME SInv
    PROVE  /\ ConnectionTypes
           /\ UNCHANGED <<redis, queue>> => ConnectionTypes'
           /\ UNCHANGED state => /\ UNCHANGED <<role, signals, worker, ending, redis, queue, broken>>
                                 /\ ConnectionTypes'
           /\ redis' \in {"open", "quitting", "closed", "reopened"} /\ queue' = queue
                 => ConnectionTypes'
           /\ role \in {"api", "queue", "outbox"} /\ signals \in 0 .. MaxSignals /\ signals \in Nat
           /\ worker \in {"open", "closing", "closed"} /\ ending \in BOOLEAN
           /\ broken \in BOOLEAN /\ polling \in BOOLEAN
BY ShutdownAssumption DEF SInv, TypeOK, ConnectionTypes, state, connections

\* Getting a queue or the connection does no harm to either.
LEMMA Reconnected ==
    ASSUME SInv
    PROVE  /\ GetRedisConnection /\ UNCHANGED queue => ConnectionTypes'
           /\ \A q \in Queues : GetQueue(q) => ConnectionTypes'
BY DEF SInv, TypeOK, ConnectionTypes, GetRedisConnection, GetQueue

LEMMA SInvInit == Init => SInv
<1>1. ASSUME Init PROVE TypeOK
  <2>1. 0 \in 0 .. MaxSignals
    BY ShutdownAssumption
  <2>2. st \in [Tasks -> {"idle"}]
    BY <1>1 DEF Init
  <2>. QED
    BY <1>1, <2>1, <2>2 DEF Init, TypeOK
<1>2. ASSUME Init, NEW t \in Tasks PROVE st[t] = "idle"
  BY <1>2 DEF Init
<1>. QED
  BY <1>1, <1>2 DEF Init, SInv, CleanExitCutsNothing, JobsAreNotInterrupted, FailureHasReason

\* One task moves, as its role allows, and the rest stays.
LEMMA TaskMoves ==
    ASSUME SInv, exit = "none", NEW t \in Tasks, NEW s \in Live,
           st' = [st EXCEPT ![t] = s], UNCHANGED <<role, signals, worker, ending, broken, exit>>,
           ConnectionTypes', polling' \in BOOLEAN, polling' => role = "outbox",
           s = "running" => role = "queue" /\ worker # "closed",
           s \in {"dispatched", "marking", "stuck"} => role = "outbox",
           t \in added => s \in {"dispatched", "marking", "stuck"},
           added' = added \/ (added' = added \cup {t} /\ s = "dispatched")
    PROVE  SInv'
<1>1. TypeOK'
  BY DEF SInv, TypeOK, ConnectionTypes, Live, Waiting, Ended
<1>2. \A u \in Tasks : st'[u] = IF u = t THEN s ELSE st[u]
  BY DEF SInv, TypeOK
<1>3. s \notin {"cut", "interrupted", "lost"}
  BY DEF Live
<1>4. added \subseteq Tasks
  BY DEF SInv, TypeOK
<1>. QED
  BY <1>1, <1>2, <1>3, <1>4
     DEF SInv, CleanExitCutsNothing, JobsAreNotInterrupted, FailureHasReason

\* The process exits, for a reason its role allows.
LEMMA Exits ==
    ASSUME SInv, exit = "none", NEW code \in {"zero", "one"},
           ProcessExits(code), UNCHANGED <<role, added>>, broken' \in BOOLEAN,
           signals' \in 0 .. MaxSignals, signals <= signals',
           worker' \in {"open", "closing", "closed"}, ending' \in BOOLEAN,
           ConnectionTypes',
           code = "zero" => InTransaction = {},
           (\E t \in Tasks : st[t] = "running") => broken',
           worker' # "open" => signals' > 0,
           role = "queue" => (ending' => worker' = "closed"),
           role # "queue" => worker' = "open" /\ (ending' => signals' > 0),
           code = "one" /\ ~broken' => (role = "queue" => signals' > 1) /\ (role = "api" => signals' > 0)
    PROVE  SInv'
<1>1. \A t \in Tasks :
        /\ st[t] \in {"open", "dispatched", "marking", "stuck"} => st'[t] = "cut"
        /\ st[t] = "running" => st'[t] = "interrupted"
        /\ st[t] \in {"waiting", "between"} => st'[t] = "lost"
        /\ st[t] \notin {"open", "dispatched", "marking", "stuck", "running", "waiting", "between"}
             => st'[t] = st[t]
  BY DEF ProcessExits, InTransaction, Waiting
<1>2. st' \in [Tasks -> {"idle", "running", "open", "dispatched", "marking", "stuck"} \cup Waiting \cup Ended]
  <2>1. \A t \in Tasks :
          (CASE t \in InTransaction -> "cut"
             [] st[t] = "running" -> "interrupted"
             [] st[t] \in Waiting -> "lost"
             [] OTHER -> st[t])
          \in {"idle", "running", "open", "dispatched", "marking", "stuck"} \cup Waiting \cup Ended
    BY DEF SInv, TypeOK, Ended
  <2>. QED
    BY <2>1 DEF ProcessExits
<1>3. TypeOK' /\ polling' = FALSE
  BY <1>2 DEF SInv, TypeOK, ConnectionTypes, ProcessExits
<1>4. \A t \in Tasks : st[t] \notin {"cut", "interrupted", "lost"}
  BY DEF SInv
<1>5. \A t \in Tasks : st'[t] \notin {"open", "dispatched", "marking", "stuck", "running"}
  BY <1>1
<1>6. exit' = code /\ InTransaction' = {}
  BY <1>5 DEF ProcessExits, InTransaction
<1>7. \A t \in added : st'[t] = "cut"
  BY <1>1 DEF SInv, TypeOK
<1>8. CleanExitCutsNothing'
  BY <1>1, <1>4, <1>6 DEF CleanExitCutsNothing, InTransaction, SInv, TypeOK
<1>9. JobsAreNotInterrupted' /\ FailureHasReason'
  BY <1>1, <1>4, <1>6 DEF JobsAreNotInterrupted, FailureHasReason, SInv, TypeOK
<1>. QED
  BY <1>3, <1>5, <1>6, <1>7, <1>8, <1>9 DEF SInv

\* The shutdown goes on, the tasks stay where they are.
LEMMA ShutsDown ==
    ASSUME SInv, exit = "none", UNCHANGED <<role, broken, st, added, exit>>, polling' \in BOOLEAN, polling' => role = "outbox",
           signals' \in 0 .. MaxSignals, signals <= signals',
           worker' \in {"open", "closing", "closed"}, ending' \in BOOLEAN,
           ConnectionTypes',
           worker' # "open" => signals' > 0,
           worker' = "closed" => \A t \in Tasks : st[t] # "running",
           role = "queue" => (ending' => worker' = "closed"),
           role # "queue" => worker' = "open" /\ (ending' => signals' > 0)
    PROVE  SInv'
<1>1. TypeOK'
  BY DEF SInv, TypeOK, ConnectionTypes
<1>2. InTransaction' = InTransaction
  BY DEF InTransaction
<1>. QED
  BY <1>1, <1>2 DEF SInv, CleanExitCutsNothing, JobsAreNotInterrupted, FailureHasReason

\* An error ends the outbox worker, and only the task elsewhere.
LEMMA RejectedStep ==
    ASSUME SInv, exit = "none", NEW t \in Tasks, st[t] # "done",
           Rejected(t), UNCHANGED <<state, added>>
    PROVE  SInv'
<1>1. CASE role = "outbox"
  <2>1. ProcessExits("one")
    BY <1>1 DEF Rejected
  <2>2. \A u \in Tasks : st[u] # "running"
    BY <1>1 DEF SInv
  <2>. QED
    BY <1>1, <2>1, <2>2, Exits, Disconnected DEF SInv, TypeOK, state
<1>2. CASE role # "outbox"
  <2>1. st' = [st EXCEPT ![t] = "failed"] /\ UNCHANGED <<polling, exit>>
    BY <1>2 DEF Rejected
  <2>2. added = {}
    BY <1>2 DEF SInv
  <2>. QED
    BY <1>2, <2>1, <2>2, TaskMoves, Disconnected DEF Live, SInv, TypeOK
<1>. QED
  BY <1>1, <1>2

\* A task asks for a connection.
LEMMA AsksStep ==
    ASSUME SInv, exit = "none", NEW t \in Tasks, st[t] # "done",
           NEW q \in {"waiting", "marking"}, NEW s \in {"open", "stuck"},
           \/ q = "waiting" /\ s = "open" /\ t \notin added
           \/ q = "marking" /\ s = "stuck" /\ role = "outbox",
           Asks(t, q, s), UNCHANGED <<state, added>>
    PROVE  SInv'
<1>1. CASE ending
  BY <1>1, RejectedStep DEF Asks
<1>2. CASE ~ending
  <2>1. PICK x \in {q, s} : st' = [st EXCEPT ![t] = x]
    BY <1>2 DEF Asks
  <2>2. UNCHANGED <<polling, exit>>
    BY <1>2 DEF Asks
  <2>. QED
    BY <2>1, <2>2, TaskMoves, Disconnected DEF Live, SInv, TypeOK
<1>. QED
  BY <1>1, <1>2

\* Steps of one task.
LEMMA TaskStep ==
    ASSUME SInv, NEW t \in Tasks,
           Request(t) \/ TakeJob(t) \/ StartWrite(t) \/ TaskGoesOn(t)
    PROVE  SInv'
<1>0. t \in added => st[t] \in {"dispatched", "marking", "stuck", "cut"}
  BY DEF SInv
<1>1. CASE Request(t) \/ StartWrite(t) \/ FinishJob(t) \/ NextStatement(t)
  <2>1. /\ exit = "none" /\ st[t] \in {"idle", "running", "between"}
        /\ Asks(t, "waiting", "open") /\ UNCHANGED <<state, added>>
    BY <1>1 DEF Request, StartWrite, FinishJob, NextStatement, Connect
  <2>. QED
    BY <1>0, <2>1, AsksStep
<1>2. CASE TakeJob(t)
  BY <1>0, <1>2, TaskMoves, Disconnected DEF TakeJob, Live, SInv, TypeOK
<1>3. CASE Commit(t)
  <2>1. PICK s \in {"done", "between"} : st' = [st EXCEPT ![t] = s]
    BY <1>3 DEF Commit
  <2>. QED
    BY <1>0, <1>3, <2>1, TaskMoves, Disconnected DEF Commit, Live, SInv, TypeOK
<1>4. CASE Dispatch(t)
  <2>1. ConnectionTypes'
    BY <1>4, Reconnected DEF Dispatch
  <2>. QED
    BY <1>0, <1>4, <2>1, TaskMoves DEF Dispatch, Live, SInv, TypeOK
<1>5. CASE MarkProcessed(t)
  <2>1. role = "outbox"
    BY <1>5 DEF MarkProcessed, SInv
  <2>. QED
    BY <1>5, <2>1, AsksStep DEF MarkProcessed
<1>6. CASE Serve(t)
  <2>1. CASE st[t] = "waiting" /\ st' = [st EXCEPT ![t] = "open"]
    BY <1>0, <1>6, <2>1, TaskMoves, Disconnected DEF Serve, Live, SInv, TypeOK
  <2>2. CASE st[t] = "marking" /\ st' = [st EXCEPT ![t] = "stuck"]
    <3>1. role = "outbox"
      BY <2>2 DEF SInv
    <3>. QED
      BY <1>6, <2>2, <3>1, TaskMoves, Disconnected DEF Serve, Live, SInv, TypeOK
  <2>. QED
    BY <1>6, <2>1, <2>2 DEF Serve
<1>7. CASE ConnectTimeout(t) \/ TaskFails(t)
  BY <1>7, RejectedStep DEF ConnectTimeout, TaskFails
<1>. QED
  BY <1>1, <1>2, <1>3, <1>4, <1>5, <1>6, <1>7 DEF TaskGoesOn

\* A poll starts or comes back, possibly after the pool was closed.
LEMMA PollStep == ASSUME SInv, Poll \/ PollReturns PROVE SInv'
<1>1. CASE Poll
  BY <1>1, ShutsDown, Disconnected DEF Poll, state, SInv, TypeOK
<1>2. CASE PollReturns
  <2>1. PICK rows \in SUBSET {t \in Tasks : st[t] = "idle"} :
          IF ending /\ rows # {} THEN ProcessExits("one")
          ELSE /\ st' = [t \in Tasks |-> IF t \in rows THEN "waiting" ELSE st[t]]
               /\ polling' = FALSE
               /\ UNCHANGED exit
    BY <1>2 DEF PollReturns
  <2>2. exit = "none" /\ UNCHANGED <<state, added>>
    BY <1>2 DEF PollReturns
  <2>3. CASE ending /\ rows # {}
    <3>1. ProcessExits("one")
      BY <2>1, <2>3
    <3>2. ASSUME role # "outbox" PROVE FALSE
      BY <1>2, <3>2 DEF PollReturns, SInv
    <3>. QED
      BY <2>2, <3>1, <3>2, Exits, Disconnected DEF SInv, TypeOK, state
  <2>4. CASE ~(ending /\ rows # {})
    <3>1. \A t \in Tasks : st'[t] = IF t \in rows THEN "waiting" ELSE st[t]
      BY <2>1, <2>4
    <3>2. TypeOK'
      BY <2>1, <2>2, <2>4 DEF SInv, TypeOK, Waiting, state, connections
    <3>3. \A t \in rows : t \notin added
      BY DEF SInv
    <3>. QED
      BY <2>1, <2>2, <2>4, <3>1, <3>2, <3>3
         DEF SInv, TypeOK, state, connections, InTransaction, CleanExitCutsNothing,
             JobsAreNotInterrupted, FailureHasReason
  <2>. QED
    BY <2>3, <2>4
<1>. QED
  BY <1>1, <1>2

\* Signals and the steps of the shutdown.
LEMMA ClosingTypes ==
    ASSUME SInv, ClosesBoth, UNCHANGED queue
    PROVE  ConnectionTypes'
BY DEF ClosesBoth, SInv, TypeOK, ConnectionTypes

LEMMA Closes ==
    ASSUME SInv, exit = "none", ClosesBoth, UNCHANGED <<role, queue, broken, added>>,
           signals' \in 0 .. MaxSignals, signals <= signals', signals' > 0,
           worker' \in {"open", "closing", "closed"},
           worker' = "closed" => \A t \in Tasks : st[t] # "running",
           role = "queue" => worker' = "closed", role # "queue" => worker' = "open"
    PROVE  SInv'
<1>1. ending' = TRUE /\ UNCHANGED <<st, polling, exit>> /\ (polling => role = "outbox")
  BY DEF ClosesBoth, SInv
<1>2. ConnectionTypes'
  BY ClosingTypes
<1>. QED
  BY <1>1, <1>2, ShutsDown, Disconnected

LEMMA SignalStep == ASSUME SInv, Signal PROVE SInv'
<1>0. /\ exit = "none" /\ signals' = signals + 1 /\ signals' \in 0 .. MaxSignals
      /\ signals \in Nat /\ UNCHANGED <<role, queue, broken, added>>
  BY ShutdownAssumption DEF Signal, SInv, TypeOK
<1>1. CASE role = "api"
  <2>1. EndsPool /\ UNCHANGED worker
    BY <1>1 DEF Signal
  <2>2. CASE ending
    <3>1. ProcessExits("one") /\ UNCHANGED <<ending, redis>>
      BY <2>1, <2>2 DEF EndsPool
    <3>2. \A t \in Tasks : st[t] # "running"
      BY <1>1 DEF SInv
    <3>3. worker = "open"
      BY <1>1 DEF SInv
    <3>. QED
      BY <1>0, <1>1, <2>1, <2>2, <3>1, <3>2, <3>3, Exits, Disconnected
  <2>3. CASE ~ending
    <3>1. ClosesBoth
      BY <2>1, <2>3 DEF EndsPool
    <3>2. worker = "open"
      BY <1>1 DEF SInv
    <3>. QED
      BY <1>0, <1>1, <2>1, <3>1, <3>2, Closes
  <2>. QED
    BY <2>2, <2>3
<1>2. CASE role = "outbox"
  <2>1. UNCHANGED worker /\ worker = "open"
    BY <1>2 DEF Signal, SInv
  <2>2. CASE signals = 0
    <3>1. ClosesBoth
      BY <1>2, <2>2 DEF Signal
    <3>. QED
      BY <1>0, <1>2, <2>1, <3>1, Closes
  <2>3. CASE signals # 0
    <3>1. UNCHANGED <<ending, redis, st, polling, exit>>
      BY <1>2, <2>3 DEF Signal
    <3>. QED
      BY <1>0, <1>2, <2>1, <3>1, ShutsDown, Disconnected DEF SInv
  <2>. QED
    BY <2>2, <2>3
<1>3. CASE role = "queue"
  <2>1. CASE worker = "closed"
    <3>1. EndsPool /\ UNCHANGED worker
      BY <1>3, <2>1 DEF Signal
    <3>2. (\A t \in Tasks : st[t] # "running") /\ signals > 0
      BY <2>1 DEF SInv
    <3>3. CASE ending
      <4>1. ProcessExits("one") /\ UNCHANGED <<ending, redis>>
        BY <3>1, <3>3 DEF EndsPool
      <4>. QED
        BY <1>0, <1>3, <2>1, <3>1, <3>2, <4>1, Exits, Disconnected
    <3>4. CASE ~ending
      <4>1. ClosesBoth
        BY <3>1, <3>4 DEF EndsPool
      <4>. QED
        BY <1>0, <1>3, <2>1, <3>1, <3>2, <4>1, Closes
    <3>. QED
      BY <3>3, <3>4
  <2>2. CASE worker # "closed"
    <3>1. worker' = "closing" /\ UNCHANGED <<ending, redis, st, polling, exit>>
      BY <1>3, <2>2 DEF Signal
    <3>. QED
      BY <1>0, <1>3, <2>2, <3>1, ShutsDown, Disconnected DEF SInv
  <2>. QED
    BY <2>1, <2>2
<1>. QED
  BY <1>1, <1>2, <1>3 DEF SInv, TypeOK

LEMMA WorkerClosedStep == ASSUME SInv, WorkerClosed PROVE SInv'
<1>1. /\ role = "queue" /\ signals \in Nat /\ signals > 0 /\ exit = "none"
      /\ worker' = "closed" /\ UNCHANGED <<role, signals, queue, broken, added>>
      /\ \A t \in Tasks : st[t] # "running"
  BY ShutdownAssumption DEF WorkerClosed, SInv, TypeOK
<1>2. CASE signals > 1
  <2>1. ProcessExits("one") /\ UNCHANGED <<ending, redis>>
    BY <1>2 DEF WorkerClosed
  <2>. QED
    BY <1>1, <1>2, <2>1, Exits, Disconnected
<1>3. CASE ~(signals > 1)
  <2>1. ClosesBoth
    BY <1>3 DEF WorkerClosed
  <2>. QED
    BY <1>1, <2>1, Closes, Disconnected
<1>. QED
  BY <1>2, <1>3

\* A connection may break at any time, and ends the process.
LEMMA BreakStep == ASSUME SInv, exit = "none", ConnectionError PROVE SInv'
<1>1. /\ ProcessExits("one") /\ broken' = TRUE /\ UNCHANGED <<role, signals, worker, ending, redis, queue, added>>
  BY DEF ConnectionError
<1>2. /\ worker # "open" => signals > 0
      /\ role = "queue" => (ending => worker = "closed")
      /\ role # "queue" => worker = "open" /\ (ending => signals > 0)
  BY DEF SInv
<1>. QED
  BY <1>1, <1>2, Exits, Disconnected

LEMMA ShutdownStep ==
    ASSUME SInv, RedisQuits \/ UseRedis \/ Drained \/ ForcedExit
    PROVE  SInv'
<1>1. /\ worker # "open" => signals > 0
      /\ role = "queue" => (ending => worker = "closed")
      /\ role # "queue" => worker = "open" /\ (ending => signals > 0)
      /\ worker = "closed" => \A t \in Tasks : st[t] # "running"
      /\ role # "queue" => \A t \in Tasks : st[t] # "running"
      /\ polling => role = "outbox"
  BY DEF SInv
<1>2. CASE RedisQuits
  <2>1. CASE ConnectionError
    BY <1>2, <2>1, BreakStep DEF RedisQuits
  <2>2. CASE ~ConnectionError
    <3>1. /\ exit = "none" /\ redis' = "closed"
          /\ UNCHANGED <<role, signals, worker, ending, queue, broken, st, polling, added, exit>>
      BY <1>2, <2>2 DEF RedisQuits
    <3>. QED
      BY <1>1, <3>1, ShutsDown, Disconnected
  <2>. QED
    BY <2>1, <2>2
<1>3. CASE UseRedis
  <2>1. /\ exit = "none" /\ ConnectionTypes'
        /\ UNCHANGED <<role, signals, worker, ending, broken, st, polling, added, exit>>
    BY <1>3, Reconnected DEF UseRedis
  <2>. QED
    BY <1>1, <2>1, ShutsDown, Disconnected
<1>4. CASE Drained
  <2>1. exit = "none" /\ ending /\ InTransaction = {} /\ ProcessExits("zero") /\ UNCHANGED <<state, added>>
    BY <1>4 DEF Drained
  <2>. QED
    BY <1>1, <2>1, Exits, Disconnected
<1>5. CASE ForcedExit
  <2>1. exit = "none" /\ role = "api" /\ signals > 0 /\ ProcessExits("one") /\ UNCHANGED <<state, added>>
    BY <1>5 DEF ForcedExit
  <2>. QED
    BY <1>1, <2>1, Exits, Disconnected
<1>. QED
  BY <1>2, <1>3, <1>4, <1>5

LEMMA SInvNext == SInv /\ [Next]_vars => SInv'
<1>1. ASSUME SInv, UNCHANGED vars PROVE SInv'
  BY <1>1 DEF SInv, TypeOK, InTransaction, vars, connections, CleanExitCutsNothing,
              JobsAreNotInterrupted, FailureHasReason
<1>2. ASSUME SInv, PoolError \/ \E t \in Tasks : ConnectionBreaks(t) PROVE SInv'
  BY <1>2, BreakStep DEF PoolError, ConnectionBreaks
<1>. QED
  BY <1>1, <1>2, TaskStep, PollStep, SignalStep, WorkerClosedStep, ShutdownStep DEF Next

-----------------------------------------------------------------------------
\* The strengthening holds in every reachable state.
THEOREM Inductive == Spec => []SInv
<1>. QED
  BY SInvInit, SInvNext, PTL DEF Spec

\* The types, for any number of tasks and signals.
THEOREM TypeCorrect == Spec => []TypeOK
<1>1. SInv => TypeOK
  BY DEF SInv
<1>. QED
  BY Inductive, <1>1, PTL

\* A process that exits with 0 has cut no transaction off.
THEOREM CleanExitsAreClean == Spec => []CleanExitCutsNothing
<1>1. SInv => CleanExitCutsNothing
  BY DEF SInv
<1>. QED
  BY Inductive, <1>1, PTL

\* Signals do not end a queue worker in the middle of a job
\* (queue.worker.ts:158); only a connection that breaks does.
THEOREM JobsFinish == Spec => []JobsAreNotInterrupted
<1>1. SInv => JobsAreNotInterrupted
  BY DEF SInv
<1>. QED
  BY Inductive, <1>1, PTL

\* An outbox worker that exits with 0 leaves nothing enqueued and unmarked.
THEOREM NoDuplicateLeft == Spec => []CleanExitLeavesNoDuplicate
<1>1. ASSUME SInv PROVE CleanExitLeavesNoDuplicate
  <2>1. SUFFICES ASSUME exit = "zero", NEW t \in added PROVE FALSE
    BY DEF CleanExitLeavesNoDuplicate
  <2>. QED
    BY <1>1, <2>1 DEF SInv, TypeOK, InTransaction, CleanExitCutsNothing
<1>. QED
  BY Inductive, <1>1, PTL

\* As long as no connection breaks, a queue worker that has started fails
\* only when told twice to stop (queue.worker.ts:158), the API only when told
\* (index.ts:19); what breaks inside withTransaction (client.ts:95), at an
\* idle connection or under QUIT ends either.
THEOREM FailuresHaveReasons == Spec => []FailureHasReason
<1>1. SInv => FailureHasReason
  BY DEF SInv
<1>. QED
  BY Inductive, <1>1, PTL

-----------------------------------------------------------------------------
(* Draining.                                                               *)

Drains ==
    /\ ending'
    /\ InTransaction' \subseteq InTransaction /\ Stuck' \subseteq Stuck
    /\ polling' => polling

\* Exits end every transaction, errors end one.
LEMMA ExitDrains ==
    ASSUME NEW code, ProcessExits(code)
    PROVE  InTransaction' = {} /\ Stuck' = {} /\ ~polling'
<1>1. \A t \in Tasks : st'[t] \notin {"open", "dispatched", "marking", "stuck"}
  BY DEF ProcessExits, InTransaction
<1>. QED
  BY <1>1 DEF InTransaction, Stuck, ProcessExits

LEMMA RejectedDrains ==
    ASSUME TypeOK, NEW t \in Tasks, Rejected(t)
    PROVE  InTransaction' \subseteq InTransaction /\ Stuck' \subseteq Stuck /\ (polling' => polling)
<1>1. CASE role = "outbox"
  BY <1>1, ExitDrains DEF Rejected
<1>2. CASE role # "outbox"
  BY <1>2 DEF Rejected, InTransaction, Stuck, TypeOK
<1>. QED
  BY <1>1, <1>2

\* After end(), who asks for a connection is rejected.
LEMMA TaskDrains ==
    ASSUME TypeOK, ending, NEW t \in Tasks,
           Request(t) \/ TakeJob(t) \/ StartWrite(t) \/ TaskGoesOn(t)
    PROVE  Drains
<1>1. ending' = ending
  BY DEF Request, TakeJob, StartWrite, TaskGoesOn, FinishJob, Commit, NextStatement, Dispatch,
         MarkProcessed, Serve, ConnectTimeout, TaskFails, state
<1>2. CASE Rejected(t)
  BY <1>1, <1>2, RejectedDrains DEF Drains
<1>3. CASE ~Rejected(t)
  <2>1. TakeJob(t) \/ Commit(t) \/ Dispatch(t)
    BY <1>3 DEF Request, StartWrite, TaskGoesOn, FinishJob, NextStatement, MarkProcessed,
                Serve, ConnectTimeout, TaskFails, Connect, Asks
  <2>2. /\ polling' = polling
        /\ \A u \in Tasks \ {t} : st'[u] = st[u]
        /\ st'[t] # "stuck"
        /\ st'[t] \in {"open", "dispatched", "marking", "stuck"} => st[t] = "open"
    BY <2>1 DEF TakeJob, Commit, Dispatch, TypeOK
  <2>. QED
    BY <1>1, <2>2 DEF Drains, InTransaction, Stuck
<1>. QED
  BY <1>2, <1>3

LEMMA OtherDrains ==
    ASSUME TypeOK, ending,
           \/ Signal \/ WorkerClosed \/ RedisQuits \/ UseRedis \/ Drained \/ ForcedExit
           \/ PollReturns \/ PoolError \/ \E t \in Tasks : ConnectionBreaks(t)
    PROVE  Drains
<1>0. ending'
  <2>1. CASE Signal
    <3>1. ClosesBoth \/ UNCHANGED ending
      <4>1. CASE role = "api"
        BY <2>1, <4>1 DEF Signal, EndsPool
      <4>2. CASE role = "outbox"
        BY <2>1, <4>2 DEF Signal
      <4>3. CASE role = "queue"
        BY <2>1, <4>3 DEF Signal, EndsPool
      <4>. QED
        BY <4>1, <4>2, <4>3 DEF TypeOK
    <3>. QED
      BY <3>1 DEF ClosesBoth
  <2>2. CASE WorkerClosed
    BY <2>2 DEF WorkerClosed, ClosesBoth
  <2>3. CASE ~Signal /\ ~WorkerClosed
    BY <2>3 DEF RedisQuits, UseRedis, Drained, ForcedExit, PollReturns, PoolError,
                ConnectionBreaks, ConnectionError, state
  <2>. QED
    BY <2>1, <2>2, <2>3
<1>1. CASE \E code : ProcessExits(code)
  BY <1>0, <1>1, ExitDrains DEF Drains
<1>2. CASE ~ \E code : ProcessExits(code)
  <2>1. Signal \/ WorkerClosed \/ RedisQuits \/ UseRedis \/ PollReturns
    BY <1>2 DEF Drained, ForcedExit, PoolError, ConnectionBreaks, ConnectionError
  <2>2. CASE PollReturns
    <3>1. PICK rows \in SUBSET {t \in Tasks : st[t] = "idle"} :
             st' = [t \in Tasks |-> IF t \in rows THEN "waiting" ELSE st[t]] /\ polling' = FALSE
      BY <1>2, <2>2 DEF PollReturns
    <3>. QED
      BY <1>0, <3>1 DEF Drains, InTransaction, Stuck
  <2>3. CASE ~PollReturns
    <3>1. st' = st /\ polling' = polling
      <4>1. CASE Signal
        <5>1. CASE role = "api"
          BY <1>2, <4>1, <5>1 DEF Signal, EndsPool, ClosesBoth
        <5>2. CASE role = "outbox"
          BY <4>1, <5>2 DEF Signal, ClosesBoth
        <5>3. CASE role = "queue"
          BY <1>2, <4>1, <5>3 DEF Signal, EndsPool, ClosesBoth
        <5>. QED
          BY <5>1, <5>2, <5>3 DEF TypeOK
      <4>2. CASE WorkerClosed
        BY <1>2, <4>2 DEF WorkerClosed, ClosesBoth
      <4>3. CASE RedisQuits \/ UseRedis
        BY <1>2, <4>3 DEF RedisQuits, UseRedis, ConnectionError
      <4>. QED
        BY <2>1, <2>3, <4>1, <4>2, <4>3
    <3>. QED
      BY <1>0, <3>1 DEF Drains, InTransaction, Stuck
  <2>. QED
    BY <2>2, <2>3
<1>. QED
  BY <1>1, <1>2

\* The pool is not ended while a poll could still begin: only a signal ends
\* the outbox worker's, and the loop stops at the first.
LEMMA NoPollBegins == ASSUME SInv, ending PROVE ~Poll
  BY ShutdownAssumption DEF SInv, Poll, TypeOK

\* Once the pool's end() is called, no transaction begins and none goes for a
\* second connection: what still comes in is rejected (index.ts:19,
\* outbox.worker.ts:245 and queue.worker.ts:158), though Redis may be used
\* over a new connection meanwhile.
THEOREM ShutdownsDrain == Spec => ShutdownOnlyDrains
<1>1. ASSUME SInv, Next, ending PROVE Drains
  BY <1>1, NoPollBegins, TaskDrains, OtherDrains DEF Next, SInv
<1>2. SInv /\ [Next]_vars =>
        [ending =>
            /\ ending'
            /\ InTransaction' \subseteq InTransaction /\ Stuck' \subseteq Stuck
            /\ polling' => polling]_vars
  BY <1>1 DEF Drains
<1>. QED
  BY Inductive, <1>2, PTL DEF Spec, ShutdownOnlyDrains
=============================================================================
