-------------------------------- MODULE Metrics --------------------------------
(***************************************************************************)
(* The two metrics of a queue worker process that keep state of their own: *)
(*                                                                         *)
(*  - the depth of the queues (core/metrics/queue.ts): counts read from    *)
(*    Redis, cached between scrapes, refreshed by the first scrape after   *)
(*    the interval, with a timeout per queue;                              *)
(*  - the active jobs and their durations (core/metrics/worker.ts and the  *)
(*    handlers of workers/queue.worker.ts): a gauge that events move up    *)
(*    and down, and a map of start times by job.                           *)
(*                                                                         *)
(* They share nothing but the clock, so a behaviour steps through one.     *)
(*                                                                         *)
(* BullMQ (external) reports a result only of the run that holds the job's *)
(* lock; a lock may be lost, and the job be taken again, here or elsewhere.*)
(***************************************************************************)
EXTENDS Integers, FiniteSets

CONSTANTS
    Scrapes,    \* requests for the metrics
    Interval,   \* METRICS_COLLECT_INTERVAL_MS
    Cap,        \* 5000 ms
    Jobs,       \* jobs this worker comes across
    Runs,       \* executions of jobs in this worker
    MaxTime     \* bound of the clock

ASSUME MetricsAssumption ==
    /\ Interval \in Nat \ {0} /\ Cap \in Nat \ {0} /\ MaxTime \in Nat
    /\ IsFiniteSet(Runs) /\ Runs # {}

VARIABLES
    part,       \* which of the two metrics the behaviour is about
    now,
    last,       \* lastQueueDepthRefreshAt
    prev,       \* its previous value (history)
    cached,     \* queue -> time of the counts in the cache
    errors,     \* queues with a failed collection
    scrape,     \* scrape -> where it is in the gauge's collect()
    queueJob,   \* job -> "waiting", "active" or "finished" in the queue
    holder,     \* job -> the run with its lock, Elsewhere or Nobody
    run,        \* run -> its job, its start and whether it is still going on
    startedAt,  \* startedAtByJob: job -> a time, or None
    stalled,    \* jobs whose "stalled" event is about to be emitted here
    gauge,      \* task_queue_worker_active_jobs
    silent      \* runs that ended without an event (history)

depth == <<last, prev, cached, errors, scrape>>
worker == <<queueJob, holder, run, startedAt, stalled, gauge, silent>>
vars == <<part, now, depth, worker>>

Queues == 1 .. 2   \* main and dead letter, in the order of their registration
None == -1
Elsewhere == "elsewhere"
Nobody == "nobody"
ASSUME RunsAreNoHolders == Elsewhere \notin Runs /\ Nobody \notin Runs

\* withCollectionTimeout
Timeout == IF Interval < Cap THEN Interval ELSE Cap

Idle == [phase |-> "idle", q |-> 1, start |-> 0, issued |-> 0, sample |-> None, failed |-> {}]
NotStarted(j) == [job |-> j, start |-> 0, phase |-> "none"]

TypeOK ==
    /\ part \in {"depth", "worker"}
    /\ now \in 0 .. MaxTime
    /\ last \in Int /\ prev \in Int
    /\ cached \in [Queues -> Int]
    /\ errors \subseteq Queues
    /\ scrape \in [Scrapes -> [phase : {"idle", "collecting", "done"}, q : Queues, start : Nat,
                               issued : Nat, sample : Nat \cup {None}, failed : SUBSET Queues]]
    /\ queueJob \in [Jobs -> {"waiting", "active", "finished"}]
    /\ holder \in [Jobs -> Runs \cup {Elsewhere, Nobody}]
    /\ run \in [Runs -> [job : Jobs, start : Nat, phase : {"none", "running", "over"}]]
    /\ startedAt \in [Jobs -> Nat \cup {None}]
    /\ stalled \subseteq Jobs
    /\ gauge \in Int
    /\ silent \subseteq Runs

Init ==
    /\ part \in {"depth", "worker"}
    /\ now = 0
    /\ last = - Interval /\ prev = - Interval   \* 0, long before the process started
    /\ cached = [q \in Queues |-> None]
    /\ errors = {}
    /\ scrape = [s \in Scrapes |-> Idle]
    /\ queueJob = [j \in Jobs |-> "waiting"]
    /\ holder = [j \in Jobs |-> Nobody]
    /\ \E j \in Jobs : run = [r \in Runs |-> NotStarted(j)]
    /\ startedAt = [j \in Jobs |-> None]
    /\ stalled = {} /\ gauge = 0 /\ silent = {}

-----------------------------------------------------------------------------
(* Queue depth.                                                            *)

Collecting == {s \in Scrapes : scrape[s].phase = "collecting"}

\* The refresh time is set before anything is collected, so that scrapes
\* that come meanwhile report the cache as it is.
Collect_MarkedAfterwards(s) ==
    /\ scrape[s].phase = "idle"
    /\ IF now - last >= Interval
       THEN scrape' = [scrape EXCEPT ![s] = [Idle EXCEPT !.phase = "collecting",
                                                         !.start = now, !.issued = now]]
       ELSE scrape' = [scrape EXCEPT ![s].phase = "done"]
    /\ UNCHANGED <<now, last, prev, cached, errors, worker>>

Collect(s) ==
    /\ scrape[s].phase = "idle"
    /\ IF now - last >= Interval
       THEN /\ last' = now /\ prev' = last
            /\ scrape' = [scrape EXCEPT ![s] = [Idle EXCEPT !.phase = "collecting",
                                                            !.start = now, !.issued = now]]
       ELSE scrape' = [scrape EXCEPT ![s].phase = "done"] /\ UNCHANGED <<last, prev>>
    /\ UNCHANGED <<now, cached, errors, worker>>

\* Redis counts the jobs.
CountsTaken(s) ==
    /\ s \in Collecting /\ scrape[s].sample = None
    /\ scrape' = [scrape EXCEPT ![s].sample = now]
    /\ UNCHANGED <<now, last, prev, cached, errors, worker>>

\* The loop goes on with the next queue, or the metrics are rendered.
Advance(s, failed) ==
    LET c == scrape[s] IN
    scrape' = [scrape EXCEPT ![s] =
                 [c EXCEPT !.q = 2, !.issued = now, !.sample = None, !.failed = failed,
                           !.phase = IF c.q = 2 THEN "done" ELSE "collecting"]]

\* One connection answers in the order of the commands.
InOrder_AnyOrder(s) == TRUE
InOrder(s) ==
    \A t \in Collecting : scrape[t].sample # None => scrape[s].sample <= scrape[t].sample

CountsArrive(s) ==
    /\ s \in Collecting /\ scrape[s].sample # None
    /\ InOrder(s)
    /\ cached' = [cached EXCEPT ![scrape[s].q] = scrape[s].sample]
    /\ Advance(s, scrape[s].failed)
    /\ UNCHANGED <<now, last, prev, errors, worker>>

\* Redis refuses, or the timeout has passed; the cache keeps what it has.
CollectionFails_CacheCleared(s) ==
    /\ s \in Collecting
    /\ errors' = errors \cup {scrape[s].q}
    /\ cached' = [cached EXCEPT ![scrape[s].q] = None]
    /\ Advance(s, scrape[s].failed \cup {scrape[s].q})
    /\ UNCHANGED <<now, last, prev, worker>>

CollectionFails(s) ==
    /\ s \in Collecting
    /\ errors' = errors \cup {scrape[s].q}
    /\ Advance(s, scrape[s].failed \cup {scrape[s].q})
    /\ UNCHANGED <<now, last, prev, cached, worker>>

\* Time passes, but not past a timeout.
Tick_NoTimeout ==
    /\ now < MaxTime
    /\ now' = now + 1
    /\ UNCHANGED <<depth, worker>>

Tick ==
    /\ now < MaxTime
    /\ \A s \in Collecting : now < scrape[s].issued + Timeout
    /\ now' = now + 1
    /\ UNCHANGED <<depth, worker>>

-----------------------------------------------------------------------------
(* Active jobs and durations.                                              *)

\* The "active" handler.
TakeJob_KeepsStart(r, j) ==
    /\ run[r].phase = "none" /\ queueJob[j] = "waiting"
    /\ queueJob' = [queueJob EXCEPT ![j] = "active"]
    /\ holder' = [holder EXCEPT ![j] = r]
    /\ run' = [run EXCEPT ![r] = [job |-> j, start |-> now, phase |-> "running"]]
    /\ startedAt' = [startedAt EXCEPT ![j] = IF @ = None THEN now ELSE @]
    /\ gauge' = gauge + 1
    /\ UNCHANGED <<now, depth, stalled, silent>>

TakeJob(r, j) ==
    /\ run[r].phase = "none" /\ queueJob[j] = "waiting"
    /\ queueJob' = [queueJob EXCEPT ![j] = "active"]
    /\ holder' = [holder EXCEPT ![j] = r]
    /\ run' = [run EXCEPT ![r] = [job |-> j, start |-> now, phase |-> "running"]]
    /\ startedAt' = [startedAt EXCEPT ![j] = now]
    /\ gauge' = gauge + 1
    /\ UNCHANGED <<now, depth, stalled, silent>>

\* The "completed" and "failed" handlers, if the queue accepts the result;
\* otherwise no event is emitted at all.
RunEnds(r) ==
    LET j == run[r].job IN
    /\ run[r].phase = "running"
    /\ run' = [run EXCEPT ![r].phase = "over"]
    /\ IF holder[j] = r
       THEN /\ \E to \in {"waiting", "finished"} : queueJob' = [queueJob EXCEPT ![j] = to]
            /\ holder' = [holder EXCEPT ![j] = Nobody]
            /\ startedAt' = [startedAt EXCEPT ![j] = None]
            /\ gauge' = gauge - 1   \* safeDec
            /\ UNCHANGED silent
       ELSE silent' = silent \cup {r} /\ UNCHANGED <<queueJob, holder, startedAt, gauge>>
    /\ UNCHANGED <<now, depth, stalled>>

\* What other workers do with the job.
Others(j) ==
    /\ \/ /\ queueJob[j] = "waiting"
          /\ queueJob' = [queueJob EXCEPT ![j] = "active"]
          /\ holder' = [holder EXCEPT ![j] = Elsewhere]
       \/ /\ holder[j] = Elsewhere
          /\ \E to \in {"waiting", "finished"} : queueJob' = [queueJob EXCEPT ![j] = to]
          /\ holder' = [holder EXCEPT ![j] = Nobody]
    /\ UNCHANGED <<now, depth, run, startedAt, stalled, gauge, silent>>

LockExpires(j) ==
    /\ holder[j] # Nobody
    /\ holder' = [holder EXCEPT ![j] = Nobody]
    /\ UNCHANGED <<now, depth, queueJob, run, startedAt, stalled, gauge, silent>>

\* A stalled checker, this worker's or another's, moves the job back.
StalledCheck(j) ==
    /\ queueJob[j] = "active" /\ holder[j] = Nobody
    /\ queueJob' = [queueJob EXCEPT ![j] = "waiting"]
    /\ \E here \in SUBSET {j} : stalled' = stalled \cup here
    /\ UNCHANGED <<now, depth, holder, run, startedAt, gauge, silent>>

\* The "stalled" handler: the job may have been taken again by now.
OnStalled_Decrements(j) ==
    /\ j \in stalled
    /\ stalled' = stalled \ {j}
    /\ startedAt' = [startedAt EXCEPT ![j] = None]
    /\ gauge' = gauge - 1
    /\ UNCHANGED <<now, depth, queueJob, holder, run, silent>>

OnStalled(j) ==
    /\ j \in stalled
    /\ stalled' = stalled \ {j}
    /\ startedAt' = [startedAt EXCEPT ![j] = None]
    /\ UNCHANGED <<now, depth, queueJob, holder, run, gauge, silent>>

-----------------------------------------------------------------------------
DepthStep ==
    \E s \in Scrapes : Collect(s) \/ CountsTaken(s) \/ CountsArrive(s) \/ CollectionFails(s)

WorkerStep ==
    \/ \E r \in Runs, j \in Jobs : TakeJob(r, j)
    \/ \E r \in Runs : RunEnds(r)
    \/ \E j \in Jobs : Others(j) \/ LockExpires(j) \/ StalledCheck(j) \/ OnStalled(j)

Next ==
    /\ \/ Tick
       \/ part = "depth" /\ DepthStep
       \/ part = "worker" /\ WorkerStep
    /\ UNCHANGED part

Spec == Init /\ [][Next]_vars

-----------------------------------------------------------------------------
(* Properties.                                                             *)

\* However scrapes overlap, no more of them ask Redis at a time than there
\* are queues, plus one that starts as the oldest times out.
LoadIsBounded == Cardinality(Collecting) <= Cardinality(Queues) + 1

\* A scrape that refreshed reports, for each queue it had no error with,
\* counts taken after it began, though an older refresh may end meanwhile.
RefreshIsReported ==
    [][\A s \in Scrapes, q \in Queues :
          s \in Collecting /\ scrape'[s].phase = "done" /\ q \notin scrape'[s].failed
             => cached'[q] >= scrape[s].start]_vars

\* The counts reported for a queue never go back in time.
CountsNeverGoBack == [][\A q \in Queues : cached'[q] >= cached[q]]_vars

\* Without errors the cache is at most one refresh behind, but for the time
\* that refresh may take.
OneRefreshBehind ==
    \A q \in Queues \ errors :
        prev >= 0 => cached[q] >= prev \/ now <= prev + 2 * Timeout

\* The gauge of active jobs is never below their number, and above it
\* exactly by the runs that ended without an event, which nothing takes off.
Running == {r \in Runs : run[r].phase = "running"}
GaugeDriftsUp == gauge = Cardinality(Running) + Cardinality(silent)

\* The duration that will be recorded is that of the run that ends, never an
\* earlier one's, or 0 where a stalled event came late.
DurationIsOfThisRun ==
    \A j \in Jobs : holder[j] \in Runs => startedAt[j] \in {run[holder[j]].start, None}

-----------------------------------------------------------------------------
\* The inductive invariant of the worker's part: a lock is held by a run that
\* is going on, for its own job.
WInv ==
    /\ TypeOK
    /\ \A j \in Jobs : holder[j] \in Runs =>
          /\ run[holder[j]].phase = "running" /\ run[holder[j]].job = j
          /\ queueJob[j] = "active"
    /\ \A j \in Jobs : holder[j] = Elsewhere => queueJob[j] = "active"
    /\ \A r \in silent : run[r].phase = "over"
    /\ GaugeDriftsUp
    /\ DurationIsOfThisRun

\* The inductive invariant of the depth part.  What is under way was asked for
\* in its scrape, and no counts under way are older than those in the cache; ...
UnderWay ==
    /\ \A q \in Queues : cached[q] <= now
    /\ \A s \in Collecting :
          LET c == scrape[s] IN
          /\ c.start <= c.issued /\ c.issued <= now
          /\ c.sample # None => c.issued <= c.sample /\ c.sample <= now /\ cached[c.q] <= c.sample
          /\ c.q = 2 /\ 1 \notin c.failed => c.start <= cached[1]

\* ... each queue takes a refresh a timeout at most, refreshes begin an
\* interval apart, ...
Paced ==
    /\ last <= now
    /\ \A s \in Collecting :
          LET c == scrape[s] IN
          /\ c.start <= last
          /\ c.issued <= c.start + Timeout /\ now <= c.issued + Timeout
          /\ c.q = 1 => c.issued = c.start
    /\ \A s, t \in Collecting :
          \/ s = t
          \/ scrape[s].start + Interval <= scrape[t].start
          \/ scrape[t].start + Interval <= scrape[s].start

\* ... and the last two of them have reached the cache, for a queue without
\* errors, or are still to reach it.
Reached(q, time) ==
    time >= 0 => \/ cached[q] >= time
                 \/ \E s \in Collecting : scrape[s].start = time /\ scrape[s].q <= q

LastTwoReach == \A q \in Queues \ errors : Reached(q, prev) /\ Reached(q, last)

DInv ==
    /\ TypeOK
    /\ UnderWay
    /\ Paced
    /\ LastTwoReach
=============================================================================
