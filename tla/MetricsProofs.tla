---------------------------- MODULE MetricsProofs ----------------------------
(***************************************************************************)
(* Proofs about Metrics: the gauge of active jobs and the recorded         *)
(* durations (WInv), and the order of the cached counts (DInv), for any    *)
(* number of scrapes, jobs and runs.                                       *)
(***************************************************************************)
EXTENDS Metrics, FiniteSetTheorems, FunctionTheorems, TLAPS

Scraping == [phase : {"idle", "collecting", "done"}, q : Queues, start : Nat, issued : Nat,
             sample : Nat \cup {None}, failed : SUBSET Queues]

LEMMA TypeInit == Init => TypeOK
<1>1. ASSUME Init PROVE now \in 0 .. MaxTime
  BY <1>1, MetricsAssumption DEF Init
<1>2. ASSUME Init PROVE scrape \in [Scrapes -> Scraping]
  <2>1. Idle \in Scraping
    BY DEF Idle, Scraping, Queues, None
  <2>. QED
    BY <1>2, <2>1 DEF Init
<1>3. ASSUME Init PROVE last \in Int /\ prev \in Int /\ cached \in [Queues -> Int]
  BY <1>3, MetricsAssumption DEF Init, None
<1>4. ASSUME Init PROVE run \in [Runs -> [job : Jobs, start : Nat, phase : {"none", "running", "over"}]]
  <2>1. PICK j \in Jobs : run = [r \in Runs |-> NotStarted(j)]
    BY <1>4 DEF Init
  <2>. QED
    BY <2>1 DEF NotStarted
<1>. QED
  BY <1>1, <1>2, <1>3, <1>4 DEF Init, TypeOK, Scraping

\* A record of a scrape keeps its type.
LEMMA DepthType ==
    ASSUME TypeOK, DepthStep
    PROVE  /\ last' \in Int /\ prev' \in Int /\ cached' \in [Queues -> Int]
           /\ errors' \subseteq Queues /\ scrape' \in [Scrapes -> Scraping]
           /\ UNCHANGED <<now, worker>>
<1>0. now \in Nat /\ scrape \in [Scrapes -> Scraping]
  BY MetricsAssumption DEF TypeOK, Scraping
<1>1. ASSUME NEW s \in Scrapes, NEW failed \in SUBSET Queues, Advance(s, failed)
      PROVE  scrape' \in [Scrapes -> Scraping]
  <2>0. scrape[s] \in Scraping /\ 2 \in Queues
    BY <1>0 DEF Queues
  <2> DEFINE phase == IF scrape[s].q = 2 THEN "done" ELSE "collecting"
  <2>1. phase \in {"idle", "collecting", "done"}
    OBVIOUS
  <2> HIDE DEF phase
  <2>2. [scrape[s] EXCEPT !.q = 2, !.issued = now, !.sample = None, !.failed = failed,
                          !.phase = phase] \in Scraping
    BY <1>0, <2>0, <2>1 DEF Scraping
  <2>. QED
    BY <1>0, <1>1, <2>2 DEF Advance, phase
<1>2. ASSUME NEW s \in Scrapes, Collect(s)
      PROVE  last' \in Int /\ prev' \in Int /\ scrape' \in [Scrapes -> Scraping]
  <2>1. [Idle EXCEPT !.phase = "collecting", !.start = now, !.issued = now] \in Scraping
    <3>1. Idle \in Scraping
      BY DEF Idle, Scraping, Queues, None
    <3>. QED
      BY <1>0, <3>1 DEF Scraping
  <2>2. [scrape[s] EXCEPT !.phase = "done"] \in Scraping
    BY <1>0 DEF Scraping
  <2>3. \A c \in Scraping : [scrape EXCEPT ![s] = c] \in [Scrapes -> Scraping]
    BY <1>0
  <2>4. scrape' \in [Scrapes -> Scraping]
    BY <1>2, <2>1, <2>2, <2>3 DEF Collect
  <2>. QED
    BY <1>0, <1>2, <2>4 DEF Collect, TypeOK
<1>3. ASSUME NEW s \in Scrapes, CountsTaken(s) PROVE scrape' \in [Scrapes -> Scraping]
  BY <1>0, <1>3 DEF CountsTaken, Scraping
<1>4. ASSUME NEW s \in Scrapes, CountsArrive(s)
      PROVE  cached' \in [Queues -> Int] /\ scrape' \in [Scrapes -> Scraping]
  <2>1. scrape[s].sample \in Int /\ scrape[s].failed \in SUBSET Queues
    BY <1>0 DEF Scraping, None
  <2>. QED
    BY <1>1, <1>4, <2>1 DEF CountsArrive, TypeOK
<1>5. ASSUME NEW s \in Scrapes, CollectionFails(s)
      PROVE  errors' \subseteq Queues /\ scrape' \in [Scrapes -> Scraping]
  <2>1. scrape[s].q \in Queues /\ scrape[s].failed \in SUBSET Queues
    BY <1>0 DEF Scraping
  <2>. QED
    BY <1>1, <1>5, <2>1 DEF CollectionFails, TypeOK
<1>6. PICK s \in Scrapes : Collect(s) \/ CountsTaken(s) \/ CountsArrive(s) \/ CollectionFails(s)
  BY DEF DepthStep
<1>7. CASE Collect(s)
  BY <1>2, <1>7 DEF Collect, TypeOK, worker
<1>8. CASE CountsTaken(s)
  BY <1>3, <1>8 DEF CountsTaken, TypeOK, worker
<1>9. CASE CountsArrive(s)
  BY <1>4, <1>9 DEF CountsArrive, TypeOK, worker
<1>10. CASE CollectionFails(s)
  BY <1>5, <1>10 DEF CollectionFails, TypeOK, worker
<1>. QED
  BY <1>6, <1>7, <1>8, <1>9, <1>10

LEMMA WorkerType ==
    ASSUME TypeOK, WorkerStep
    PROVE  /\ queueJob' \in [Jobs -> {"waiting", "active", "finished"}]
           /\ holder' \in [Jobs -> Runs \cup {Elsewhere, Nobody}]
           /\ run' \in [Runs -> [job : Jobs, start : Nat, phase : {"none", "running", "over"}]]
           /\ startedAt' \in [Jobs -> Nat \cup {None}]
           /\ stalled' \subseteq Jobs /\ gauge' \in Int /\ silent' \subseteq Runs
           /\ UNCHANGED <<now, depth>>
<1>0. now \in Nat
  BY MetricsAssumption DEF TypeOK
<1>1. CASE \E r \in Runs, j \in Jobs : TakeJob(r, j)
  BY <1>0, <1>1 DEF TakeJob, TypeOK, depth
<1>2. CASE \E r \in Runs : RunEnds(r)
  <2>1. PICK r \in Runs : RunEnds(r)
    BY <1>2
  <2>2. run[r].job \in Jobs /\ run' = [run EXCEPT ![r].phase = "over"]
    BY <2>1 DEF RunEnds, TypeOK
  <2>3. CASE holder[run[r].job] = r
    <3>1. PICK to \in {"waiting", "finished"} : queueJob' = [queueJob EXCEPT ![run[r].job] = to]
      BY <2>1, <2>3 DEF RunEnds
    <3>2. queueJob' \in [Jobs -> {"waiting", "active", "finished"}]
      BY <3>1 DEF TypeOK
    <3>3. /\ holder' = [holder EXCEPT ![run[r].job] = Nobody]
          /\ startedAt' = [startedAt EXCEPT ![run[r].job] = None]
          /\ gauge' = gauge - 1 /\ UNCHANGED <<silent, now, depth, stalled>>
      BY <2>1, <2>3 DEF RunEnds
    <3>4. /\ holder' \in [Jobs -> Runs \cup {Elsewhere, Nobody}]
          /\ startedAt' \in [Jobs -> Nat \cup {None}] /\ gauge' \in Int
      BY <3>3 DEF TypeOK
    <3>5. run' \in [Runs -> [job : Jobs, start : Nat, phase : {"none", "running", "over"}]]
      BY <2>2 DEF TypeOK
    <3>. QED
      BY <3>2, <3>3, <3>4, <3>5 DEF TypeOK
  <2>4. CASE holder[run[r].job] # r
    BY <2>1, <2>2, <2>4 DEF RunEnds, TypeOK, depth
  <2>. QED
    BY <2>3, <2>4
<1>3. CASE \E j \in Jobs : Others(j) \/ LockExpires(j)
  BY <1>3 DEF Others, LockExpires, TypeOK, depth
<1>4. CASE \E j \in Jobs : StalledCheck(j) \/ OnStalled(j)
  BY <1>4 DEF StalledCheck, OnStalled, TypeOK, depth
<1>. QED
  BY <1>1, <1>2, <1>3, <1>4 DEF WorkerStep

LEMMA TickType ==
    ASSUME TypeOK, Tick
    PROVE  now' = now + 1 /\ now' \in 0 .. MaxTime /\ UNCHANGED <<depth, worker>>
BY MetricsAssumption DEF TypeOK, Tick

LEMMA TypeNext == TypeOK /\ [Next]_vars => TypeOK'
<1>1. ASSUME TypeOK, UNCHANGED vars PROVE TypeOK'
  BY <1>1 DEF TypeOK, vars, depth, worker
<1>2. ASSUME TypeOK, Tick, UNCHANGED part PROVE TypeOK'
  BY <1>2, TickType DEF TypeOK, depth, worker
<1>3. ASSUME TypeOK, DepthStep, UNCHANGED part PROVE TypeOK'
  BY <1>3, DepthType DEF TypeOK, worker, Scraping
<1>4. ASSUME TypeOK, WorkerStep, UNCHANGED part PROVE TypeOK'
  BY <1>4, WorkerType DEF TypeOK, depth
<1>. QED
  BY <1>1, <1>2, <1>3, <1>4 DEF Next

-----------------------------------------------------------------------------
(* The worker's part.                                                      *)

LEMMA WInvInit == Init => WInv
<1>1. ASSUME Init, NEW r \in Runs PROVE run[r].phase = "none"
  BY <1>1 DEF Init, NotStarted
<1>2. ASSUME Init PROVE Running = {}
  BY <1>1, <1>2 DEF Running
<1>3. ASSUME Init, NEW j \in Jobs PROVE holder[j] \notin Runs /\ holder[j] # Elsewhere
  <2>1. holder[j] = Nobody
    BY <1>3 DEF Init
  <2>2. Nobody # Elsewhere
    BY DEF Nobody, Elsewhere
  <2>. QED
    BY <2>1, <2>2, RunsAreNoHolders
<1>4. ASSUME Init PROVE GaugeDriftsUp
  <2>1. gauge = 0 /\ silent = {} /\ Running = {}
    BY <1>2, <1>4 DEF Init
  <2>2. Cardinality({}) = 0
    BY FS_EmptySet
  <2>. QED
    BY <2>1, <2>2 DEF GaugeDriftsUp
<1>. QED
  BY <1>3, <1>4, TypeInit DEF WInv, DurationIsOfThisRun, Init

\* Sets of runs are finite.
LEMMA RunsFinite ==
    ASSUME TypeOK
    PROVE  /\ IsFiniteSet(Running) /\ Cardinality(Running) \in Nat
           /\ IsFiniteSet(silent) /\ Cardinality(silent) \in Nat
<1>1. Running \subseteq Runs /\ silent \subseteq Runs
  BY DEF Running, TypeOK
<1>. QED
  BY <1>1, MetricsAssumption, FS_Subset, FS_CardinalityType

\* A run begins: one more goes on, and the gauge goes up.
LEMMA TakeStep ==
    ASSUME WInv, TypeOK', NEW r \in Runs, NEW j \in Jobs, TakeJob(r, j)
    PROVE  WInv'
<1>0. TypeOK
  BY DEF WInv
<1>1. \A x \in Runs : run'[x] = IF x = r THEN [job |-> j, start |-> now, phase |-> "running"]
                                ELSE run[x]
  BY <1>0 DEF TakeJob, TypeOK
<1>2. Running' = Running \cup {r} /\ r \notin Running
  BY <1>1 DEF Running, TakeJob
<1>3. GaugeDriftsUp'
  <2>1. Cardinality(Running') = Cardinality(Running) + 1
    BY <1>0, <1>2, RunsFinite, FS_AddElement
  <2>2. gauge \in Int /\ gauge' = gauge + 1 /\ silent' = silent
    BY <1>0 DEF TypeOK, TakeJob
  <2>3. gauge = Cardinality(Running) + Cardinality(silent)
    BY DEF WInv, GaugeDriftsUp
  <2>4. gauge' = Cardinality(Running') + Cardinality(silent)
    BY <1>0, <2>1, <2>2, <2>3, RunsFinite
  <2>. QED
    BY <2>2, <2>4 DEF GaugeDriftsUp
<1>4. \A k \in Jobs : /\ holder'[k] = IF k = j THEN r ELSE holder[k]
                      /\ startedAt'[k] = IF k = j THEN now ELSE startedAt[k]
                      /\ queueJob'[k] = IF k = j THEN "active" ELSE queueJob[k]
  BY <1>0 DEF TakeJob, TypeOK
<1>5. r \notin silent /\ silent' = silent /\ \A k \in Jobs : holder[k] # r
  BY DEF WInv, TakeJob
<1>6. r # Elsewhere
  BY RunsAreNoHolders
<1>7. DurationIsOfThisRun'
  BY <1>1, <1>4, <1>5 DEF WInv, DurationIsOfThisRun
<1>8. ASSUME NEW k \in Jobs, holder'[k] \in Runs
      PROVE  /\ run'[holder'[k]].phase = "running" /\ run'[holder'[k]].job = k
             /\ queueJob'[k] = "active"
  <2>1. CASE k = j
    BY <1>1, <1>4, <2>1
  <2>2. CASE k # j
    BY <1>1, <1>4, <1>5, <1>8, <2>2 DEF WInv
  <2>. QED
    BY <2>1, <2>2
<1>9. \A k \in Jobs : holder'[k] = Elsewhere => queueJob'[k] = "active"
  BY <1>4, <1>6 DEF WInv
<1>10. \A x \in silent' : run'[x].phase = "over"
  BY <1>0, <1>1, <1>5 DEF WInv, TypeOK
<1>. QED
  BY <1>3, <1>7, <1>8, <1>9, <1>10 DEF WInv

\* A run ends: with an event the gauge goes down, without one it stays.
LEMMA EndStep ==
    ASSUME WInv, TypeOK', NEW r \in Runs, RunEnds(r)
    PROVE  WInv'
<1>0. TypeOK /\ run[r].phase = "running" /\ run[r].job \in Jobs
  BY DEF WInv, TypeOK, RunEnds
<1>1. \A x \in Runs : /\ run'[x].job = run[x].job /\ run'[x].start = run[x].start
                      /\ run'[x].phase = IF x = r THEN "over" ELSE run[x].phase
  BY <1>0 DEF RunEnds, TypeOK
<1>2. Running' = Running \ {r} /\ r \in Running
  BY <1>0, <1>1 DEF Running
<1>3. r \notin silent
  BY <1>0 DEF WInv
<1>4. CASE holder[run[r].job] = r
  <2>1. /\ gauge' = gauge - 1 /\ silent' = silent
        /\ \A k \in Jobs : /\ holder'[k] = IF k = run[r].job THEN Nobody ELSE holder[k]
                           /\ k # run[r].job => startedAt'[k] = startedAt[k] /\ queueJob'[k] = queueJob[k]
    BY <1>0, <1>4 DEF RunEnds, TypeOK
  <2>2. \A k \in Jobs : k # run[r].job => holder[k] # r
    BY DEF WInv
  <2>3. GaugeDriftsUp'
    <3>1. Cardinality(Running') = Cardinality(Running) - 1
      BY <1>0, <1>2, RunsFinite, FS_RemoveElement
    <3>2. gauge \in Int /\ gauge = Cardinality(Running) + Cardinality(silent)
      BY <1>0 DEF WInv, GaugeDriftsUp, TypeOK
    <3>3. gauge' = Cardinality(Running') + Cardinality(silent)
      BY <1>0, <2>1, <3>1, <3>2, RunsFinite
    <3>. QED
      BY <2>1, <3>3 DEF GaugeDriftsUp
  <2>4. Nobody \notin Runs /\ Nobody # Elsewhere
    BY RunsAreNoHolders DEF Nobody, Elsewhere
  <2>5. DurationIsOfThisRun'
    BY <1>1, <2>1, <2>2, <2>4 DEF WInv, DurationIsOfThisRun
  <2>6. ASSUME NEW k \in Jobs, holder'[k] \in Runs
        PROVE  /\ run'[holder'[k]].phase = "running" /\ run'[holder'[k]].job = k
               /\ queueJob'[k] = "active"
    <3>1. k # run[r].job /\ holder'[k] = holder[k] /\ queueJob'[k] = queueJob[k] /\ holder[k] # r
      BY <2>1, <2>2, <2>4, <2>6
    <3>. QED
      BY <1>1, <2>6, <3>1 DEF WInv
  <2>7. \A k \in Jobs : holder'[k] = Elsewhere => queueJob'[k] = "active"
    BY <2>1, <2>4 DEF WInv
  <2>8. \A x \in silent' : run'[x].phase = "over"
    BY <1>0, <1>1, <2>1 DEF WInv, TypeOK
  <2>. QED
    BY <2>3, <2>5, <2>6, <2>7, <2>8 DEF WInv
<1>5. CASE holder[run[r].job] # r
  <2>1. silent' = silent \cup {r} /\ UNCHANGED <<queueJob, holder, startedAt, gauge>>
    BY <1>5 DEF RunEnds
  <2>2. \A k \in Jobs : holder[k] # r
    BY <1>5 DEF WInv
  <2>3. GaugeDriftsUp'
    <3>1. Cardinality(Running') = Cardinality(Running) - 1
      BY <1>0, <1>2, RunsFinite, FS_RemoveElement
    <3>2. Cardinality(silent') = Cardinality(silent) + 1
      BY <1>0, <1>3, <2>1, RunsFinite, FS_AddElement
    <3>3. gauge \in Int /\ gauge = Cardinality(Running) + Cardinality(silent)
      BY <1>0 DEF WInv, GaugeDriftsUp, TypeOK
    <3>4. gauge' = Cardinality(Running') + Cardinality(silent')
      BY <1>0, <2>1, <3>1, <3>2, <3>3, RunsFinite
    <3>. QED
      BY <3>4 DEF GaugeDriftsUp
  <2>4. DurationIsOfThisRun'
    BY <1>1, <2>1, <2>2 DEF WInv, DurationIsOfThisRun
  <2>5. ASSUME NEW k \in Jobs, holder'[k] \in Runs
        PROVE  /\ run'[holder'[k]].phase = "running" /\ run'[holder'[k]].job = k
               /\ queueJob'[k] = "active"
    BY <1>1, <2>1, <2>2, <2>5 DEF WInv
  <2>6. \A k \in Jobs : holder'[k] = Elsewhere => queueJob'[k] = "active"
    BY <2>1 DEF WInv
  <2>7. \A x \in silent' : run'[x].phase = "over"
    BY <1>0, <1>1, <2>1 DEF WInv, TypeOK
  <2>. QED
    BY <2>3, <2>4, <2>5, <2>6, <2>7 DEF WInv
<1>. QED
  BY <1>4, <1>5

\* Locks come and go, stalled jobs go back: runs and gauge stay.
LEMMA OtherStep ==
    ASSUME WInv, TypeOK', NEW j \in Jobs,
           Others(j) \/ LockExpires(j) \/ StalledCheck(j) \/ OnStalled(j)
    PROVE  WInv'
<1>0. TypeOK /\ UNCHANGED <<run, gauge, silent>> /\ Running' = Running
  BY DEF WInv, Others, LockExpires, StalledCheck, OnStalled, Running
<1>1. /\ Nobody \notin Runs /\ Elsewhere \notin Runs /\ Nobody # Elsewhere
  BY RunsAreNoHolders DEF Nobody, Elsewhere
<1>2. \A k \in Jobs :
        /\ holder'[k] \in {holder[k], Nobody, Elsewhere}
        /\ holder'[k] \in Runs => holder'[k] = holder[k] /\ queueJob'[k] = queueJob[k]
        /\ startedAt'[k] \in {startedAt[k], None}
        /\ holder'[k] = Elsewhere => queueJob'[k] = "active"
  <2>1. CASE Others(j)
    BY <1>0, <1>1, <2>1 DEF Others, WInv, TypeOK
  <2>2. CASE LockExpires(j)
    BY <1>0, <1>1, <2>2 DEF LockExpires, WInv, TypeOK
  <2>3. CASE StalledCheck(j)
    BY <1>0, <1>1, <2>3 DEF StalledCheck, WInv, TypeOK
  <2>4. CASE OnStalled(j)
    BY <1>0, <1>1, <2>4 DEF OnStalled, WInv, TypeOK
  <2>. QED
    BY <2>1, <2>2, <2>3, <2>4
<1>3. GaugeDriftsUp'
  BY <1>0 DEF WInv, GaugeDriftsUp
<1>4. DurationIsOfThisRun'
  BY <1>0, <1>2 DEF WInv, DurationIsOfThisRun
<1>5. \A k \in Jobs : holder'[k] \in Runs =>
        /\ run'[holder'[k]].phase = "running" /\ run'[holder'[k]].job = k
        /\ queueJob'[k] = "active"
  BY <1>0, <1>2 DEF WInv
<1>6. \A k \in Jobs : holder'[k] = Elsewhere => queueJob'[k] = "active"
  BY <1>2
<1>7. \A x \in silent' : run'[x].phase = "over"
  BY <1>0 DEF WInv
<1>. QED
  BY <1>3, <1>4, <1>5, <1>6, <1>7 DEF WInv

LEMMA WInvNext == WInv /\ [Next]_vars => WInv'
<1>1. ASSUME WInv, UNCHANGED worker, TypeOK' PROVE WInv'
  BY <1>1 DEF WInv, worker, GaugeDriftsUp, DurationIsOfThisRun, Running
<1>2. ASSUME WInv, [Next]_vars PROVE TypeOK'
  BY <1>2, TypeNext DEF WInv
<1>3. ASSUME WInv, [Next]_vars, WorkerStep PROVE WInv'
  BY <1>2, <1>3, TakeStep, EndStep, OtherStep DEF WorkerStep
<1>4. ASSUME WInv, DepthStep PROVE UNCHANGED worker
  BY <1>4, DepthType DEF WInv
<1>5. ASSUME Tick \/ UNCHANGED vars PROVE UNCHANGED worker
  BY <1>5 DEF Tick, vars
<1>. QED
  BY <1>1, <1>2, <1>3, <1>4, <1>5 DEF Next

-----------------------------------------------------------------------------
(* The depth part.                                                         *)

LEMMA DInvInit == Init => DInv
<1> SUFFICES ASSUME Init PROVE DInv
  OBVIOUS
<1>1. Collecting = {}
  BY DEF Init, Collecting, Idle
<1>2. UnderWay /\ Paced
  BY <1>1, MetricsAssumption DEF UnderWay, Paced, Init, None
<1>3. ~(prev >= 0) /\ ~(last >= 0)
  BY MetricsAssumption DEF Init
<1>4. LastTwoReach
  BY <1>3 DEF LastTwoReach, Reached
<1>. QED
  BY <1>2, <1>4, TypeInit DEF DInv

\* The counts that arrive are the oldest under way, and no older than those
\* they replace.
LEMMA ArriveStep ==
    ASSUME DInv, TypeOK', NEW s \in Scrapes, CountsArrive(s)
    PROVE  UnderWay' /\ \A q \in Queues : cached'[q] >= cached[q]
<1> DEFINE c == scrape[s]
<1>0. TypeOK /\ now \in Nat /\ now' = now
  BY MetricsAssumption DEF DInv, UnderWay, TypeOK, CountsArrive
<1>1. /\ c.sample \in Nat /\ c.q \in Queues /\ c.phase = "collecting" /\ s \in Collecting
      /\ c.start <= c.issued /\ c.issued <= c.sample /\ c.sample <= now /\ cached[c.q] <= c.sample
      /\ c.start \in Nat /\ c.issued \in Nat
  BY <1>0 DEF DInv, UnderWay, TypeOK, CountsArrive, Collecting
<1>2. \A q \in Queues : cached'[q] = IF q = c.q THEN c.sample ELSE cached[q]
  BY <1>0 DEF CountsArrive, TypeOK
<1>3. \A t \in Scrapes : t # s => scrape'[t] = scrape[t]
  BY <1>0 DEF CountsArrive, Advance, TypeOK
<1>4. /\ scrape'[s].q = 2 /\ scrape'[s].issued = now /\ scrape'[s].sample = None
      /\ scrape'[s].start = c.start /\ scrape'[s].failed = c.failed
      /\ scrape'[s].phase = "collecting" => c.q = 1
  BY <1>0, <1>1 DEF CountsArrive, Advance, TypeOK, Queues
<1>5. \A q \in Queues : cached[q] \in Int /\ cached'[q] >= cached[q] /\ cached'[q] <= now
  BY <1>0, <1>1, <1>2 DEF DInv, UnderWay, TypeOK
<1>6. ASSUME NEW t \in Collecting'
      PROVE  LET d == scrape'[t] IN
             /\ d.start <= d.issued /\ d.issued <= now
             /\ d.sample # None => d.issued <= d.sample /\ d.sample <= now /\ cached'[d.q] <= d.sample
             /\ d.q = 2 /\ 1 \notin d.failed => d.start <= cached'[1]
  <2>1. CASE t = s
    BY <1>0, <1>1, <1>2, <1>4, <1>6, <2>1 DEF Collecting, Queues, None
  <2>2. CASE t # s
    <3>1. t \in Collecting /\ scrape'[t] = scrape[t]
      BY <1>3, <1>6, <2>2 DEF Collecting
    <3>2. scrape[t].sample # None => c.sample <= scrape[t].sample
      BY <3>1 DEF CountsArrive, InOrder
    <3>3. scrape[t].q = 2 /\ 1 \notin scrape[t].failed => scrape[t].start <= cached'[1]
      BY <1>0, <1>5, <3>1 DEF DInv, UnderWay, TypeOK, Queues, Collecting
    <3>4. scrape[t].sample # None => cached'[scrape[t].q] <= scrape[t].sample
      BY <1>0, <1>2, <3>1, <3>2 DEF DInv, UnderWay, TypeOK, Collecting
    <3>. QED
      BY <3>1, <3>3, <3>4 DEF DInv, UnderWay
  <2>. QED
    BY <2>1, <2>2
<1>. QED
  BY <1>0, <1>5, <1>6 DEF DInv, UnderWay

\* Steps of one scrape that leave the cache alone.
LEMMA ScrapeStep ==
    ASSUME DInv, TypeOK', NEW s \in Scrapes,
           Collect(s) \/ CountsTaken(s) \/ CollectionFails(s)
    PROVE  UnderWay' /\ cached' = cached
<1>0. TypeOK /\ now \in Nat /\ now' = now /\ cached' = cached
  BY MetricsAssumption DEF DInv, UnderWay, TypeOK, Collect, CountsTaken, CollectionFails
<1>1. \A t \in Scrapes : t # s => scrape'[t] = scrape[t]
  BY <1>0 DEF Collect, CountsTaken, CollectionFails, Advance, TypeOK
<1>2. \A q \in Queues : cached[q] \in Int /\ cached[q] <= now
  BY <1>0 DEF DInv, UnderWay, TypeOK
<1>3. ASSUME s \in Collecting'
      PROVE  LET d == scrape'[s] IN
             /\ d.start <= d.issued /\ d.issued <= now
             /\ d.sample # None => d.issued <= d.sample /\ d.sample <= now /\ cached[d.q] <= d.sample
             /\ d.q = 2 /\ 1 \notin d.failed => d.start <= cached[1]
  <2>1. CASE Collect(s)
    <3>1. scrape'[s] = [Idle EXCEPT !.phase = "collecting", !.start = now, !.issued = now]
      BY <1>0, <1>3, <2>1 DEF Collect, Collecting, TypeOK
    <3>. QED
      BY <1>0, <3>1 DEF Idle
  <2>2. CASE CountsTaken(s)
    <3>1. scrape'[s] = [scrape[s] EXCEPT !.sample = now] /\ s \in Collecting
      BY <1>0, <2>2 DEF CountsTaken, TypeOK
    <3>. QED
      BY <1>0, <1>2, <3>1 DEF DInv, UnderWay, TypeOK
  <2>3. CASE CollectionFails(s)
    <3>1. /\ scrape'[s].q = 2 /\ scrape'[s].issued = now /\ scrape'[s].sample = None
          /\ scrape'[s].start = scrape[s].start
          /\ scrape'[s].failed = scrape[s].failed \cup {scrape[s].q}
          /\ scrape'[s].phase = "collecting" => scrape[s].q = 1
      BY <1>0, <2>3 DEF CollectionFails, Advance, TypeOK, Queues
    <3>2. s \in Collecting /\ scrape[s].start \in Nat /\ scrape[s].issued \in Nat
      BY <1>0, <2>3 DEF CollectionFails, TypeOK
    <3>. QED
      BY <1>0, <1>3, <3>1, <3>2 DEF DInv, UnderWay, TypeOK, Collecting
  <2>. QED
    BY <2>1, <2>2, <2>3
<1>4. ASSUME NEW t \in Collecting', t # s PROVE t \in Collecting /\ scrape'[t] = scrape[t]
  BY <1>1, <1>4 DEF Collecting
<1>. QED
  BY <1>0, <1>3, <1>4 DEF DInv, UnderWay

LEMMA TickStep == ASSUME DInv, TypeOK', Tick PROVE UnderWay'
<1>1. now \in Nat /\ now' = now + 1 /\ UNCHANGED <<cached, scrape>> /\ Collecting' = Collecting
  BY MetricsAssumption DEF DInv, UnderWay, TypeOK, Tick, depth, Collecting
<1>2. \A q \in Queues : cached'[q] <= now'
  BY <1>1 DEF DInv, UnderWay, TypeOK
<1>3. ASSUME NEW s \in Collecting
      PROVE  scrape[s].issued <= now' /\ (scrape[s].sample # None => scrape[s].sample <= now')
  BY <1>1 DEF DInv, UnderWay, TypeOK, Collecting
<1>. QED
  BY <1>1, <1>2, <1>3 DEF DInv, UnderWay

\* The least of Interval and Cap.
LEMMA TimeoutType == Timeout \in Nat \ {0} /\ Timeout <= Interval /\ Interval \in Nat \ {0}
BY MetricsAssumption DEF Timeout

\* What a step of a scrape does to the scrapes under way, unless it begins a
\* refresh: it goes on to the second queue, or ends.
GoesOn(t) ==
    /\ scrape'[t].start = scrape[t].start
    /\ \/ scrape'[t].q = scrape[t].q /\ scrape'[t].issued = scrape[t].issued
       \/ scrape[t].q = 1 /\ scrape'[t].q = 2 /\ scrape'[t].issued = now

LEMMA OthersStay ==
    ASSUME TypeOK, NEW s \in Scrapes, NEW t \in Scrapes, t # s,
           Collect(s) \/ CountsTaken(s) \/ CountsArrive(s) \/ CollectionFails(s)
    PROVE  scrape'[t] = scrape[t]
BY DEF TypeOK, Collect, CountsTaken, CountsArrive, CollectionFails, Advance

LEMMA AdvanceStep ==
    ASSUME TypeOK, NEW s \in Collecting, NEW failed, Advance(s, failed)
    PROVE  /\ s \in Collecting' <=> scrape[s].q = 1
           /\ scrape'[s].q = 2 /\ scrape'[s].issued = now
           /\ scrape'[s].start = scrape[s].start
BY DEF TypeOK, Advance, Collecting, Queues

LEMMA SameScrapesGoOn ==
    ASSUME TypeOK, NEW s \in Scrapes,
           \/ Collect(s) /\ last' = last
           \/ CountsTaken(s) \/ CountsArrive(s) \/ CollectionFails(s),
           now - last < Interval \/ s \in Collecting
    PROVE  /\ UNCHANGED <<now, last, prev>>
           /\ \A t \in Collecting' : t \in Collecting /\ GoesOn(t)
<1>1. ASSUME NEW t \in Collecting', t # s PROVE t \in Collecting /\ GoesOn(t)
  BY <1>1, OthersStay DEF Collecting, GoesOn
<1>2. CASE Collect(s)
  <2>1. now - last < Interval
    BY <1>2 DEF Collect, Collecting
  <2>2. ~(now - last >= Interval)
    BY <2>1, MetricsAssumption DEF TypeOK
  <2>3. scrape'[s].phase = "done" /\ UNCHANGED <<now, last, prev>>
    BY <1>2, <2>2 DEF Collect, TypeOK
  <2>. QED
    BY <1>1, <2>3 DEF Collecting
<1>3. CASE CountsTaken(s)
  <2>1. s \in Collecting /\ GoesOn(s) /\ UNCHANGED <<now, last, prev>>
    BY <1>3 DEF CountsTaken, TypeOK, GoesOn
  <2>. QED
    BY <1>1, <2>1
<1>4. CASE CountsArrive(s) \/ CollectionFails(s)
  <2>1. s \in Collecting /\ UNCHANGED <<now, last, prev>> /\ \E failed : Advance(s, failed)
    BY <1>4 DEF CountsArrive, CollectionFails
  <2>2. s \in Collecting' => GoesOn(s)
    BY <2>1, AdvanceStep DEF GoesOn
  <2>. QED
    BY <1>1, <2>1, <2>2
<1>. QED
  BY <1>2, <1>3, <1>4

\* A refresh begins an interval after the last one, and so after all others.
LEMMA RefreshBegins ==
    ASSUME TypeOK, NEW s \in Scrapes, Collect(s), now - last >= Interval
    PROVE  /\ now' = now /\ last' = now /\ prev' = last /\ s \notin Collecting
           /\ UNCHANGED <<cached, errors>>
           /\ Collecting' = Collecting \cup {s}
           /\ scrape'[s].start = now /\ scrape'[s].issued = now /\ scrape'[s].q = 1
           /\ \A t \in Collecting : scrape'[t] = scrape[t]
<1>1. /\ now' = now /\ last' = now /\ prev' = last /\ s \notin Collecting /\ UNCHANGED <<cached, errors>>
      /\ scrape'[s] = [Idle EXCEPT !.phase = "collecting", !.start = now, !.issued = now]
  BY DEF Collect, Collecting, TypeOK
<1>2. /\ scrape'[s].phase = "collecting"
      /\ scrape'[s].start = now /\ scrape'[s].issued = now /\ scrape'[s].q = 1
  BY <1>1 DEF Idle
<1>3. \A t \in Scrapes : t # s => scrape'[t] = scrape[t]
  BY OthersStay
<1>4. Collecting' = Collecting \cup {s}
  BY <1>2, <1>3 DEF Collecting
<1>. QED
  BY <1>1, <1>2, <1>3, <1>4 DEF Collecting

\* Scrapes under way are well typed.
LEMMA CollectingType ==
    ASSUME TypeOK
    PROVE  /\ now \in Nat /\ last \in Int /\ prev \in Int
           /\ \A t \in Collecting : /\ scrape[t].start \in Nat /\ scrape[t].issued \in Nat
                                    /\ scrape[t].q \in Queues /\ t \in Scrapes
BY MetricsAssumption DEF TypeOK, Collecting

LEMMA PacedStep ==
    ASSUME DInv, TypeOK', NEW s \in Scrapes,
           Collect(s) \/ CountsTaken(s) \/ CountsArrive(s) \/ CollectionFails(s)
    PROVE  Paced'
<1>0. TypeOK /\ Paced /\ now \in Nat /\ last \in Int
  BY CollectingType DEF DInv
<1>1. CASE Collect(s) /\ now - last >= Interval
  <2>. DEFINE Apart(x, y) == x + Interval <= y \/ y + Interval <= x
  <2>1. ASSUME NEW t \in Collecting PROVE scrape[t].start + Interval <= now
    BY <1>0, <1>1, <2>1, CollectingType, TimeoutType DEF Paced
  <2>2. \A t \in Collecting' :
          /\ scrape'[t].start <= now /\ scrape'[t].issued <= scrape'[t].start + Timeout
          /\ now <= scrape'[t].issued + Timeout
          /\ scrape'[t].q = 1 => scrape'[t].issued = scrape'[t].start
    BY <1>0, <1>1, RefreshBegins, CollectingType, TimeoutType DEF Paced
  <2>3. ASSUME NEW t \in Collecting', NEW u \in Collecting', t # u
        PROVE  Apart(scrape'[t].start, scrape'[u].start)
    BY <1>0, <1>1, <2>1, <2>3, RefreshBegins DEF Paced
  <2>4. now' = now /\ last' = now
    BY <1>0, <1>1, RefreshBegins
  <2>. QED
    BY <1>0, <2>2, <2>3, <2>4 DEF Paced
<1>2. CASE ~(Collect(s) /\ now - last >= Interval)
  <2>1. /\ UNCHANGED <<now, last>>
        /\ \A t \in Collecting' : t \in Collecting /\ GoesOn(t)
    <3>1. CASE Collect(s)
      <4>1. now - last < Interval /\ last' = last
        BY <1>0, <1>2, <3>1, TimeoutType DEF Collect
      <4>. QED
        BY <1>0, <3>1, <4>1, SameScrapesGoOn
    <3>2. CASE CountsTaken(s) \/ CountsArrive(s) \/ CollectionFails(s)
      <4>1. s \in Collecting
        BY <3>2 DEF CountsTaken, CountsArrive, CollectionFails
      <4>. QED
        BY <1>0, <3>2, <4>1, SameScrapesGoOn
    <3>. QED
      BY <3>1, <3>2
  <2>2. ASSUME NEW t \in Collecting'
        PROVE  /\ scrape'[t].start <= last /\ scrape'[t].issued <= scrape'[t].start + Timeout
               /\ now <= scrape'[t].issued + Timeout
               /\ scrape'[t].q = 1 => scrape'[t].issued = scrape'[t].start
    BY <1>0, <2>1, <2>2, CollectingType, TimeoutType DEF Paced, GoesOn
  <2>3. \A t, u \in Collecting' :
          \/ t = u
          \/ scrape'[t].start + Interval <= scrape'[u].start
          \/ scrape'[u].start + Interval <= scrape'[t].start
    BY <1>0, <2>1 DEF Paced, GoesOn
  <2>. QED
    BY <1>0, <2>1, <2>2, <2>3 DEF Paced
<1>. QED
  BY <1>1, <1>2

\* What has reached the cache stays there; what is still to reach it gets
\* there with its queue's counts, or the queue has an error.
LEMMA ReachedStep ==
    ASSUME DInv, NEW s \in Scrapes,
           Collect(s) \/ CountsTaken(s) \/ CountsArrive(s) \/ CollectionFails(s),
           \A q \in Queues : cached'[q] \in Int /\ cached'[q] >= cached[q],
           NEW q \in Queues \ errors', NEW time \in Int, Reached(q, time)
    PROVE  Reached(q, time)'
<1>0. TypeOK /\ cached[q] \in Int /\ cached'[q] \in Int /\ cached'[q] >= cached[q]
  BY DEF DInv, TypeOK
<1>1. CASE ~(time >= 0) \/ cached[q] >= time
  BY <1>0, <1>1 DEF Reached
<1>2. ASSUME NEW u \in Collecting, scrape[u].start = time, scrape[u].q <= q
      PROVE  Reached(q, time)'
  <2>1. CASE u # s
    <3>1. scrape'[u] = scrape[u] /\ u \in Collecting'
      BY <1>0, <2>1, OthersStay DEF Collecting
    <3>. QED
      BY <1>2, <3>1 DEF Reached
  <2>2. CASE u = s
    <3>1. ~Collect(s)
      BY <2>2 DEF Collect, Collecting
    <3>2. CASE CountsTaken(s)
      <4>1. s \in Collecting' /\ scrape'[s].start = time /\ scrape'[s].q = scrape[s].q
        BY <1>0, <1>2, <2>2, <3>2 DEF CountsTaken, TypeOK, Collecting
      <4>. QED
        BY <1>2, <2>2, <4>1 DEF Reached
    <3>3. CASE scrape[s].q = q /\ CountsArrive(s)
      <4>1. cached'[q] = scrape[s].sample /\ scrape[s].sample # None
        BY <1>0, <3>3 DEF CountsArrive, TypeOK
      <4>2. scrape[s].sample \in Nat /\ scrape[s].start \in Nat /\ scrape[s].issued \in Nat
        BY <1>0, <4>1 DEF TypeOK
      <4>3. scrape[s].start <= scrape[s].sample
        BY <1>2, <2>2, <4>1, <4>2 DEF DInv, UnderWay
      <4>. QED
        BY <1>2, <2>2, <4>1, <4>2, <4>3 DEF Reached
    <3>4. CASE scrape[s].q = q /\ CollectionFails(s)
      BY <3>4 DEF CollectionFails
    <3>5. CASE scrape[s].q # q /\ (CountsArrive(s) \/ CollectionFails(s))
      <4>1. scrape[s].q = 1 /\ q = 2
        BY <1>0, <1>2, <2>2, <3>5, CollectingType DEF Queues
      <4>2. s \in Collecting' /\ scrape'[s].start = time /\ scrape'[s].q = 2
        BY <1>0, <1>2, <2>2, <3>5, <4>1, AdvanceStep DEF CountsArrive, CollectionFails
      <4>. QED
        BY <4>1, <4>2 DEF Reached
    <3>. QED
      BY <3>1, <3>2, <3>3, <3>4, <3>5
  <2>. QED
    BY <2>1, <2>2
<1>. QED
  BY <1>1, <1>2 DEF Reached

LEMMA LastTwoStep ==
    ASSUME DInv, TypeOK', NEW s \in Scrapes,
           Collect(s) \/ CountsTaken(s) \/ CountsArrive(s) \/ CollectionFails(s),
           \A q \in Queues : cached'[q] >= cached[q]
    PROVE  LastTwoReach'
<1>0. TypeOK /\ errors \subseteq errors' /\ \A q \in Queues : cached'[q] \in Int
  BY DEF DInv, TypeOK, Collect, CountsTaken, CountsArrive, CollectionFails
<1>1. ASSUME NEW q \in Queues \ errors'
      PROVE  (Reached(q, prev) /\ Reached(q, last)) /\ prev \in Int /\ last \in Int
  BY <1>0, CollectingType DEF DInv, LastTwoReach
<1>2. CASE UNCHANGED <<last, prev>>
  <2>1. ASSUME NEW q \in Queues \ errors', NEW time \in {prev, last}
        PROVE  Reached(q, time)'
    BY <1>0, <1>1, ReachedStep
  <2>. QED
    BY <1>2, <2>1 DEF LastTwoReach, Reached
<1>3. CASE Collect(s) /\ now - last >= Interval
  <2>1. prev' = last /\ last' = now /\ s \in Collecting' /\ scrape'[s].start = now /\ scrape'[s].q = 1
    BY <1>0, <1>3, RefreshBegins
  <2>2. ASSUME NEW q \in Queues \ errors', NEW time \in {last} PROVE Reached(q, time)'
    BY <1>0, <1>1, ReachedStep
  <2>3. ASSUME NEW q \in Queues \ errors' PROVE 1 <= q
    BY DEF Queues
  <2>. QED
    BY <2>1, <2>2, <2>3 DEF LastTwoReach, Reached
<1>4. UNCHANGED <<last, prev>> \/ (Collect(s) /\ now - last >= Interval)
  BY DEF Collect, CountsTaken, CountsArrive, CollectionFails
<1>. QED
  BY <1>2, <1>3, <1>4

LEMMA DInvTick == ASSUME DInv, TypeOK', Tick PROVE DInv'
<1>0. /\ TypeOK /\ now \in Nat /\ now' = now + 1
      /\ UNCHANGED <<last, prev, cached, errors, scrape>> /\ Collecting' = Collecting
  BY MetricsAssumption DEF DInv, TypeOK, Tick, depth, Collecting
<1>1. UnderWay'
  BY TickStep
<1>2. ASSUME NEW s \in Collecting PROVE now' <= scrape[s].issued + Timeout
  BY <1>0, <1>2, CollectingType, TimeoutType DEF Tick
<1>3. last <= now'
  BY <1>0, CollectingType DEF DInv, Paced
<1>4. Paced'
  BY <1>0, <1>2, <1>3 DEF DInv, Paced
<1>5. LastTwoReach'
  BY <1>0 DEF DInv, LastTwoReach, Reached
<1>. QED
  BY <1>1, <1>4, <1>5 DEF DInv

LEMMA DInvNext ==
    DInv /\ [Next]_vars => DInv' /\ \A q \in Queues : cached'[q] >= cached[q]
<1>1. ASSUME DInv, UNCHANGED <<now, depth>>, TypeOK' PROVE DInv' /\ cached' = cached
  BY <1>1 DEF DInv, UnderWay, Paced, LastTwoReach, Reached, depth, Collecting
<1>2. ASSUME DInv, [Next]_vars PROVE TypeOK'
  BY <1>2, TypeNext DEF DInv
<1>3. ASSUME DInv, [Next]_vars, Tick PROVE DInv' /\ cached' = cached
  BY <1>2, <1>3, DInvTick DEF Tick, depth
<1>4. ASSUME DInv, [Next]_vars, DepthStep
      PROVE  DInv' /\ \A q \in Queues : cached'[q] >= cached[q]
  <2>1. PICK s \in Scrapes : Collect(s) \/ CountsTaken(s) \/ CountsArrive(s) \/ CollectionFails(s)
    BY <1>4 DEF DepthStep
  <2>2. \A q \in Queues : cached[q] >= cached[q]
    BY <1>4 DEF DInv, TypeOK
  <2>3. UnderWay' /\ \A q \in Queues : cached'[q] >= cached[q]
    BY <1>2, <1>4, <2>1, <2>2, ArriveStep, ScrapeStep
  <2>4. Paced' /\ LastTwoReach'
    BY <1>2, <1>4, <2>1, <2>3, PacedStep, LastTwoStep
  <2>. QED
    BY <1>2, <1>4, <2>3, <2>4 DEF DInv
<1>5. ASSUME DInv, [Next]_vars, WorkerStep PROVE DInv' /\ cached' = cached
  <2>1. UNCHANGED <<now, depth>>
    BY <1>5, WorkerType DEF DInv
  <2>. QED
    BY <1>1, <1>2, <1>5, <2>1
<1>6. ASSUME DInv, UNCHANGED vars PROVE DInv' /\ cached' = cached
  BY <1>1, <1>2, <1>6 DEF vars
<1>7. ASSUME DInv, cached' = cached PROVE \A q \in Queues : cached'[q] >= cached[q]
  BY <1>7 DEF DInv, TypeOK
<1>. QED
  BY <1>3, <1>4, <1>5, <1>6, <1>7 DEF Next

-----------------------------------------------------------------------------
\* The strengthening of the worker's part.
THEOREM WorkerInductive == Spec => []WInv
<1>. QED
  BY WInvInit, WInvNext, PTL DEF Spec

\* The strengthening of the depth part.
THEOREM DepthInductive == Spec => []DInv
<1>1. DInv /\ [Next]_vars => DInv'
  BY DInvNext
<1>. QED
  BY DInvInit, <1>1, PTL DEF Spec

\* The types, for any number of scrapes, jobs and runs.
THEOREM TypeCorrect == Spec => []TypeOK
<1>. QED
  BY TypeInit, TypeNext, PTL DEF Spec

\* The gauge exceeds the running jobs by the runs that ended silently.
THEOREM GaugeIsTooHighByLosses == Spec => []GaugeDriftsUp
<1>1. WInv => GaugeDriftsUp
  BY DEF WInv
<1>. QED
  BY WorkerInductive, <1>1, PTL

\* A recorded duration is never counted from an earlier run.
THEOREM DurationsAreOwn == Spec => []DurationIsOfThisRun
<1>1. WInv => DurationIsOfThisRun
  BY DEF WInv
<1>. QED
  BY WorkerInductive, <1>1, PTL

\* Overlapping refreshes never put older counts over newer ones.
THEOREM CountsAreMonotone == Spec => CountsNeverGoBack
<1> DEFINE Newer == \A q \in Queues : cached'[q] >= cached[q]
<1>1. DInv /\ [Next]_vars => [Newer]_vars
  BY DInvNext
<1>. QED
  BY DepthInductive, <1>1, PTL DEF Spec, CountsNeverGoBack

\* Each of these intervals is shorter than what lies between two refreshes.
LEMMA OneRefreshEach ==
    ASSUME DInv, NEW s \in Collecting, NEW t \in Collecting, s # t
    PROVE  /\ scrape[s].start <= now /\ now <= scrape[s].start + 2 * Timeout
           /\ \/ scrape[s].start + Timeout <= scrape[t].start
              \/ scrape[t].start + Timeout <= scrape[s].start
BY CollectingType, TimeoutType DEF DInv, Paced

\* The refreshes under way began within two timeouts, each a timeout or more
\* after the one before it: now, at most a timeout ago, or before that.
LEMMA DInvBoundsLoad == DInv => LoadIsBounded
<1> SUFFICES ASSUME DInv PROVE LoadIsBounded
  OBVIOUS
<1> DEFINE Age(s) == IF scrape[s].start = now THEN 1
                     ELSE IF now <= scrape[s].start + Timeout THEN 2 ELSE 3
           age == [s \in Collecting |-> Age(s)]
<1>1. ASSUME NEW s \in Collecting, NEW t \in Collecting, Age(s) = Age(t), s # t PROVE FALSE
  <2>1. /\ scrape[s].start \in Nat /\ scrape[t].start \in Nat /\ now \in Nat
        /\ scrape[s].start <= now /\ now <= scrape[s].start + 2 * Timeout
        /\ scrape[t].start <= now /\ now <= scrape[t].start + 2 * Timeout
        /\ \/ scrape[s].start + Timeout <= scrape[t].start
           \/ scrape[t].start + Timeout <= scrape[s].start
    BY <1>1, CollectingType, OneRefreshEach DEF DInv
  <2>. QED
    BY <1>1, <2>1, TimeoutType
<1>2. age \in [Collecting -> 1 .. 3] /\ \A s, t \in Collecting : age[s] = age[t] => s = t
  BY <1>1
<1>. HIDE DEF age
<1>3. age \in Injection(Collecting, 1 .. 3)
  BY <1>2, Fun_IsInj
<1>4. IsFiniteSet(1 .. 3) /\ Cardinality(1 .. 3) = 3
  <2>1. 1 \in Int /\ 3 \in Int /\ ~(1 > 3) /\ 3 - 1 + 1 = 3
    OBVIOUS
  <2>. QED
    BY <2>1, FS_Interval
<1>5. Cardinality(Collecting) <= Cardinality(1 .. 3)
  BY <1>3, <1>4, FS_Injection
<1>6. Cardinality(Queues) = 2
  <2>1. 1 \in Int /\ 2 \in Int /\ ~(1 > 2) /\ 2 - 1 + 1 = 2
    OBVIOUS
  <2>. QED
    BY <2>1, FS_Interval DEF Queues
<1>. QED
  BY <1>4, <1>5, <1>6 DEF LoadIsBounded

\* No number of overlapping scrapes puts more than three refreshes on Redis.
THEOREM LoadStaysBounded == Spec => []LoadIsBounded
<1>. QED
  BY DepthInductive, DInvBoundsLoad, PTL

\* The refresh before the last is in the cache, or under way for at most two
\* timeouts.
THEOREM StaysOneRefreshBehind == Spec => []OneRefreshBehind
<1>1. ASSUME DInv, NEW q \in Queues \ errors, prev >= 0
      PROVE  cached[q] >= prev \/ now <= prev + 2 * Timeout
  <2>1. CASE cached[q] >= prev
    BY <2>1
  <2>2. ASSUME NEW s \in Collecting, scrape[s].start = prev
        PROVE  now <= prev + 2 * Timeout
    BY <1>1, <2>2, CollectingType, TimeoutType DEF DInv, Paced
  <2>. QED
    BY <1>1, <2>1, <2>2 DEF DInv, LastTwoReach, Reached
<1>2. DInv => OneRefreshBehind
  BY <1>1 DEF OneRefreshBehind
<1>. QED
  BY DepthInductive, <1>2, PTL

\* A scrape that refreshed reports what was counted after it began.
THEOREM RefreshesAreReported == Spec => RefreshIsReported
<1> DEFINE Own == \A s \in Scrapes, q \in Queues :
          s \in Collecting /\ scrape'[s].phase = "done" /\ q \notin scrape'[s].failed
             => cached'[q] >= scrape[s].start
<1>1. ASSUME DInv, [Next]_vars, NEW s \in Scrapes, NEW q \in Queues,
             s \in Collecting, scrape'[s].phase = "done", q \notin scrape'[s].failed
      PROVE  cached'[q] >= scrape[s].start
  <2>0. TypeOK /\ now \in Nat /\ scrape[s].phase = "collecting" /\ scrape[s].start \in Nat
    BY <1>1, MetricsAssumption DEF DInv, UnderWay, TypeOK, Collecting
  <2>1. scrape'[s] # scrape[s]
    BY <1>1, <2>0
  <2>2. CountsArrive(s) \/ CollectionFails(s)
    <3>1. ~(Tick \/ UNCHANGED vars)
      BY <2>1 DEF Tick, vars, depth
    <3>2. ~WorkerStep
      BY <2>0, <2>1, WorkerType DEF depth
    <3>3. DepthStep
      BY <1>1, <3>1, <3>2 DEF Next
    <3>4. PICK t \in Scrapes : Collect(t) \/ CountsTaken(t) \/ CountsArrive(t) \/ CollectionFails(t)
      BY <3>3 DEF DepthStep
    <3>5. t = s
      BY <2>0, <2>1, <3>4 DEF Collect, CountsTaken, CountsArrive, CollectionFails, Advance, TypeOK
    <3>6. ~Collect(s)
      BY <2>0 DEF Collect
    <3>7. ~CountsTaken(s)
      BY <1>1, <2>0 DEF CountsTaken, TypeOK
    <3>. QED
      BY <3>4, <3>5, <3>6, <3>7
  <2>3. \A failed : Advance(s, failed) => scrape[s].q = 2 /\ scrape'[s].failed = failed
    BY <1>1, <2>0 DEF Advance, TypeOK
  <2>6. scrape[s].q = 2 /\ scrape[s].failed \subseteq scrape'[s].failed
    BY <2>2, <2>3 DEF CountsArrive, CollectionFails
  <2>7. CollectionFails(s) => 2 \in scrape'[s].failed
    BY <2>3 DEF CollectionFails
  <2>4. CASE q = 1
    <3>1. cached[1] >= scrape[s].start
      <4>1. 1 \notin scrape[s].failed
        BY <1>1, <2>4, <2>6
      <4>2. scrape[s].start <= cached[1] /\ cached[1] \in Int
        BY <1>1, <2>6, <4>1 DEF DInv, UnderWay, TypeOK, Queues
      <4>. QED
        BY <2>0, <4>2
    <3>2. cached'[1] = cached[1]
      BY <2>0, <2>2, <2>6 DEF CountsArrive, CollectionFails, TypeOK, Queues
    <3>. QED
      BY <2>4, <3>1, <3>2
  <2>5. CASE q = 2
    <3>1. CountsArrive(s)
      BY <1>1, <2>2, <2>5, <2>7
    <3>2. cached'[2] = scrape[s].sample
      BY <2>0, <2>6, <3>1 DEF CountsArrive, TypeOK, Queues
    <3>. QED
      BY <1>1, <2>0, <2>5, <3>1, <3>2 DEF DInv, UnderWay, TypeOK, CountsArrive, None
  <2>. QED
    BY <2>4, <2>5 DEF Queues
<1>2. DInv /\ [Next]_vars => [Own]_vars
  BY <1>1
<1>. QED
  BY DepthInductive, <1>2, PTL DEF Spec, RefreshIsReported
=============================================================================
