---------------------------- MODULE MigrateProofs ----------------------------
(***************************************************************************)
(* Proofs about Migrate, for any number of processes.  MInv is inductive;  *)
(* the part about a record without gaps needs the list each process read   *)
(* (UpList, DownList) and the order of applied_at (LatestIsHighest).       *)
(***************************************************************************)
EXTENDS Migrate, TLAPS

\* The next version is the smallest of the list (the files are sorted).
LEMMA NextIsSmallest ==
    ASSUME TypeOK, NEW p \in Processes, todo[p] # {}
    PROVE  NextVersion(p) \in todo[p] /\ \A u \in todo[p] : NextVersion(p) <= u
<1>1. todo[p] \subseteq 1 .. 3
  BY DEF TypeOK, Versions
<1>2. \E v \in todo[p] : \A u \in todo[p] : v <= u
  <2>1. CASE 1 \in todo[p]
    BY <1>1, <2>1
  <2>2. CASE 1 \notin todo[p] /\ 2 \in todo[p]
    BY <1>1, <2>2
  <2>3. CASE 1 \notin todo[p] /\ 2 \notin todo[p]
    BY <1>1, <2>3
  <2>. QED
    BY <2>1, <2>2, <2>3
<1>. QED
  BY <1>2 DEF NextVersion

\* In the initial state there is nothing, recorded or not.
LEMMA MInvInit == Init => MInv
<1>1. ASSUME Init PROVE TypeOK
  BY <1>1 DEF Init, TypeOK
<1>2. ASSUME Init PROVE TablesMatch /\ RecordMatchesSchema /\ LatestIsHighest
  BY <1>2 DEF Init, TablesMatch, RecordMatchesSchema, Prefix, LatestIsHighest
<1>3. ASSUME Init, NEW p \in Processes PROVE pc[p] = "idle" /\ UpList(p) /\ DownList(p)
  BY <1>3 DEF Init, UpList, DownList, Running
<1>. QED
  BY <1>1, <1>2, <1>3 DEF MInv

\* Steps that leave the database and the lists of the running alone.
LEMMA Quiet ==
    ASSUME MInv, NEW p \in Processes,
           UNCHANGED database, clock' \in Nat, clock <= clock', contested' = contested,
           pc' \in [Processes -> {"idle", "started", "ready", "open", "ok", "failed"}],
           dir' = dir, fault' \in BOOLEAN,
           todo' \in [Processes -> SUBSET Versions], begun' \in [Processes -> Nat],
           Running' \subseteq Running,
           \A q \in Processes \ {p} :
               pc'[q] = pc[q] /\ todo'[q] = todo[q] /\ begun'[q] = begun[q],
           pc'[p] = "open" => todo'[p] # {},
           ~contested => UpList(p)' /\ DownList(p)'
    PROVE  MInv'
<1>1. TypeOK'
  BY DEF MInv, TypeOK, database
<1>2. TablesMatch'
  BY DEF MInv, TablesMatch, database
<1>3. \A q \in Processes : pc'[q] = "open" => todo'[q] # {}
  BY DEF MInv
<1>4. ASSUME ~contested PROVE RecordMatchesSchema' /\ LatestIsHighest'
  BY <1>4 DEF MInv, TypeOK, RecordMatchesSchema, LatestIsHighest, Prefix, database, Versions
<1>5. ASSUME ~contested, NEW q \in Processes PROVE UpList(q)' /\ DownList(q)'
  <2>1. CASE q = p
    BY <1>5, <2>1
  <2>2. CASE q # p
    <3>1. UpList(q)'
      BY <1>5, <2>2 DEF MInv, TypeOK, UpList, database, Versions
    <3>2. DownList(q)'
      BY <1>5, <2>2 DEF MInv, TypeOK, DownList, database, Running
    <3>. QED
      BY <3>1, <3>2
  <2>. QED
    BY <2>1, <2>2
<1>. QED
  BY <1>1, <1>2, <1>3, <1>4, <1>5 DEF MInv

\* A process starts: if a rollback runs beside it, the record is on its own.
LEMMA StartStep == ASSUME MInv, NEW p \in Processes, Start(p) PROVE MInv'
<1>1. TypeOK'
  BY DEF MInv, TypeOK, Start, Moves, database
<1>2. TablesMatch' /\ \A q \in Processes : pc'[q] = "open" => todo'[q] # {}
  BY DEF MInv, TypeOK, TablesMatch, Start, Moves, database
<1>3. ASSUME ~contested' PROVE RecordMatchesSchema' /\ LatestIsHighest'
  BY <1>3 DEF MInv, TypeOK, RecordMatchesSchema, LatestIsHighest, Prefix, Start, Moves, database
<1>4. ASSUME ~contested', NEW q \in Processes PROVE UpList(q)' /\ DownList(q)'
  <2>1. UpList(q)'
    BY <1>4 DEF MInv, TypeOK, UpList, Start, Moves, database, Versions
  <2>2. DownList(q)'
    <3>1. SUFFICES ASSUME q \in Running', dir[q] = "down"
                   PROVE  /\ Running' = {q}
                          /\ pc'[q] = "open" => todo'[q] # {}
                          /\ pc'[q] \in {"ready", "open"} =>
                               \A v \in todo'[q] : v \in rows' /\ todo'[q] = {v} /\ \A u \in rows' : u <= v
      BY DEF DownList, Start
    <3>2. CASE q = p
      <4>1. Running = {}
        BY <1>4, <3>1, <3>2 DEF Start
      <4>. QED
        BY <3>2, <4>1 DEF MInv, TypeOK, Running, Start, Moves
    <3>3. CASE q # p
      <4>1. q \in Running
        BY <3>1, <3>3 DEF MInv, TypeOK, Running, Start, Moves
      <4>. QED
        BY <1>4, <3>1, <4>1 DEF Start
    <3>. QED
      BY <3>2, <3>3
  <2>. QED
    BY <2>1, <2>2
<1>. QED
  BY <1>1, <1>2, <1>3, <1>4 DEF MInv

\* Without a gap, what is missing is a rest, and the latest is the highest.
LEMMA ReadStep == ASSUME MInv, NEW p \in Processes, Read(p) PROVE MInv'
<1>1. todo' \in [Processes -> SUBSET Versions]
  BY DEF MInv, TypeOK, Read, Latest
<1>2. pc'[p] = "ready" /\ Running' = Running
  BY DEF MInv, TypeOK, Read, Moves, Running
<1>3. ASSUME ~contested PROVE UpList(p)'
  <2>1. dir[p] = "up" => todo'[p] = Versions \ rows
    BY DEF MInv, TypeOK, Read
  <2>2. Prefix(rows)
    BY <1>3 DEF MInv, RecordMatchesSchema
  <2>. QED
    BY <1>2, <2>1, <2>2 DEF MInv, TypeOK, UpList, Prefix, Read, database, Versions
<1>4. ASSUME ~contested PROVE DownList(p)'
  <2>1. SUFFICES ASSUME dir[p] = "down"
                 PROVE  /\ Running = {p}
                        /\ \A v \in Latest : v \in rows /\ Latest = {v} /\ \A u \in rows : u <= v
    BY <1>2 DEF MInv, TypeOK, DownList, Read, database
  <2>2. Running = {p}
    BY <1>4, <2>1 DEF MInv, DownList, Running, Read
  <2>3. ASSUME NEW v \in Latest, NEW u \in rows PROVE u <= v
    BY <1>4, <2>3 DEF MInv, TypeOK, LatestIsHighest, Latest, Versions
  <2>4. ASSUME NEW v \in Latest, NEW u \in Latest PROVE u = v
    BY <2>3 DEF Latest, MInv, TypeOK, Versions
  <2>. QED
    BY <2>2, <2>3, <2>4 DEF Latest
<1>. QED
  BY <1>1, <1>2, <1>3, <1>4, Quiet DEF MInv, TypeOK, Read, Moves

\* NOW() of the new transaction is later than everything recorded.
LEMMA BeginStep == ASSUME MInv, NEW p \in Processes, Begin(p) PROVE MInv'
<1>1. /\ pc'[p] = "open" /\ todo'[p] # {} /\ Running' = Running
      /\ clock' = clock + 1 /\ begun'[p] = clock'
  BY DEF MInv, TypeOK, Begin, Moves, Running
<1>2. ASSUME ~contested PROVE UpList(p)'
  BY <1>1, <1>2 DEF MInv, TypeOK, UpList, LatestIsHighest, Begin, database, Versions
<1>3. ASSUME ~contested PROVE DownList(p)'
  BY <1>1, <1>3 DEF MInv, TypeOK, DownList, Begin, database, Running
<1>. QED
  BY <1>1, <1>2, <1>3, Quiet DEF MInv, TypeOK, Begin, Moves

\* A process ends, well or badly: nothing it has not committed remains.
LEMMA EndStep ==
    ASSUME MInv, NEW p \in Processes, Refused(p) \/ Fails(p) \/ Done(p)
    PROVE  MInv'
<1>1. pc'[p] \in {"ok", "failed"} /\ Running' \subseteq Running
  BY DEF MInv, TypeOK, Refused, Fails, Done, Moves, Running
<1>2. UpList(p)' /\ DownList(p)'
  BY <1>1 DEF UpList, DownList, Running
<1>3. /\ UNCHANGED <<database, clock, dir, todo, begun, contested>> /\ fault' \in BOOLEAN
      /\ pc' \in [Processes -> {"idle", "started", "ready", "open", "ok", "failed"}]
      /\ \A q \in Processes \ {p} : pc'[q] = pc[q]
  BY DEF MInv, TypeOK, Refused, Fails, Done, Moves
<1>4. clock \in Nat /\ todo \in [Processes -> SUBSET Versions] /\ begun \in [Processes -> Nat]
  BY DEF MInv, TypeOK
<1>. QED
  BY <1>1, <1>2, <1>3, <1>4, Quiet

\* The versions below the next of an "up" process are recorded, all older
\* than its transaction, and the next one is all that the record grows by.
LEMMA ApplyStep ==
    ASSUME MInv, NEW p \in Processes, pc[p] = "open",
           NEW v, v = NextVersion(p), ApplyMigration(p, v)
    PROVE  MInv'
<1>0. /\ v \in todo[p] /\ v \in Versions /\ v \notin rows
      /\ \A u \in todo[p] : v <= u
  BY NextIsSmallest DEF MInv, TypeOK, ApplyMigration, CanApply
<1>1. TypeOK'
  BY <1>0 DEF MInv, TypeOK, ApplyMigration, Continues, Moves, Creates, Versions
<1>2. TablesMatch'
  BY <1>0 DEF MInv, TypeOK, TablesMatch, ApplyMigration, CanApply, Creates, Versions
<1>3. \A q \in Processes : pc'[q] = "open" => todo'[q] # {}
  BY DEF MInv, TypeOK, ApplyMigration, Continues, Moves
<1>4. ASSUME ~contested
      PROVE  RecordMatchesSchema' /\ LatestIsHighest' /\ \A q \in Processes : UpList(q)' /\ DownList(q)'
  <2>1. /\ \A u \in Versions : u < v => u \in rows /\ at[u] < begun[p]
        /\ begun[p] <= clock
    BY <1>0, <1>4 DEF MInv, TypeOK, UpList, ApplyMigration, Versions
  <2>2. Prefix(rows) /\ schema = {Creates(u) : u \in rows}
    BY <1>4 DEF MInv, RecordMatchesSchema
  <2>3. \A u \in rows : u < v
    BY <1>0, <2>2 DEF Prefix, MInv, TypeOK, Versions
  <2>4. RecordMatchesSchema'
    BY <1>0, <2>1, <2>2 DEF RecordMatchesSchema, Prefix, ApplyMigration, MInv, TypeOK, Versions
  <2>5. LatestIsHighest'
    BY <1>0, <1>4, <2>1, <2>3
       DEF LatestIsHighest, ApplyMigration, Continues, MInv, TypeOK, Versions
  <2>6. ASSUME NEW q \in Processes PROVE UpList(q)'
    <3>1. CASE q = p
      BY <1>0, <1>4, <2>3, <3>1
         DEF UpList, ApplyMigration, Continues, Moves, MInv, TypeOK, Versions
    <3>2. CASE q # p
      <4>1. SUFFICES ASSUME pc[q] \in {"ready", "open"}, dir[q] = "up" PROVE UpList(q)'
        BY <3>2 DEF UpList, ApplyMigration, Continues, Moves, MInv, TypeOK
      <4>2. v \in todo[q]
        BY <1>0, <1>4, <4>1 DEF MInv, UpList
      <4>. QED
        BY <1>0, <1>4, <3>2, <4>1, <4>2
           DEF UpList, ApplyMigration, Continues, Moves, MInv, TypeOK, Versions
    <3>. QED
      BY <3>1, <3>2
  <2>7. ASSUME NEW q \in Processes PROVE DownList(q)'
    <3>1. p \in Running /\ Running' = Running
      BY DEF Running, ApplyMigration, Continues, Moves, MInv, TypeOK
    <3>2. q \in Running => dir[q] = "up"
      BY <1>4, <3>1 DEF MInv, DownList, TypeOK, ApplyMigration
    <3>. QED
      BY <3>1, <3>2 DEF DownList, ApplyMigration, Continues, MInv, TypeOK
  <2>. QED
    BY <2>4, <2>5, <2>6, <2>7
<1>5. contested' = contested
  BY DEF ApplyMigration, Continues
<1>. QED
  BY <1>1, <1>2, <1>3, <1>4, <1>5 DEF MInv

\* A rollback that is alone takes the highest version off.
LEMMA RollbackStep ==
    ASSUME MInv, NEW p \in Processes, pc[p] = "open",
           NEW v, v = NextVersion(p), RollbackMigration(p, v)
    PROVE  MInv'
<1>0. v \in todo[p] /\ v \in Versions
  BY NextIsSmallest DEF MInv, TypeOK
<1>1. TypeOK'
  BY <1>0 DEF MInv, TypeOK, RollbackMigration, Continues, Moves, Versions
<1>2. TablesMatch'
  BY <1>0 DEF MInv, TypeOK, TablesMatch, RollbackMigration, Drops, Creates, Versions
<1>3. \A q \in Processes : pc'[q] = "open" => todo'[q] # {}
  BY DEF MInv, TypeOK, RollbackMigration, Continues, Moves
<1>4. ASSUME ~contested
      PROVE  RecordMatchesSchema' /\ LatestIsHighest' /\ \A q \in Processes : UpList(q)' /\ DownList(q)'
  <2>1. /\ Running = {p} /\ todo[p] = {v} /\ v \in rows /\ \A u \in rows : u <= v
    BY <1>0, <1>4 DEF MInv, DownList, Running, RollbackMigration
  <2>2. Prefix(rows) /\ schema = {Creates(u) : u \in rows}
    BY <1>4 DEF MInv, RecordMatchesSchema
  <2>3. Prefix(rows')
    BY <1>0, <2>1, <2>2 DEF Prefix, RollbackMigration, MInv, TypeOK, Versions
  <2>4. schema' = {Creates(u) : u \in rows'}
    <3>1. Drops(v) \cap schema = {Creates(v)}
      BY <1>0, <2>1, <2>2 DEF Drops, Creates, MInv, TypeOK, Versions
    <3>2. \A u \in rows : u # v => Creates(u) # Creates(v)
      BY <1>0 DEF Creates, MInv, TypeOK, Versions
    <3>. QED
      BY <2>1, <2>2, <3>1, <3>2 DEF RollbackMigration
  <2>5. LatestIsHighest'
    BY <1>4 DEF LatestIsHighest, RollbackMigration, Continues, MInv
  <2>6. Running' = {p} /\ todo'[p] = {} /\ pc'[p] = "ready"
    BY <2>1 DEF Running, RollbackMigration, Continues, Moves, MInv, TypeOK
  <2>7. \A q \in Processes : UpList(q)' /\ DownList(q)'
    BY <2>6 DEF UpList, DownList, Running, RollbackMigration, Continues
  <2>. QED
    BY <2>3, <2>4, <2>5, <2>7 DEF RecordMatchesSchema
<1>5. contested' = contested
  BY DEF RollbackMigration, Continues
<1>. QED
  BY <1>1, <1>2, <1>3, <1>4, <1>5 DEF MInv

LEMMA MInvNext == MInv /\ [Next]_vars => MInv'
<1>1. ASSUME MInv, UNCHANGED vars PROVE MInv'
  BY <1>1 DEF MInv, TypeOK, TablesMatch, RecordMatchesSchema, Prefix, LatestIsHighest,
              UpList, DownList, Running, vars, database
<1>2. ASSUME MInv, NEW p \in Processes, Start(p) PROVE MInv'
  BY <1>2, StartStep
<1>3. ASSUME MInv, NEW p \in Processes, Step(p) PROVE MInv'
  BY <1>3, ReadStep, BeginStep, EndStep, ApplyStep, RollbackStep DEF Step, Commit
<1>4. ASSUME MInv, NEW p \in Processes, Fails(p) PROVE MInv'
  BY <1>4, EndStep
<1>. QED
  BY <1>1, <1>2, <1>3, <1>4 DEF Next

-----------------------------------------------------------------------------
\* The strengthening holds in every reachable state.
THEOREM Inductive == Spec => []MInv
<1>. QED
  BY MInvInit, MInvNext, PTL DEF Spec

\* The types, for any number of processes.
THEOREM TypeCorrect == Spec => []TypeOK
<1>1. MInv => TypeOK
  BY DEF MInv
<1>. QED
  BY Inductive, <1>1, PTL

\* Any number of "up" processes at once, and rollbacks that run alone, leave
\* a record without gaps that agrees with the schema.
THEOREM RecordIsTrue == Spec => []RecordMatchesSchema
<1>1. MInv => RecordMatchesSchema
  BY DEF MInv, RecordMatchesSchema
<1>. QED
  BY Inductive, <1>1, PTL

\* Even beside rollbacks, tables are recorded and recorded tables exist.
THEOREM TablesAreRecorded == Spec => []TablesMatch
<1>1. MInv => TablesMatch
  BY DEF MInv
<1>. QED
  BY Inductive, <1>1, PTL

\* A process that reports success leaves the schema up to date.
THEOREM SuccessIsTrue == Spec => SuccessMeansUpToDate
<1> DEFINE Success == \A p \in Processes :
          dir[p] = "up" /\ pc[p] # "ok" /\ pc'[p] = "ok" /\ ~contested => rows = Versions
<1>1. ASSUME MInv, [Next]_vars, NEW p \in Processes,
             dir[p] = "up", pc[p] # "ok", pc'[p] = "ok", ~contested
      PROVE  rows = Versions
  <2>1. Done(p)
    BY <1>1 DEF MInv, TypeOK, Next, Start, Step, Read, Begin, Commit, ApplyMigration,
                RollbackMigration, Continues, Refused, Fails, Done, Moves, vars
  <2>. QED
    BY <1>1, <2>1 DEF MInv, TypeOK, UpList, Done, Versions
<1>2. MInv /\ [Next]_vars => [Success]_vars
  BY <1>1
<1>. QED
  BY Inductive, <1>2, PTL DEF Spec, SuccessMeansUpToDate

-----------------------------------------------------------------------------
(* Racing ups.                                                             *)

LEMMA LeaderInit == Init => LeaderLeft
  BY DEF Init, LeaderLeft, UndisturbedUps

\* Without rollbacks the record has no gap, and the lists are rests.
LEMMA UpsAreUncontested ==
    ASSUME MInv, LeaderLeft, UndisturbedUps
    PROVE  ~contested /\ Prefix(rows) /\ schema = {Creates(v) : v \in rows}
             /\ \A p \in Processes : UpList(p)
<1>1. ~contested
  BY DEF LeaderLeft, UndisturbedUps
<1>. QED
  BY <1>1 DEF MInv, RecordMatchesSchema

\* Running "up" processes read, begin, commit or end without a fault; what
\* they did not disturb before a step they have not after it.
LEMMA StepOfUps ==
    ASSUME MInv, NEW p \in Processes, Step(p)
    PROVE  /\ UNCHANGED <<dir, contested, fault>>
           /\ pc[p] # "idle" /\ pc'[p] # "idle"
           /\ \A q \in Processes \ {p} : pc'[q] = pc[q] /\ todo'[q] = todo[q]
           /\ UndisturbedUps' => UndisturbedUps
<1>1. /\ UNCHANGED <<dir, contested, fault>>
      /\ pc[p] # "idle" /\ pc'[p] # "idle"
      /\ \A q \in Processes \ {p} : pc'[q] = pc[q] /\ todo'[q] = todo[q]
  BY DEF MInv, TypeOK, Step, Read, Begin, Commit, ApplyMigration, RollbackMigration, Continues,
         Refused, Done, Moves
<1>2. \A q \in Processes : pc[q] # "idle" => pc'[q] # "idle"
  BY <1>1
<1>. QED
  BY <1>1, <1>2 DEF UndisturbedUps

\* A commit: the committer's list is all that is missing, before and after,
\* because the first version of a rest was missing.
LEMMA CommitLeads ==
    ASSUME MInv, LeaderLeft, UndisturbedUps, NEW p \in Processes, Commit(p)
    PROVE  Leads(p)'
<1> DEFINE v == NextVersion(p)
<1>1. pc[p] = "open" /\ dir[p] = "up" /\ todo[p] # {}
  BY DEF Commit, UndisturbedUps, MInv
<1>2. /\ v \in todo[p] /\ (\A u \in todo[p] : v <= u)
      /\ v \notin rows /\ rows' = rows \cup {v}
      /\ pc'[p] = "ready" /\ todo'[p] = todo[p] \ {v}
  BY <1>1, NextIsSmallest
     DEF Commit, ApplyMigration, RollbackMigration, CanApply, Continues, Moves, MInv, TypeOK
<1>3. /\ todo[p] \subseteq Versions /\ rows \subseteq Versions
      /\ \A u \in Versions \ todo[p] : u \in rows
  BY <1>1, UpsAreUncontested DEF UpList, MInv, TypeOK
<1> HIDE DEF v
<1>4. ASSUME NEW u \in todo[p] PROVE u \notin rows
  <2>1. u = v \/ v < u
    BY <1>2, <1>3 DEF Versions
  <2>. QED
    BY <1>2, <1>3, <2>1, UpsAreUncontested DEF Prefix
<1>5. todo'[p] = Versions \ rows'
  BY <1>2, <1>3, <1>4
<1>. QED
  BY <1>2, <1>5 DEF Leads

\* A leader is not refused: nobody has recorded its next version, and the
\* table that version 3 alters exists.
LEMMA LeaderIsNotRefused ==
    ASSUME MInv, LeaderLeft, UndisturbedUps, NEW p \in Processes, Refused(p)
    PROVE  ~Leads(p)
<1> DEFINE v == NextVersion(p)
<1>1. pc[p] = "open" /\ dir[p] = "up" /\ todo[p] # {} /\ ~CanApply(v)
  BY DEF Refused, UndisturbedUps, MInv
<1>2. v \in todo[p] /\ v \in Versions /\ \A u \in todo[p] : v <= u
  BY <1>1, NextIsSmallest DEF MInv, TypeOK
<1> HIDE DEF v
<1>3. SUFFICES ASSUME todo[p] = Versions \ rows PROVE CanApply(v)
  BY <1>1 DEF Leads
<1>4. v \notin rows /\ \A u \in Versions : u < v => u \in rows
  BY <1>2, <1>3 DEF Versions
<1>5. TablesMatch
  BY DEF MInv
<1>6. v = 3 => 2 \in rows
  BY <1>4 DEF Versions
<1>. QED
  BY <1>4, <1>5, <1>6 DEF CanApply, TablesMatch

\* Every step of an "up" leaves a leader, or a complete record.
LEMMA LeaderStep ==
    ASSUME MInv, LeaderLeft, UndisturbedUps, NEW p \in Processes, Step(p)
    PROVE  rows' = Versions \/ \E q \in Processes : Leads(q)'
<1>1. \A q \in Processes \ {p} : pc'[q] = pc[q] /\ todo'[q] = todo[q]
  BY StepOfUps
<1>2. CASE Commit(p)
  BY <1>2, CommitLeads
<1>3. CASE ~Commit(p)
  <2>1. rows' = rows
    BY <1>3 DEF Step, Read, Begin, Refused, Done, database
  <2>2. ASSUME Leads(p) PROVE rows = Versions \/ Leads(p)'
    <3>1. CASE Read(p)
      BY <2>1, <3>1 DEF Read, Moves, Leads, UndisturbedUps, MInv, TypeOK
    <3>2. CASE Begin(p)
      BY <2>1, <2>2, <3>2 DEF Begin, Moves, Leads, MInv, TypeOK
    <3>3. CASE Done(p)
      BY <2>2, <3>3 DEF Done, Leads, MInv, TypeOK
    <3>. QED
      BY <1>3, <2>2, <3>1, <3>2, <3>3, LeaderIsNotRefused DEF Step
  <2>3. ASSUME NEW q \in Processes, q # p, Leads(q) PROVE Leads(q)'
    BY <1>1, <2>1, <2>3 DEF Leads
  <2>. QED
    BY <2>1, <2>2, <2>3 DEF LeaderLeft
<1>. QED
  BY <1>2, <1>3

LEMMA LeaderNext == MInv /\ LeaderLeft /\ [Next]_vars => LeaderLeft'
<1>. SUFFICES ASSUME MInv, LeaderLeft, [Next]_vars PROVE LeaderLeft'
  OBVIOUS
<1>1. CASE UNCHANGED vars
  BY <1>1 DEF vars, LeaderLeft, UndisturbedUps, Leads
<1>2. ASSUME NEW p \in Processes, Start(p) PROVE LeaderLeft'
  <2>1. pc'[p] = "started" /\ dir' = dir /\ \A q \in Processes \ {p} : pc'[q] = pc[q]
    BY <1>2 DEF Start, Moves, MInv, TypeOK
  <2>2. contested' => \E q \in Processes : pc'[q] # "idle" /\ dir'[q] = "down"
    BY <1>2, <2>1 DEF Start, LeaderLeft, Running, MInv, TypeOK
  <2>. QED
    BY <2>1, <2>2 DEF LeaderLeft, Leads
<1>3. ASSUME NEW p \in Processes, Step(p) PROVE LeaderLeft'
  <2>1. contested' => \E q \in Processes : pc'[q] # "idle" /\ dir'[q] = "down"
    BY <1>3, StepOfUps DEF LeaderLeft
  <2>2. UndisturbedUps' => rows' = Versions \/ \E q \in Processes : Leads(q)'
    BY <1>3, StepOfUps, LeaderStep
  <2>. QED
    BY <2>1, <2>2 DEF LeaderLeft
<1>4. ASSUME NEW p \in Processes, Fails(p) PROVE LeaderLeft'
  BY <1>4 DEF Fails, Moves, LeaderLeft, UndisturbedUps, Running, MInv, TypeOK
<1>. QED
  BY <1>1, <1>2, <1>3, <1>4 DEF Next

LEMMA LeaderInductive == Spec => []LeaderLeft
  BY LeaderInit, LeaderNext, Inductive, PTL DEF Spec

\* Ups that race and refuse each other's versions do not all give up: when
\* none runs any more, the schema is up to date (database/migrate.ts:60, migrateUp).
THEOREM RacingUpsGetThrough == Spec => []UpsDoNotGiveUp
<1>1. ASSUME LeaderLeft, UndisturbedUps, Running = {} PROVE rows = Versions
  <2>1. ASSUME NEW p \in Processes, Leads(p) PROVE FALSE
    BY <1>1, <2>1 DEF Running, Leads
  <2>. QED
    BY <1>1, <2>1 DEF LeaderLeft
<1>. QED
  BY <1>1, LeaderInductive, PTL DEF UpsDoNotGiveUp
=============================================================================
