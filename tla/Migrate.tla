------------------------------- MODULE Migrate -------------------------------
(***************************************************************************)
(* The migration runner (database/migrate.ts) and its three migrations.    *)
(* Any number of processes run "up" or "down"; nothing keeps them from     *)
(* running at the same time.                                               *)
(*                                                                         *)
(* A migration and the row that records it are one transaction.  The       *)
(* locks on the migrated table and on the row are held to its end, so      *)
(* transactions that conflict take effect one after the other, each at     *)
(* its commit; applied_at is NOW(), the time of BEGIN.                     *)
(***************************************************************************)
EXTENDS Integers

CONSTANT Processes   \* runs of `migrate.ts up` and `migrate.ts down`

Versions == 1 .. 3   \* 001_init, 002_create_outbox_events, 003_add_outbox_last_error

VARIABLES
    rows,       \* versions in schema_migrations
    at,         \* version -> its applied_at, while it is in rows
    schema,     \* "jobs", "outbox_events" and the column "last_error", where they exist
    clock,      \* time, counted in transactions begun
    pc,         \* process -> where it is
    dir,        \* process -> its direction
    todo,       \* process -> the versions it still has to apply or roll back
    begun,      \* process -> NOW() of its transaction
    contested,  \* has a "down" run beside another process (history)
    fault       \* has a process died or lost its connection (history)

vars == <<rows, at, schema, clock, pc, dir, todo, begun, contested, fault>>

Running == {p \in Processes : pc[p] \in {"started", "ready", "open"}}

TypeOK ==
    /\ rows \subseteq Versions
    /\ at \in [Versions -> Nat]
    /\ schema \subseteq {"jobs", "outbox_events", "last_error"}
    /\ clock \in Nat
    /\ pc \in [Processes -> {"idle", "started", "ready", "open", "ok", "failed"}]
    /\ dir \in [Processes -> {"up", "down"}]
    /\ todo \in [Processes -> SUBSET Versions]
    /\ begun \in [Processes -> Nat]
    /\ contested \in BOOLEAN
    /\ fault \in BOOLEAN

Init ==
    /\ rows = {} /\ schema = {}
    /\ at = [v \in Versions |-> 0]
    /\ clock = 0
    /\ pc = [p \in Processes |-> "idle"]
    /\ dir \in [Processes -> {"up", "down"}]
    /\ todo = [p \in Processes |-> {}]
    /\ begun = [p \in Processes |-> 0]
    /\ contested = FALSE /\ fault = FALSE

database == <<rows, at, schema>>
Moves(p, to) == pc' = [pc EXCEPT ![p] = to]

-----------------------------------------------------------------------------
\* main and ensureMigrationsTable.
Start(p) ==
    /\ pc[p] = "idle"
    /\ Moves(p, "started")
    /\ contested' = (contested \/ \E q \in Running : "down" \in {dir[p], dir[q]})
    /\ UNCHANGED <<database, clock, dir, todo, begun, fault>>

\* ORDER BY applied_at DESC LIMIT 1
Latest_Earliest == {v \in rows : \A u \in rows : at[v] <= at[u]}
Latest == {v \in rows : \A u \in rows : at[u] <= at[v]}

\* The versions are read once, before the first transaction.
Read(p) ==
    /\ pc[p] = "started"
    /\ todo' = [todo EXCEPT ![p] = IF dir[p] = "up" THEN Versions \ rows ELSE Latest]
    /\ Moves(p, "ready")
    /\ UNCHANGED <<database, clock, dir, begun, contested, fault>>

\* The files are sorted by name.
NextVersion_Unsorted(p) == CHOOSE v \in todo[p] : \A u \in todo[p] : u <= v
NextVersion(p) == CHOOSE v \in todo[p] : \A u \in todo[p] : v <= u

Begin(p) ==
    /\ pc[p] = "ready"
    /\ todo[p] # {}
    /\ clock' = clock + 1
    /\ begun' = [begun EXCEPT ![p] = clock']
    /\ Moves(p, "open")
    /\ UNCHANGED <<database, dir, todo, contested, fault>>

\* What the *.up.sql and *.down.sql files do.  Only the index of 002 and
\* the table that 003 alters are not covered by IF [NOT] EXISTS.
Creates(v) == CASE v = 1 -> "jobs" [] v = 2 -> "outbox_events" [] v = 3 -> "last_error"

CanApply(v) ==
    /\ v = 2 => "outbox_events" \notin schema
    /\ v = 3 => "outbox_events" \in schema
    /\ v \notin rows   \* version is the primary key

CanRollBack(v) == v = 3 => "outbox_events" \in schema

Drops_TableOnly(v) == {Creates(v)}
Drops(v) == IF v = 2 THEN {"outbox_events", "last_error"} ELSE {Creates(v)}

\* The process goes on with the rest of its list.
Continues(p, v) ==
    /\ todo' = [todo EXCEPT ![p] = @ \ {v}]
    /\ Moves(p, "ready")
    /\ UNCHANGED <<clock, dir, begun, contested, fault>>

ApplyMigration_StopsAfterOne(p, v) ==
    /\ dir[p] = "up"
    /\ CanApply(v)
    /\ schema' = schema \cup {Creates(v)}
    /\ rows' = rows \cup {v}
    /\ at' = [at EXCEPT ![v] = begun[p]]
    /\ todo' = [todo EXCEPT ![p] = {}]
    /\ Moves(p, "ready")
    /\ UNCHANGED <<clock, dir, begun, contested, fault>>

ApplyMigration(p, v) ==
    /\ dir[p] = "up"
    /\ CanApply(v)
    /\ schema' = schema \cup {Creates(v)}
    /\ rows' = rows \cup {v}
    /\ at' = [at EXCEPT ![v] = begun[p]]
    /\ Continues(p, v)

\* Deleting a row that is not there any more is no error.
RollbackMigration(p, v) ==
    /\ dir[p] = "down"
    /\ CanRollBack(v)
    /\ schema' = schema \ Drops(v)
    /\ rows' = rows \ {v}
    /\ UNCHANGED at
    /\ Continues(p, v)

Commit(p) ==
    /\ pc[p] = "open"
    /\ ApplyMigration(p, NextVersion(p)) \/ RollbackMigration(p, NextVersion(p))

\* The SQL or the INSERT is refused: rollback, and the process exits with 1.
Refused(p) ==
    /\ pc[p] = "open"
    /\ ~ IF dir[p] = "up" THEN CanApply(NextVersion(p)) ELSE CanRollBack(NextVersion(p))
    /\ Moves(p, "failed")
    /\ UNCHANGED <<database, clock, dir, todo, begun, contested, fault>>

\* A death or a lost connection, or a deadlock or a race on the catalog that
\* PostgreSQL ends with an error; nothing runs the process again
\* (docker-compose.yml, restart: 'no').
Fails(p) ==
    /\ p \in Running
    /\ Moves(p, "failed")
    /\ fault' = TRUE
    /\ UNCHANGED <<database, clock, dir, todo, begun, contested>>

Done(p) ==
    /\ pc[p] = "ready"
    /\ todo[p] = {}
    /\ Moves(p, "ok")
    /\ UNCHANGED <<database, clock, dir, todo, begun, contested, fault>>

Step(p) == Read(p) \/ Begin(p) \/ Commit(p) \/ Refused(p) \/ Done(p)

Next == \E p \in Processes : Start(p) \/ Step(p) \/ Fails(p)

Spec == Init /\ [][Next]_vars

\* A process that runs goes on; PostgreSQL answers.
FairSpec == Spec /\ \A p \in Processes : WF_vars(Step(p))

-----------------------------------------------------------------------------
(* Properties.                                                             *)

\* The recorded versions have no gap.
Prefix(S) == \A v \in S : \A u \in Versions : u < v => u \in S

\* As long as no rollback runs beside another process, the record agrees with
\* the schema and has no gap, however many processes run "up" at once,
\* whichever of them fail, and however rollbacks and runs follow each other.
RecordMatchesSchema ==
    ~contested => Prefix(rows) /\ schema = {Creates(v) : v \in rows}

\* A process that reports success has brought the schema up to date, also
\* when others applied part of its list or fell back beside it.
SuccessMeansUpToDate ==
    [][\A p \in Processes :
          dir[p] = "up" /\ pc[p] # "ok" /\ pc'[p] = "ok" /\ ~contested => rows = Versions]_vars

\* Even beside rollbacks a recorded table exists, and an existing one is
\* recorded, and a column is recorded.
TablesMatch ==
    /\ 1 \in rows <=> "jobs" \in schema
    /\ 2 \in rows <=> "outbox_events" \in schema
    /\ "last_error" \in schema => 3 \in rows /\ "outbox_events" \in schema

\* Of processes that run "up" at once and refuse each other's versions,
\* one gets through: unless something fails, the schema is brought up to date.
UpsSucceed ==
    (\E p \in Processes : pc[p] = "started" /\ dir[p] = "up") ~>
        rows = Versions \/ fault \/ \E p \in Processes : dir[p] = "down" /\ pc[p] # "idle"

\* A history of undisturbed ups, of which at least one has started.
UndisturbedUps ==
    /\ ~fault
    /\ \A p \in Processes : pc[p] # "idle" => dir[p] = "up"
    /\ \E p \in Processes : pc[p] # "idle"

\* The safety part of UpsSucceed: however the ups refuse each other, they do
\* not all end and leave the schema behind.
UpsDoNotGiveUp == UndisturbedUps /\ Running = {} => rows = Versions

-----------------------------------------------------------------------------
(* The inductive invariant.                                                *)

\* applied_at grows with the version, so that the latest is the highest.
LatestIsHighest ==
    /\ \A u, v \in rows : u < v => at[u] < at[v]
    /\ \A v \in rows : at[v] <= clock

\* An "up" process has the rest of the versions before it, and what comes
\* before them was recorded before its transaction began.
UpList(p) ==
    pc[p] \in {"ready", "open"} /\ dir[p] = "up" =>
        /\ \A v \in Versions \ todo[p] : v \in rows /\ \A u \in Versions : u < v => u \notin todo[p]
        /\ pc[p] = "open" => /\ todo[p] # {}
                             /\ \A v \in Versions \ todo[p] : at[v] < begun[p]
                             /\ begun[p] <= clock

\* A "down" process, alone, has the highest version before it.
DownList(p) ==
    p \in Running /\ dir[p] = "down" =>
        /\ Running = {p}
        /\ pc[p] = "open" => todo[p] # {}
        /\ pc[p] \in {"ready", "open"} =>
              \A v \in todo[p] : v \in rows /\ todo[p] = {v} /\ \A u \in rows : u <= v

\* The conjunction that every step preserves.
MInv ==
    /\ TypeOK
    /\ TablesMatch
    /\ \A p \in Processes : pc[p] = "open" => todo[p] # {}
    /\ ~contested =>
          /\ RecordMatchesSchema
          /\ LatestIsHighest
          /\ \A p \in Processes : UpList(p) /\ DownList(p)

\* An "up" process whose list is just what is missing: nobody can refuse it.
Leads(p) ==
    \/ pc[p] = "started"
    \/ pc[p] \in {"ready", "open"} /\ todo[p] = Versions \ rows

\* Only a leader can commit, or its successor; so there is always one.
LeaderLeft ==
    /\ contested => \E p \in Processes : pc[p] # "idle" /\ dir[p] = "down"
    /\ UndisturbedUps => rows = Versions \/ \E p \in Processes : Leads(p)
=============================================================================
