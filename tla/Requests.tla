------------------------------- MODULE Requests -------------------------------
(***************************************************************************)
(* What a client asks of the API and what becomes of it (api/app.ts, the   *)
(* routes, schemas and middleware under api/, createJob and                *)
(* getJobWithEvents of services/job.service.ts): a request is parsed,      *)
(* validated and served from the database; a created job waits in the      *)
(* outbox, is put into the queue by another process with another clock     *)
(* and another configuration (core/queue/queue.producer.ts), and is taken  *)
(* by a third.  The outbox delivers as module OutboxDelivery promises.     *)
(*                                                                         *)
(* Cancel requests and the life of a job once taken are in JobLifecycle.   *)
(***************************************************************************)
EXTENDS Integers, FiniteSets

CONSTANTS
    Posts,          \* POST requests; a job is named by the one that created it
    Gets,           \* GET requests
    Bodies,         \* the bodies of POST /jobs that are tried
    ConfigRetries,  \* QUEUE_MAX_RETRIES of the outbox worker
    DelayMax,       \* the largest value of the INTEGER column delay_ms
    MaxSkew,        \* bound of how far the workers' clocks are ahead
    MaxTime         \* bound of the clock

\* JSON values of an optional number or time.
Absent == -3
Null == -2

Given == {v \in Int : v >= Null}
Body == [syntax : {"ok", "mistyped", "malformed"},
         delayMs : {Absent} \cup Given, runAt : {Absent} \cup Given, maxRetries : {Absent} \cup Given]

Requests == Posts \cup Gets

ASSUME RequestsAssumption ==
    /\ Posts \cap Gets = {}
    /\ Bodies \subseteq Body
    /\ ConfigRetries \in 0 .. 20
    /\ DelayMax \in Nat /\ MaxSkew \in Nat /\ MaxTime \in Nat

VARIABLES
    now,        \* the clock of the database and the API
    ahead,      \* how far the clocks of "outbox" and "worker" are ahead
    db, redis,  \* are they reachable
    request,    \* request -> where it is, what it asks and how it was answered
    row,        \* POST -> the row of the job it created
    recorded, delivered, acked,   \* the outbox events of these jobs (that they
                                  \* are acknowledged changes nothing here)
    queue,      \* POST -> the job in the queue: due when, how many attempts
    taken       \* POSTs whose job a worker has taken

outbox == <<recorded, delivered, acked>>
dependencies == <<db, redis>>
vars == <<now, ahead, dependencies, request, row, outbox, queue, taken>>

Delivery == INSTANCE OutboxDelivery WITH Events <- Posts

None == -1   \* no time
Phases == {"none", "transaction", "committed", "reading", "pinging", "answered"}
Codes == {0, 200, 201, 400, 404, 500, 503}   \* 0: none, the connection was lost
Routes == {"create", "list", "get", "detailed"}
Pings == {"none", "ok", "failed"}

Blank == [syntax |-> "ok", delayMs |-> Absent, runAt |-> Absent, maxRetries |-> Absent]
NoRow == [created |-> None, delayMs |-> 0, runAt |-> Absent, maxRetries |-> 0]
NoJob == [due |-> None, attempts |-> 0]
NotSent(r) == [phase |-> "none", route |-> "list", valid |-> TRUE, body |-> Blank, target |-> r,
               code |-> 0, db |-> "none", redis |-> "none"]

TypeOK ==
    /\ now \in 0 .. MaxTime
    /\ ahead \in [{"outbox", "worker"} -> 0 .. MaxSkew]
    /\ db \in BOOLEAN /\ redis \in BOOLEAN
    /\ request \in [Requests -> [phase : Phases, route : Routes, valid : BOOLEAN,
                                 body : Bodies \cup {Blank}, target : Requests, code : Codes,
                                 db : Pings, redis : Pings]]
    /\ row \in [Posts -> [created : Nat \cup {None}, delayMs : Nat, runAt : {Absent} \cup Nat,
                             maxRetries : 0 .. 20]]
    /\ recorded \subseteq Posts /\ delivered \subseteq Posts /\ acked \subseteq Posts
    /\ queue \in [Posts -> [due : Nat \cup {None}, attempts : 0 .. 21]]
    /\ taken \subseteq Posts

Init ==
    /\ now = 0
    /\ ahead \in [{"outbox", "worker"} -> 0 .. MaxSkew]
    /\ db = TRUE /\ redis = TRUE
    /\ request = [r \in Requests |-> NotSent(r)]
    /\ row = [r \in Posts |-> NoRow]
    /\ Delivery!DeliveryInit
    /\ queue = [r \in Posts |-> NoJob]
    /\ taken = {}

-----------------------------------------------------------------------------
(* Parsing and validation, before anything is awaited.                     *)

\* z.coerce.number(): Number(null) is 0.
Coerce(v) == IF v = Null THEN 0 ELSE v

OptionalNumber(v, max) == v = Absent \/ Coerce(v) \in 0 .. max

\* runAt is not coerced, so null is no datetime.
OptionalTime(v) == v = Absent \/ v >= 0

\* createJobSchema
ValidBody(b) ==
    /\ b.syntax = "ok"
    /\ b.delayMs = Absent \/ Coerce(b.delayMs) >= 0
    /\ OptionalTime(b.runAt)
    /\ OptionalNumber(b.maxRetries, 20)
    /\ b.delayMs = Absent \/ b.runAt = Absent

\* What becomes of a request at once: it goes on, or the error handler answers.
GoesOn(phase) == [phase |-> phase, code |-> 0]
Refused(code) == [phase |-> "answered", code |-> code]

Send(r, route, valid, body, target, outcome) ==
    /\ request[r].phase = "none"
    /\ request' = [request EXCEPT
          ![r] = [phase |-> outcome.phase, route |-> route, valid |-> valid,
                  body |-> IF outcome.phase = "answered" THEN Blank ELSE body, target |-> target,
                  code |-> outcome.code, db |-> "none", redis |-> "none"]]
    /\ UNCHANGED <<now, ahead, dependencies, row, outbox, queue, taken>>

\* The error of the JSON parser is no AppError.
PostOutcome(b) ==
    IF b.syntax = "malformed" THEN Refused(500)
    ELSE IF ValidBody(b) THEN GoesOn("transaction") ELSE Refused(400)

Post(r) == \E b \in Bodies : Send(r, "create", TRUE, b, r, PostOutcome(b))

\* In Express 5 req.query has no setter: assigning the parsed query throws.
List(r) ==
    \E valid \in BOOLEAN : Send(r, "list", valid, Blank, r, Refused(IF valid THEN 500 ELSE 400))

Get(r) ==
    \E valid \in BOOLEAN, job \in Posts :
        Send(r, "get", valid, Blank, job, IF valid THEN GoesOn("reading") ELSE Refused(400))

Detailed(r) == Send(r, "detailed", TRUE, Blank, r, GoesOn("pinging"))

-----------------------------------------------------------------------------
(* Handlers.                                                               *)

Answer(r, code) ==
    request' = [request EXCEPT ![r] = [@ EXCEPT !.phase = "answered", !.code = code]]

OrElse(v, default) == IF v = Absent THEN default ELSE Coerce(v)

\* createJob's defaults; created_at is the time of the transaction.
RowOf(b, at) == [created |-> at, delayMs |-> OrElse(b.delayMs, 0), runAt |-> b.runAt,
                 maxRetries |-> OrElse(b.maxRetries, 3)]

FitsTable(b) == OrElse(b.delayMs, 0) <= DelayMax

\* The transaction commits: row, event and outbox event.
CreateCommits_RowOnly(r) ==
    /\ request[r].phase = "transaction" /\ db
    /\ FitsTable(request[r].body)
    /\ request' = [request EXCEPT ![r] = [@ EXCEPT !.phase = "committed"]]
    /\ row' = [row EXCEPT ![r] = RowOf(request[r].body, now)]
    /\ UNCHANGED <<now, ahead, dependencies, outbox, queue, taken>>

CreateCommits(r) ==
    /\ request[r].phase = "transaction" /\ db
    /\ FitsTable(request[r].body)
    /\ request' = [request EXCEPT ![r] = [@ EXCEPT !.phase = "committed"]]
    /\ row' = [row EXCEPT ![r] = RowOf(request[r].body, now)]
    /\ Delivery!Record(r)
    /\ UNCHANGED <<now, ahead, dependencies, queue, taken>>

\* It is rolled back: no connection within connectionTimeoutMillis, a value
\* out of the column's range, an error of the database.
CreateFails_Swallowed(r) ==
    /\ request[r].phase = "transaction"
    /\ Answer(r, 201)
    /\ UNCHANGED <<now, ahead, dependencies, row, outbox, queue, taken>>

CreateFails(r) ==
    /\ request[r].phase = "transaction"
    /\ Answer(r, 500)
    /\ UNCHANGED <<now, ahead, dependencies, row, outbox, queue, taken>>

\* The answer to a commit, which may get lost on its way from the database.
CreateReplies(r) ==
    /\ request[r].phase = "committed"
    /\ Answer(r, 201) \/ Answer(r, 500)
    /\ UNCHANGED <<now, ahead, dependencies, row, outbox, queue, taken>>

\* getJobWithEvents; or the read fails.
GetReplies(r) ==
    /\ request[r].phase = "reading"
    /\ \/ db /\ Answer(r, IF row[request[r].target] = NoRow THEN 404 ELSE 200)
       \/ Answer(r, 500)
    /\ UNCHANGED <<now, ahead, dependencies, row, outbox, queue, taken>>

\* pingDatabase settles either way.
PingDatabase_NoTimeout(r) ==
    /\ request[r].phase = "pinging" /\ request[r].db = "none" /\ db
    /\ request' = [request EXCEPT ![r] = [@ EXCEPT !.db = "ok"]]
    /\ UNCHANGED <<now, ahead, dependencies, row, outbox, queue, taken>>

PingDatabase(r) ==
    /\ request[r].phase = "pinging" /\ request[r].db = "none"
    /\ request' = [request EXCEPT ![r] = [@ EXCEPT !.db = IF db THEN "ok" ELSE "failed"]]
    /\ UNCHANGED <<now, ahead, dependencies, row, outbox, queue, taken>>

\* pingRedis: Redis answers or refuses (it is loading, has no disk, wants a
\* password); without a limit of retries the PING waits until it is back.
PingRedis(r) ==
    /\ request[r].phase = "pinging" /\ request[r].redis = "none" /\ redis
    /\ \E answer \in {"ok", "failed"} :
          request' = [request EXCEPT ![r] = [@ EXCEPT !.redis = answer]]
    /\ UNCHANGED <<now, ahead, dependencies, row, outbox, queue, taken>>

HealthReplies(r) ==
    /\ request[r].phase = "pinging"
    /\ request[r].db # "none" /\ request[r].redis # "none"
    /\ Answer(r, IF request[r].db = "ok" /\ request[r].redis = "ok" THEN 200 ELSE 503)
    /\ UNCHANGED <<now, ahead, dependencies, row, outbox, queue, taken>>

-----------------------------------------------------------------------------
(* The environment and the other processes.                                *)

Tick ==
    /\ now < MaxTime
    /\ now' = now + 1
    /\ UNCHANGED <<ahead, dependencies, request, row, outbox, queue, taken>>

\* The API process ends (client.ts ends it when an idle connection breaks,
\* and one that breaks inside withTransaction is an uncaught error) and is
\* started again: the clients see lost connections.
Reset == [r \in Requests |-> IF request[r].phase = "none" THEN request[r]
                             ELSE [request[r] EXCEPT !.phase = "answered"]]

DatabaseFails ==
    /\ db /\ db' = FALSE
    /\ request' = request \/ request' = Reset
    /\ UNCHANGED <<now, ahead, redis, row, outbox, queue, taken>>

DatabaseRecovers ==
    /\ db' = TRUE
    /\ UNCHANGED <<now, ahead, redis, request, row, outbox, queue, taken>>

RedisFailsOrRecovers ==
    /\ redis' = ~redis
    /\ UNCHANGED <<now, ahead, db, request, row, outbox, queue, taken>>

\* enqueueJob on the clock of the outbox worker.
RunAtDelay(r, clock) ==
    LET at == request[r].body.runAt IN IF at > clock THEN at - clock ELSE 0

MaxOf_Smaller(a, b) == IF a <= b THEN a ELSE b
MaxOf(a, b) == IF a >= b THEN a ELSE b

\* The options of the queue job.  maxRetries has a default of its own here.
Options_OneAttemptLess(r, clock) ==
    LET delayMs == OrElse(request[r].body.delayMs, 0) IN
    [due |-> clock + MaxOf(delayMs, RunAtDelay(r, clock)),
     attempts |-> OrElse(request[r].body.maxRetries, ConfigRetries)]

Options(r, clock) ==
    LET delayMs == OrElse(request[r].body.delayMs, 0) IN
    [due |-> clock + MaxOf(delayMs, RunAtDelay(r, clock)),
     attempts |-> OrElse(request[r].body.maxRetries, ConfigRetries) + 1]

\* At least once; the queue keeps the first job of a name.
EnqueueJob(r) ==
    /\ redis /\ db
    /\ Delivery!Deliver(r)
    /\ queue' = IF queue[r] = NoJob
                THEN [queue EXCEPT ![r] = Options(r, now + ahead["outbox"])] ELSE queue
    /\ UNCHANGED <<now, ahead, dependencies, request, row, taken>>

\* BullMQ promotes a delayed job by the clock of the queue worker.
TakeJob(r) ==
    /\ redis /\ queue[r] # NoJob /\ r \notin taken
    /\ now + ahead["worker"] >= queue[r].due
    /\ taken' = taken \cup {r}
    /\ UNCHANGED <<now, ahead, dependencies, request, row, outbox, queue>>

-----------------------------------------------------------------------------
Serve(r) ==
    \/ CreateCommits(r) \/ CreateFails(r) \/ CreateReplies(r)
    \/ GetReplies(r) \/ PingDatabase(r) \/ PingRedis(r) \/ HealthReplies(r)

Next ==
    \/ Tick \/ DatabaseFails \/ DatabaseRecovers \/ RedisFailsOrRecovers
    \/ \E r \in Posts : Post(r) \/ EnqueueJob(r) \/ TakeJob(r)
    \/ \E r \in Gets : List(r) \/ Get(r) \/ Detailed(r)
    \/ \E r \in Requests : Serve(r)

Spec == Init /\ [][Next]_vars

\* A request that arrived is served, time passes, and a worker takes what is
\* due as long as Redis is there.  Nothing fails or recovers of necessity,
\* nor need the outbox deliver.
Fairness ==
    /\ WF_vars(Tick)
    /\ \A r \in Requests : WF_vars(Serve(r))
    /\ \A r \in Posts : WF_vars(TakeJob(r))

FairSpec == Spec /\ Fairness

-----------------------------------------------------------------------------
(* Properties.                                                             *)

\* The job of a request is not taken before its runAt, nor before delayMs
\* have passed since it was created, on clocks that differ by MaxSkew:
\* three processes, and the time in the outbox, add up to no more.
NeverEarly ==
    [][\A r \in taken' \ taken :
          /\ now + MaxSkew >= row[r].created + row[r].delayMs
          /\ now + MaxSkew >= row[r].runAt]_vars

\* The queue tries a job as often as its row announces, except where the
\* client left it to two defaults that disagree.
AttemptsAsAnnounced ==
    \A r \in Posts :
        queue[r] # NoJob /\ queue[r].attempts # row[r].maxRetries + 1 =>
            request[r].body.maxRetries = Absent /\ ConfigRetries # 3

\* An accepted job is in the database with its outbox event; a refused one is
\* not; what was answered with 500, or not at all, may or may not be.
AnswersAreTrue ==
    \A r \in Posts : request[r].phase = "answered" =>
        /\ request[r].code = 201 => row[r] # NoRow /\ r \in recorded
        /\ request[r].code = 400 => row[r] = NoRow /\ r \notin recorded

\* No request is answered with 404 for a job that has been announced to its
\* client, even if the request came before the announcement.
AnnouncedIsFound ==
    [][\A r \in Gets :
          request[r].phase = "reading" /\ request'[r].code = 404
             => request[request[r].target].code # 201]_vars

\* A request is answered, or its connection lost, whatever the database
\* does; /health/detailed only if Redis does not stay away.
EveryRequestEnds ==
    \A r \in Requests :
        (request[r].phase # "none") ~>
            \/ request[r].phase = "answered"
            \/ request[r].route = "detailed" /\ ~redis

\* A job answered with 201 is taken by a worker in the end, whatever delay or
\* time its client named and whatever fails on the way, if the outbox delivers
\* (module Outbox shows when) and Redis stays up.
AcceptedIsTaken ==
    Delivery!Delivers /\ <>[]redis =>
        \A r \in Posts : (request[r].code = 201) ~>
            \/ r \in taken
            \/ queue[r].due > MaxTime + ahead["worker"]   \* the bound

\* api/docs/jobs.openapi.ts:82, the documented answer to a valid request for
\* a list of jobs is 200.
ListIsAnswered ==
    \A r \in Gets : request[r].route = "list" /\ request[r].valid => request[r].code \in {0, 200}

-----------------------------------------------------------------------------
\* The inductive invariant.  A row has its outbox event and what was asked
\* for; ...
RowsAsAsked ==
    \A r \in Posts :
        /\ r \in recorded <=> row[r] # NoRow
        /\ row[r] # NoRow =>
              ValidBody(request[r].body) /\ row[r] = RowOf(request[r].body, row[r].created)
        /\ row[r].created <= now

\* ... where a request is tells what has been recorded and answered; ...
PhasesFit ==
    /\ \A r \in Requests : request[r].phase # "answered" => request[r].code = 0
    /\ \A r \in Posts :
          /\ request[r].phase = "answered" \/ (row[r] # NoRow) = (request[r].phase = "committed")
          /\ request[r].code = 201 => row[r] # NoRow
          /\ request[r].code = 400 => row[r] = NoRow
          /\ request[r].phase = "transaction" => ValidBody(request[r].body)
          /\ request[r].phase \notin {"reading", "pinging"}
    /\ \A r \in Gets :
          /\ request[r].phase \notin {"transaction", "committed"}
          /\ request[r].phase = "reading" => request[r].target \in Posts

\* ... and a job in the queue was recorded, and is due no earlier than asked.
QueueAsRecorded ==
    \A r \in Posts :
        /\ r \in delivered => r \in recorded
        /\ r \in taken => queue[r] # NoJob
        /\ queue[r] # NoJob =>
              /\ row[r] # NoRow
              /\ row[r].created + row[r].delayMs <= queue[r].due
              /\ row[r].runAt <= queue[r].due
              /\ queue[r].attempts = OrElse(request[r].body.maxRetries, ConfigRetries) + 1

RInv ==
    /\ TypeOK
    /\ RowsAsAsked
    /\ PhasesFit
    /\ QueueAsRecorded
=============================================================================
