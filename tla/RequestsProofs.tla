---------------------------- MODULE RequestsProofs ----------------------------
(***************************************************************************)
(* Proofs about Requests, for any set of requests and bodies, any skew of  *)
(* the clocks and any configured number of retries.                        *)
(***************************************************************************)
EXTENDS Requests, TLAPS

Asked == [phase : Phases, route : Routes, valid : BOOLEAN, body : Bodies \cup {Blank},
          target : Requests, code : Codes, db : Pings, redis : Pings]
Rows == [created : Nat \cup {None}, delayMs : Nat, runAt : {Absent} \cup Nat, maxRetries : 0 .. 20]
Queued == [due : Nat \cup {None}, attempts : 0 .. 21]

\* What RInv says of one request, apart from the row of its job.
Fits(r) ==
    /\ request[r].phase # "answered" => request[r].code = 0
    /\ r \in Posts =>
          /\ request[r].phase = "answered" \/ (row[r] # NoRow) = (request[r].phase = "committed")
          /\ request[r].code = 201 => row[r] # NoRow
          /\ request[r].code = 400 => row[r] = NoRow
          /\ request[r].phase = "transaction" => ValidBody(request[r].body)
          /\ request[r].phase \notin {"reading", "pinging"}
    /\ r \in Gets =>
          /\ request[r].phase \notin {"transaction", "committed"}
          /\ request[r].phase = "reading" => request[r].target \in Posts

LEMMA FitsAll == PhasesFit <=> \A r \in Requests : Fits(r)
BY DEF PhasesFit, Fits, Requests

\* What the schema lets through has a row and queue options of their types.
LEMMA ValidBodies ==
    ASSUME NEW b \in Bodies \cup {Blank}, ValidBody(b)
    PROVE  /\ OrElse(b.delayMs, 0) \in Nat
           /\ b.runAt \in {Absent} \cup Nat
           /\ OrElse(b.maxRetries, 3) \in 0 .. 20
           /\ OrElse(b.maxRetries, ConfigRetries) \in 0 .. 20
<1>1. b \in Body
  BY RequestsAssumption DEF Blank, Body
<1>2. /\ b.delayMs \in Int /\ b.runAt \in Int /\ b.maxRetries \in Int
  BY <1>1 DEF Body, Given, Absent
<1>. QED
  BY <1>2, RequestsAssumption
     DEF ValidBody, OptionalNumber, OptionalTime, OrElse, Coerce, Absent, Null

LEMMA TypeInit == Init => TypeOK
<1>1. ASSUME NEW r \in Requests PROVE NotSent(r) \in Asked
  BY DEF NotSent, Asked, Phases, Routes, Codes, Pings
<1>2. NoRow \in Rows /\ NoJob \in Queued
  BY DEF NoRow, NoJob, Rows, Queued, None
<1>3. ASSUME Init PROVE request \in [Requests -> Asked] /\ row \in [Posts -> Rows]
                        /\ queue \in [Posts -> Queued]
  BY <1>1, <1>2, <1>3 DEF Init
<1>. QED
  BY <1>3, RequestsAssumption DEF Init, TypeOK, Asked, Rows, Queued, Delivery!DeliveryInit

LEMMA RInvInit == Init => RInv
<1>1. ASSUME Init, NEW r \in Requests PROVE Fits(r)
  <2>1. request[r] = NotSent(r)
    BY <1>1 DEF Init
  <2>2. r \in Posts => row[r] = NoRow
    BY <1>1 DEF Init
  <2>. QED
    BY <2>1, <2>2 DEF Fits, NotSent
<1>2. ASSUME Init PROVE RowsAsAsked /\ QueueAsRecorded
  BY <1>2 DEF Init, RowsAsAsked, QueueAsRecorded, Delivery!DeliveryInit, NoRow, None
<1>. QED
  BY <1>1, <1>2, TypeInit, FitsAll DEF RInv

-----------------------------------------------------------------------------
\* A record of a request keeps its type.
LEMMA RequestTypes ==
    ASSUME TypeOK, NEW r \in Requests
    PROVE  /\ request \in [Requests -> Asked] /\ request[r] \in Asked
           /\ \A c \in Asked : [request EXCEPT ![r] = c] \in [Requests -> Asked]
           /\ \A p \in Phases, c \in Codes :
                 [request[r] EXCEPT !.phase = p, !.code = c] \in Asked
           /\ \A p \in Phases : [request[r] EXCEPT !.phase = p] \in Asked
<1>1. request \in [Requests -> Asked]
  BY DEF TypeOK, Asked
<1>2. request[r] \in Asked
  BY <1>1
<1>. QED
  BY <1>1, <1>2 DEF Asked

\* The part of the state that serving a request leaves alone.
Served == <<now, ahead, dependencies, row, outbox, queue, taken>>

\* A step of one request that neither records nor enqueues.
LEMMA QuietStep ==
    ASSUME RInv, NEW r \in Requests, NEW c \in Asked, UNCHANGED <<now, row, outbox, queue, taken>>,
           ahead' = ahead, db' \in BOOLEAN, redis' \in BOOLEAN,
           request' = [request EXCEPT ![r] = c],
           r \in Posts => c.body = request[r].body \/ row[r] = NoRow,
           Fits(r)'
    PROVE  RInv'
<1>0. TypeOK /\ request' \in [Requests -> Asked] /\ request'[r] = c
  BY RequestTypes DEF RInv, TypeOK
<1>1. TypeOK'
  BY <1>0 DEF TypeOK, outbox, Asked
<1>2. \A x \in Requests : x # r => request'[x] = request[x]
  BY <1>0
<1>3. \A x \in Requests : Fits(x)'
  <2>1. \A x \in Requests : Fits(x)
    BY FitsAll DEF RInv
  <2>2. ASSUME NEW x \in Requests, x # r PROVE Fits(x)'
    <3>1. request'[x] = request[x] /\ row' = row /\ Fits(x)
      BY <1>2, <2>1, <2>2
    <3>. QED
      BY <3>1 DEF Fits
  <2>. QED
    BY <2>2
<1>4. PhasesFit'
  BY <1>3 DEF PhasesFit, Fits, Requests
<1>5. \A x \in Posts : row[x] # NoRow => request'[x].body = request[x].body
  BY <1>0, <1>2 DEF Requests
<1>6. RowsAsAsked'
  BY <1>5 DEF RInv, RowsAsAsked, outbox
<1>7. QueueAsRecorded'
  BY <1>5 DEF RInv, QueueAsRecorded, outbox
<1>. QED
  BY <1>1, <1>4, <1>6, <1>7 DEF RInv

\* What may become of a request at once.
Outcomes == [phase : Phases \ {"none", "committed"}, code : Codes \ {201}]

LEMMA SendStep ==
    ASSUME RInv, NEW r \in Requests, NEW route \in Routes, NEW valid \in BOOLEAN,
           NEW body \in Bodies \cup {Blank}, NEW target \in Requests,
           NEW outcome \in Outcomes,
           outcome.phase # "answered" => outcome.code = 0,
           r \in Posts => outcome.phase \in {"transaction", "answered"},
           outcome.phase = "transaction" => r \notin Gets /\ ValidBody(body),
           outcome.phase = "reading" => target \in Posts,
           Send(r, route, valid, body, target, outcome)
    PROVE  RInv'
<1> DEFINE kept == IF outcome.phase = "answered" THEN Blank ELSE body
           c == [phase |-> outcome.phase, route |-> route, valid |-> valid, body |-> kept,
                 target |-> target, code |-> outcome.code, db |-> "none", redis |-> "none"]
<1>0. TypeOK /\ request[r] \in Asked /\ request[r].phase = "none"
  BY RequestTypes DEF RInv, Send
<1>a. kept \in Bodies \cup {Blank} /\ (outcome.phase # "answered" => kept = body)
  OBVIOUS
<1>b. request' = [request EXCEPT ![r] = c]
  BY DEF Send
<1> HIDE DEF kept
<1>1. /\ c \in Asked
      /\ c.phase = outcome.phase /\ c.code = outcome.code /\ c.target = target
      /\ c.db = "none" /\ c.redis = "none"
      /\ outcome.phase # "answered" => c.body = body
  <2>1. outcome.phase \in Phases /\ outcome.code \in Codes
    BY DEF Outcomes
  <2>2. "none" \in Pings
    BY DEF Pings
  <2>. QED
    BY <1>a, <2>1, <2>2 DEF Asked
<1> HIDE DEF c
<1>2. request' = [request EXCEPT ![r] = c] /\ request'[r] = c
  BY <1>b, RequestTypes DEF RInv
<1>3. Fits(r) /\ row' = row
  BY FitsAll DEF RInv, Send
<1>4. r \in Posts => row[r] = NoRow
  BY <1>0, <1>3 DEF Fits
<1>5. Fits(r)'
  BY <1>1, <1>2, <1>3, <1>4 DEF Fits, Outcomes
<1>6. UNCHANGED <<now, row, outbox, queue, taken>> /\ ahead' = ahead
      /\ db' \in BOOLEAN /\ redis' \in BOOLEAN
  BY <1>0 DEF Send, dependencies, TypeOK
<1>. QED
  BY <1>1, <1>2, <1>4, <1>5, <1>6, QuietStep

LEMMA ArriveStep ==
    ASSUME RInv, NEW r \in Requests,
           \/ r \in Posts /\ Post(r)
           \/ r \in Gets /\ (List(r) \/ Get(r) \/ Detailed(r))
    PROVE  RInv'
<1>0. \A p \in {"transaction", "reading", "pinging"} : GoesOn(p) \in Outcomes
  BY DEF GoesOn, Outcomes, Phases, Codes
<1>1. \A n \in {400, 500} : Refused(n) \in Outcomes
  BY DEF Refused, Outcomes, Phases, Codes
<1>2. r \in Posts => r \notin Gets
  BY RequestsAssumption
<1>3. CASE r \in Posts /\ Post(r)
  <2>1. PICK b \in Bodies : Send(r, "create", TRUE, b, r, PostOutcome(b))
    BY <1>3 DEF Post
  <2>2. /\ PostOutcome(b) \in Outcomes
        /\ PostOutcome(b).phase # "answered" => PostOutcome(b).code = 0 /\ ValidBody(b)
        /\ PostOutcome(b).phase \in {"transaction", "answered"}
    BY <1>0, <1>1 DEF PostOutcome, GoesOn, Refused
  <2> DEFINE o == PostOutcome(b)
  <2>3. /\ o \in Outcomes /\ o.phase \in {"transaction", "answered"}
        /\ o.phase # "answered" => o.code = 0 /\ ValidBody(b)
        /\ Send(r, "create", TRUE, b, r, o)
    BY <2>1, <2>2
  <2> HIDE DEF o
  <2>. QED
    BY <1>2, <1>3, <2>3, SendStep DEF Routes
<1>4. CASE r \in Gets /\ List(r)
  <2>1. PICK valid \in BOOLEAN :
           Send(r, "list", valid, Blank, r, Refused(IF valid THEN 500 ELSE 400))
    BY <1>4 DEF List
  <2>2. PICK n \in {400, 500} : Send(r, "list", valid, Blank, r, Refused(n))
    BY <2>1
  <2>3. Refused(n).phase = "answered" /\ Refused(n) \in Outcomes
    BY <1>1 DEF Refused
  <2>. QED
    BY <1>2, <1>4, <2>2, <2>3, SendStep DEF Routes
<1>5. CASE r \in Gets /\ Get(r)
  <2>1. PICK valid \in BOOLEAN, job \in Posts :
           Send(r, "get", valid, Blank, job, IF valid THEN GoesOn("reading") ELSE Refused(400))
    BY <1>5 DEF Get
  <2> DEFINE o == IF valid THEN GoesOn("reading") ELSE Refused(400)
  <2>2. o \in Outcomes /\ o.phase \in {"reading", "answered"} /\ (o.phase # "answered" => o.code = 0)
    BY <1>0, <1>1 DEF GoesOn, Refused
  <2>3. Send(r, "get", valid, Blank, job, o)
    BY <2>1
  <2> HIDE DEF o
  <2>. QED
    BY <1>2, <1>5, <2>2, <2>3, SendStep DEF Routes, Requests
<1>6. CASE r \in Gets /\ Detailed(r)
  <2> DEFINE o == GoesOn("pinging")
  <2>1. /\ o \in Outcomes /\ o.phase = "pinging" /\ o.code = 0
        /\ Send(r, "detailed", TRUE, Blank, r, o)
    BY <1>0, <1>6 DEF GoesOn, Detailed
  <2> HIDE DEF o
  <2>. QED
    BY <1>2, <1>6, <2>1, SendStep DEF Routes
<1>. QED
  BY <1>3, <1>4, <1>5, <1>6

\* Answers and pings.
LEMMA ReplyStep ==
    ASSUME RInv, NEW r \in Requests,
           \/ CreateFails(r) \/ CreateReplies(r) \/ GetReplies(r)
           \/ PingDatabase(r) \/ PingRedis(r) \/ HealthReplies(r)
    PROVE  RInv'
<1>0. /\ TypeOK /\ request[r] \in Asked /\ Fits(r) /\ row' = row
      /\ UNCHANGED <<now, row, outbox, queue, taken>> /\ ahead' = ahead
      /\ db' \in BOOLEAN /\ redis' \in BOOLEAN
  BY RequestTypes, FitsAll
     DEF RInv, TypeOK, dependencies, CreateFails, CreateReplies, GetReplies, PingDatabase,
         PingRedis, HealthReplies
<1>1. ASSUME NEW code \in Codes, Answer(r, code), request[r].phase # "answered",
             r \in Posts => (code = 201 => row[r] # NoRow) /\ (code = 400 => row[r] = NoRow)
      PROVE  RInv'
  <2> DEFINE c == [request[r] EXCEPT !.phase = "answered", !.code = code]
  <2>1. /\ c \in Asked /\ c.phase = "answered" /\ c.code = code
        /\ c.body = request[r].body /\ c.db = request[r].db /\ c.redis = request[r].redis
    BY <1>0 DEF Asked, Phases
  <2>2. request' = [request EXCEPT ![r] = c] /\ request'[r] = c
    BY <1>0, <1>1, RequestTypes DEF Answer
  <2> HIDE DEF c
  <2>3. Fits(r)'
    BY <1>0, <1>1, <2>1, <2>2 DEF Fits
  <2>. QED
    BY <1>0, <2>1, <2>2, <2>3, QuietStep
<1>2. CASE CreateFails(r)
  BY <1>1, <1>2 DEF CreateFails, Codes
<1>3. CASE CreateReplies(r)
  <2>1. r \in Posts => row[r] # NoRow
    BY <1>0, <1>3 DEF Fits, CreateReplies
  <2>. QED
    BY <1>1, <1>3, <2>1 DEF CreateReplies, Codes
<1>4. CASE GetReplies(r)
  <2>1. PICK n \in {404, 200, 500} : Answer(r, n)
    BY <1>4 DEF GetReplies
  <2>. QED
    BY <1>1, <1>4, <2>1 DEF GetReplies, Codes
<1>5. CASE HealthReplies(r)
  <2>1. PICK n \in {200, 503} : Answer(r, n)
    BY <1>5 DEF HealthReplies
  <2>. QED
    BY <1>1, <1>5, <2>1 DEF HealthReplies, Codes
<1>6. ASSUME NEW c \in Asked, request' = [request EXCEPT ![r] = c], request[r].phase = "pinging",
             c.phase = "pinging", c.code = request[r].code, c.body = request[r].body
      PROVE  RInv'
  <2>1. request'[r] = c
    BY <1>0, <1>6, RequestTypes
  <2>2. Fits(r)'
    BY <1>0, <1>6, <2>1 DEF Fits
  <2>. QED
    BY <1>0, <1>6, <2>2, QuietStep
<1>7. CASE PingDatabase(r)
  <2> DEFINE v == IF db THEN "ok" ELSE "failed"
  <2>1. v \in Pings
    BY DEF Pings
  <2>2. request' = [request EXCEPT ![r] = [request[r] EXCEPT !.db = v]] /\ request[r].phase = "pinging"
    BY <1>0, <1>7, RequestTypes DEF PingDatabase
  <2> HIDE DEF v
  <2>3. [request[r] EXCEPT !.db = v] \in Asked
    BY <1>0, <2>1 DEF Asked
  <2>. QED
    BY <1>0, <1>6, <2>2, <2>3 DEF Asked
<1>8. CASE PingRedis(r)
  <2>1. PICK v \in {"ok", "failed"} :
           request' = [request EXCEPT ![r] = [request[r] EXCEPT !.redis = v]]
    BY <1>0, <1>8, RequestTypes DEF PingRedis
  <2>2. request[r].phase = "pinging" /\ [request[r] EXCEPT !.redis = v] \in Asked
    BY <1>0, <1>8 DEF PingRedis, Asked, Pings
  <2>. QED
    BY <1>0, <1>6, <2>1, <2>2 DEF Asked
<1>. QED
  BY <1>2, <1>3, <1>4, <1>5, <1>7, <1>8

-----------------------------------------------------------------------------
\* The step that records a job.
LEMMA CommitStep ==
    ASSUME RInv, NEW r \in Posts, CreateCommits(r)
    PROVE  RInv'
<1> DEFINE c == [request[r] EXCEPT !.phase = "committed"]
           b == request[r].body
           w == RowOf(b, now)
<1>0. /\ TypeOK /\ request[r] \in Asked /\ r \in Requests /\ Fits(r)
      /\ request[r].phase = "transaction" /\ ValidBody(b) /\ row[r] = NoRow
      /\ now \in Nat
  <2>0. r \in Requests /\ PhasesFit /\ TypeOK
    BY DEF RInv, Requests
  <2>a. Fits(r)
    BY <2>0, FitsAll
  <2>1. TypeOK /\ r \in Requests /\ request[r].phase = "transaction" /\ Fits(r)
    BY <2>0, <2>a DEF CreateCommits
  <2>2. request[r] \in Asked
    BY <2>1, RequestTypes
  <2>3. now \in Nat
    BY <2>1, RequestsAssumption DEF TypeOK
  <2>. QED
    BY <2>1, <2>2, <2>3 DEF Fits
<1>1. /\ c \in Asked /\ c.phase = "committed" /\ c.code = 0 /\ c.body = b
      /\ c.db = request[r].db /\ c.redis = request[r].redis
  BY <1>0 DEF Asked, Phases, Fits
<1>2. /\ request' = [request EXCEPT ![r] = c] /\ request'[r] = c
      /\ row' = [row EXCEPT ![r] = w] /\ row'[r] = w
      /\ recorded' = recorded \cup {r} /\ UNCHANGED <<delivered, acked, now, queue, taken>>
      /\ ahead' = ahead /\ dependencies' = dependencies
  BY <1>0, RequestTypes DEF CreateCommits, TypeOK, Delivery!Record
<1>3. w \in Rows /\ w.created = now /\ w # NoRow
  <2>1. b \in Bodies \cup {Blank}
    BY <1>0 DEF Asked
  <2>2. w.created # NoRow.created
    BY <1>0 DEF RowOf, NoRow, None
  <2>. QED
    BY <1>0, <2>1, <2>2, ValidBodies DEF RowOf, Rows, NoRow, None
<1> HIDE DEF c, w
<1>4. TypeOK'
  BY <1>0, <1>1, <1>2, <1>3, RequestTypes DEF TypeOK, dependencies, Asked, Rows
<1>5. \A x \in Requests : x # r => request'[x] = request[x]
  BY <1>0, <1>2, RequestTypes
<1>6. \A x \in Posts : x # r => row'[x] = row[x]
  BY <1>0, <1>2 DEF TypeOK
<1>7. r \notin Gets
  BY RequestsAssumption
<1>8. \A x \in Requests : Fits(x)'
  <2>1. Fits(r)'
    BY <1>0, <1>1, <1>2, <1>3, <1>7 DEF Fits
  <2>2. ASSUME NEW x \in Requests, x # r PROVE Fits(x)'
    <3>1. request'[x] = request[x] /\ (x \in Posts => row'[x] = row[x]) /\ Fits(x)
      BY <1>5, <1>6, <2>2, FitsAll DEF RInv
    <3>. QED
      BY <3>1 DEF Fits
  <2>. QED
    BY <2>1, <2>2
<1>9. RowsAsAsked'
  <2>1. ASSUME NEW x \in Posts
        PROVE  /\ x \in recorded' <=> row'[x] # NoRow
               /\ row'[x] # NoRow => ValidBody(request'[x].body)
                                     /\ row'[x] = RowOf(request'[x].body, row'[x].created)
               /\ row'[x].created <= now'
    <3>1. CASE x = r
      <4>1. row'[x] = RowOf(request'[x].body, row'[x].created)
        BY <1>1, <1>2, <1>3, <3>1 DEF w
      <4>. QED
        BY <1>0, <1>1, <1>2, <1>3, <3>1, <4>1
    <3>2. CASE x # r
      <4>1. request'[x] = request[x] /\ row'[x] = row[x] /\ x \in Requests
        BY <1>5, <1>6, <3>2 DEF Requests
      <4>. QED
        BY <1>2, <3>2, <4>1 DEF RInv, RowsAsAsked
    <3>. QED
      BY <3>1, <3>2
  <2>. QED
    BY <2>1 DEF RowsAsAsked
<1>10. QueueAsRecorded'
  <2>1. queue[r] = NoJob
    BY <1>0 DEF RInv, QueueAsRecorded
  <2>2. \A x \in Posts : queue[x] # NoJob => request'[x] = request[x] /\ row'[x] = row[x]
    BY <1>5, <1>6, <2>1 DEF Requests
  <2>. QED
    BY <1>2, <2>2 DEF RInv, QueueAsRecorded
<1>11. PhasesFit'
  BY <1>8 DEF PhasesFit, Fits, Requests
<1>. QED
  BY <1>4, <1>9, <1>10, <1>11 DEF RInv

\* The step that enqueues a job: its clock is at most MaxSkew ahead, and the
\* job was created before.
LEMMA EnqueueStep ==
    ASSUME RInv, NEW r \in Posts, EnqueueJob(r)
    PROVE  RInv'
<1> DEFINE b == request[r].body
           clock == now + ahead["outbox"]
           o == Options(r, clock)
<1>0. /\ TypeOK /\ now \in Nat /\ ahead["outbox"] \in 0 .. MaxSkew /\ MaxSkew \in Nat
      /\ b \in Bodies \cup {Blank} /\ row[r] # NoRow /\ ValidBody(b) /\ row[r].created <= now
      /\ row[r] = RowOf(b, row[r].created) /\ r \in recorded /\ row[r] \in Rows
  <2>1. /\ TypeOK /\ now \in Nat /\ ahead["outbox"] \in 0 .. MaxSkew /\ MaxSkew \in Nat
        /\ row[r] \in Rows
    BY RequestsAssumption DEF RInv, TypeOK, Rows
  <2>2. request[r] \in Asked
    BY <2>1, RequestTypes DEF Requests
  <2>3. r \in recorded
    BY DEF EnqueueJob, Delivery!Deliver
  <2>4. RowsAsAsked
    BY DEF RInv
  <2>. QED
    BY <2>1, <2>2, <2>3, <2>4 DEF RowsAsAsked, Asked
<1>1. /\ UNCHANGED <<now, ahead, dependencies, request, row, taken, recorded, acked>>
      /\ delivered' = delivered \cup {r}
      /\ queue' = IF queue[r] = NoJob THEN [queue EXCEPT ![r] = o] ELSE queue
  BY DEF EnqueueJob, Delivery!Deliver
<1>2. /\ OrElse(b.delayMs, 0) \in Nat /\ b.runAt \in {Absent} \cup Nat
      /\ OrElse(b.maxRetries, ConfigRetries) \in 0 .. 20
      /\ row[r].delayMs = OrElse(b.delayMs, 0) /\ row[r].runAt = b.runAt
      /\ row[r].created \in Int
  <2>1. row[r].delayMs = OrElse(b.delayMs, 0) /\ row[r].runAt = b.runAt
    BY <1>0 DEF RowOf
  <2>. QED
    BY <1>0, <2>1, ValidBodies DEF Rows, None
<1>3. /\ o.due \in Nat /\ o.due >= clock + OrElse(b.delayMs, 0) /\ o.due >= b.runAt
      /\ o.attempts = OrElse(b.maxRetries, ConfigRetries) + 1
  <2>1. /\ o.due = clock + MaxOf(OrElse(b.delayMs, 0), RunAtDelay(r, clock))
        /\ o.attempts = OrElse(b.maxRetries, ConfigRetries) + 1
    BY DEF Options
  <2>2. RunAtDelay(r, clock) = IF b.runAt > clock THEN b.runAt - clock ELSE 0
    BY DEF RunAtDelay
  <2>3. clock \in Nat
    BY <1>0
  <2> HIDE DEF o, clock, b
  <2>. QED
    BY <1>2, <2>1, <2>2, <2>3 DEF MaxOf, Absent
<1>4. o \in Queued
  BY <1>2, <1>3 DEF Queued, Options
<1> HIDE DEF o
<1>5. TypeOK'
  <2>1. queue \in [Posts -> Queued]
    BY <1>0 DEF TypeOK, Queued
  <2>2. queue' \in [Posts -> Queued]
    BY <1>1, <1>4, <2>1
  <2>. QED
    BY <1>0, <1>1, <2>2 DEF TypeOK, dependencies, Queued
<1>6. RowsAsAsked' /\ PhasesFit'
  BY <1>1 DEF RInv, RowsAsAsked, PhasesFit
<1>7. QueueAsRecorded'
  <2>1. \A x \in Posts : queue'[x] = IF x = r /\ queue[r] = NoJob THEN o ELSE queue[x]
    BY <1>0, <1>1 DEF TypeOK
  <2>2. row[r].created + row[r].delayMs <= o.due /\ row[r].runAt <= o.due
    BY <1>0, <1>2, <1>3 DEF Absent
  <2>3. r \in taken => queue[r] # NoJob
    BY DEF RInv, QueueAsRecorded
  <2>4. ASSUME NEW x \in Posts
        PROVE  /\ x \in delivered' => x \in recorded'
               /\ x \in taken' => queue'[x] # NoJob
               /\ queue'[x] # NoJob =>
                     /\ row'[x] # NoRow
                     /\ row'[x].created + row'[x].delayMs <= queue'[x].due
                     /\ row'[x].runAt <= queue'[x].due
                     /\ queue'[x].attempts = OrElse(request'[x].body.maxRetries, ConfigRetries) + 1
    <3>1. CASE x = r /\ queue[r] = NoJob
      BY <1>0, <1>1, <1>3, <2>1, <2>2, <2>3, <3>1
    <3>2. CASE ~(x = r /\ queue[r] = NoJob)
      <4>1. queue'[x] = queue[x]
        BY <2>1, <3>2
      <4>. QED
        BY <1>0, <1>1, <4>1 DEF RInv, QueueAsRecorded
    <3>. QED
      BY <3>1, <3>2
  <2>. QED
    BY <2>4 DEF QueueAsRecorded
<1>. QED
  BY <1>5, <1>6, <1>7 DEF RInv

\* The other steps: time, faults, and workers that take jobs.
LEMMA EnvironmentStep ==
    ASSUME RInv, Tick \/ DatabaseFails \/ DatabaseRecovers \/ RedisFailsOrRecovers
                 \/ \E r \in Posts : TakeJob(r)
    PROVE  RInv'
<1>0. TypeOK /\ now \in Nat /\ request \in [Requests -> Asked]
  BY RequestsAssumption DEF RInv, TypeOK, Asked
<1>1. CASE Tick
  <2>1. now' = now + 1 /\ now' \in 0 .. MaxTime
    BY <1>0, <1>1, RequestsAssumption DEF Tick
  <2>2. UNCHANGED <<ahead, dependencies, request, row, outbox, queue, taken>>
    BY <1>1 DEF Tick
  <2>3. TypeOK'
    BY <1>0, <2>1, <2>2 DEF TypeOK, dependencies, outbox
  <2>4. \A r \in Posts : row[r].created \in Int /\ row[r].created <= now
    BY <1>0 DEF RInv, RowsAsAsked, TypeOK, None
  <2>5. RowsAsAsked'
    BY <1>0, <2>1, <2>2, <2>4 DEF RInv, RowsAsAsked, outbox
  <2>. QED
    BY <2>2, <2>3, <2>5 DEF RInv, PhasesFit, QueueAsRecorded, outbox
<1>2. CASE DatabaseRecovers \/ RedisFailsOrRecovers \/ (DatabaseFails /\ request' = request)
  <2>1. /\ UNCHANGED <<now, ahead, request, row, outbox, queue, taken>>
        /\ db' \in BOOLEAN /\ redis' \in BOOLEAN
    BY <1>0, <1>2 DEF DatabaseRecovers, RedisFailsOrRecovers, DatabaseFails, TypeOK
  <2>2. TypeOK'
    BY <1>0, <2>1 DEF TypeOK, outbox
  <2>. QED
    BY <2>1, <2>2 DEF RInv, RowsAsAsked, PhasesFit, QueueAsRecorded, outbox
<1>3. CASE DatabaseFails /\ request' = Reset
  <2>1. \A r \in Requests : Reset[r] = IF request[r].phase = "none" THEN request[r]
                                        ELSE [request[r] EXCEPT !.phase = "answered"]
    BY DEF Reset
  <2>2. ASSUME NEW r \in Requests
        PROVE  /\ request'[r] \in Asked /\ request'[r].body = request[r].body
               /\ request'[r].code = request[r].code
               /\ request'[r].db = request[r].db /\ request'[r].redis = request[r].redis
               /\ request'[r].phase = request[r].phase \/ request'[r].phase = "answered"
               /\ request'[r].target = request[r].target
    <3>1. request[r] \in Asked
      BY <1>0
    <3>2. [request[r] EXCEPT !.phase = "answered"] \in Asked
      BY <3>1 DEF Asked, Phases
    <3>. QED
      BY <1>3, <2>1, <3>1, <3>2 DEF Asked
  <2>3. request' \in [Requests -> Asked]
    BY <1>3, <2>2 DEF Reset
  <2>4. UNCHANGED <<now, ahead, redis, row, outbox, queue, taken>> /\ db' = FALSE
    BY <1>3 DEF DatabaseFails
  <2>5. TypeOK'
    BY <1>0, <2>3, <2>4 DEF TypeOK, outbox, Asked
  <2>6. RowsAsAsked' /\ QueueAsRecorded'
    BY <2>2, <2>4 DEF RInv, RowsAsAsked, QueueAsRecorded, outbox, Requests
  <2>7. PhasesFit'
    <3>1. \A r \in Requests : Fits(r)
      BY FitsAll DEF RInv
    <3>2. ASSUME NEW r \in Requests PROVE Fits(r)'
      BY <2>2, <2>4, <3>1 DEF Fits
    <3>. QED
      BY <3>2 DEF PhasesFit, Fits, Requests
  <2>. QED
    BY <2>5, <2>6, <2>7 DEF RInv
<1>4. CASE \E r \in Posts : TakeJob(r)
  BY <1>0, <1>4 DEF TakeJob, RInv, TypeOK, dependencies, RowsAsAsked, PhasesFit, QueueAsRecorded, outbox
<1>. QED
  BY <1>1, <1>2, <1>3, <1>4 DEF DatabaseFails

LEMMA RInvNext == RInv /\ [Next]_vars => RInv'
<1>1. ASSUME RInv, UNCHANGED vars PROVE RInv'
  BY <1>1 DEF RInv, vars, TypeOK, dependencies, RowsAsAsked, PhasesFit, QueueAsRecorded, outbox
<1>2. ASSUME RInv, NEW r \in Requests, Serve(r) PROVE RInv'
  <2>1. CASE CreateCommits(r)
    <3>1. r \in Posts
      BY <1>2, <2>1, FitsAll DEF RInv, Fits, CreateCommits, Requests
    <3>. QED
      BY <1>2, <2>1, <3>1, CommitStep
  <2>. QED
    BY <1>2, <2>1, ReplyStep DEF Serve
<1>3. ASSUME RInv, NEW r \in Posts, Post(r) PROVE RInv'
  BY <1>3, ArriveStep DEF Requests
<1>4. ASSUME RInv, NEW r \in Gets, List(r) \/ Get(r) \/ Detailed(r) PROVE RInv'
  BY <1>4, ArriveStep DEF Requests
<1>. QED
  BY <1>1, <1>2, <1>3, <1>4, EnqueueStep, EnvironmentStep DEF Next

-----------------------------------------------------------------------------
(* Theorems.                                                               *)

\* The invariant below holds throughout: the rows, the requests, the outbox
\* and the queue always agree (api/app.ts and what it calls).
THEOREM Inductive == Spec => []RInv
BY RInvInit, RInvNext, PTL DEF Spec

\* Every variable keeps its type, whatever was asked: no stored job has a
\* negative delay or more than 20 retries (api/schemas/job.schema.ts:30).
THEOREM TypeCorrect == Spec => []TypeOK
<1>1. RInv => TypeOK
  BY DEF RInv
<1>. QED
  BY <1>1, Inductive, PTL

\* 201 means a row and its outbox event, 400 neither
\* (services/job.service.ts:55).
THEOREM AnswersTrue == Spec => []AnswersAreTrue
<1>1. RInv => AnswersAreTrue
  BY DEF RInv, RowsAsAsked, PhasesFit, AnswersAreTrue
<1>. QED
  BY <1>1, Inductive, PTL

\* A job is tried as often as its row announces, unless the client gave no
\* number and the two defaults differ (core/queue/queue.producer.ts:44).
THEOREM AttemptsAnnounced == Spec => []AttemptsAsAnnounced
<1>1. ASSUME RInv PROVE AttemptsAsAnnounced
  <2>1. ASSUME NEW r \in Posts, queue[r] # NoJob PROVE
          /\ queue[r].attempts = OrElse(request[r].body.maxRetries, ConfigRetries) + 1
          /\ row[r].maxRetries = OrElse(request[r].body.maxRetries, 3)
    <3>1. row[r] = RowOf(request[r].body, row[r].created)
      BY <1>1, <2>1 DEF RInv, QueueAsRecorded, RowsAsAsked
    <3>2. row[r].maxRetries = OrElse(request[r].body.maxRetries, 3)
      BY <3>1 DEF RowOf
    <3>. QED
      BY <1>1, <2>1, <3>2 DEF RInv, QueueAsRecorded
  <2>. QED
    BY <2>1 DEF AttemptsAsAnnounced, OrElse
<1>. QED
  BY <1>1, Inductive, PTL

\* No job is taken earlier than asked by more than the clocks of the three
\* processes differ (core/queue/queue.producer.ts:30).
THEOREM DueTimesAreKept == Spec => NeverEarly
<1>1. ASSUME RInv, [Next]_vars, NEW r \in taken' \ taken
      PROVE  now + MaxSkew >= row[r].created + row[r].delayMs /\ now + MaxSkew >= row[r].runAt
  <2>1. r \in Posts /\ TakeJob(r)
    <3>1. ASSUME taken' = taken PROVE FALSE
      BY <1>1, <3>1
    <3>2. PICK x \in Posts : TakeJob(x)
      BY <1>1, <3>1
         DEF Next, vars, Tick, DatabaseFails, DatabaseRecovers, RedisFailsOrRecovers, Post, List,
             Get, Detailed, Send, EnqueueJob, Serve, CreateCommits, CreateFails, CreateReplies,
             GetReplies, PingDatabase, PingRedis, HealthReplies
    <3>. QED
      BY <1>1, <3>2 DEF TakeJob
  <2>2. /\ queue[r] # NoJob /\ now + ahead["worker"] >= queue[r].due
    BY <2>1 DEF TakeJob
  <2>3. /\ row[r].created + row[r].delayMs <= queue[r].due /\ row[r].runAt <= queue[r].due
    BY <1>1, <2>1, <2>2 DEF RInv, QueueAsRecorded
  <2>4. /\ now \in Nat /\ ahead["worker"] \in 0 .. MaxSkew /\ MaxSkew \in Nat
        /\ row[r].created \in Int /\ row[r].delayMs \in Int /\ row[r].runAt \in Int
        /\ queue[r].due \in Int
    BY <1>1, <2>1, RequestsAssumption DEF RInv, TypeOK, None, Absent
  <2>. QED
    BY <2>2, <2>3, <2>4
<1>2. RInv /\ [Next]_vars =>
        [\A r \in taken' \ taken :
            /\ now + MaxSkew >= row[r].created + row[r].delayMs
            /\ now + MaxSkew >= row[r].runAt]_vars
  BY <1>1
<1>. QED
  BY <1>2, Inductive, PTL DEF Spec, NeverEarly

\* A job announced with 201 is never answered with 404 afterwards
\* (services/job.service.ts:102).
THEOREM AnnouncedFound == Spec => AnnouncedIsFound
<1>1. ASSUME RInv, Next, NEW r \in Gets, request[r].phase = "reading", request'[r].code = 404
      PROVE  request[request[r].target].code # 201
  <2>0. /\ TypeOK /\ PhasesFit /\ r \in Requests /\ request \in [Requests -> Asked]
    BY <1>1, RequestTypes DEF RInv, Requests
  <2>1. request[r].target \in Posts /\ request[r].code = 0 /\ request'[r] # request[r]
    BY <1>1, <2>0 DEF PhasesFit
  <2>2. request'[r] # [request[r] EXCEPT !.phase = "answered"]
    BY <1>1, <2>0, <2>1 DEF Asked
  <2>3. ~(Tick \/ DatabaseFails \/ DatabaseRecovers \/ RedisFailsOrRecovers)
    BY <2>0, <2>1, <2>2 DEF Tick, DatabaseFails, DatabaseRecovers, RedisFailsOrRecovers, Reset
  <2>4. ~\E x \in Posts : Post(x) \/ EnqueueJob(x) \/ TakeJob(x)
    BY <1>1, <2>0, <2>1 DEF Post, Send, EnqueueJob, TakeJob
  <2>5. ~\E x \in Gets : List(x) \/ Get(x) \/ Detailed(x)
    BY <1>1, <2>0, <2>1 DEF List, Get, Detailed, Send
  <2>6. PICK x \in Requests : Serve(x)
    BY <1>1, <2>3, <2>4, <2>5 DEF Next
  <2>7. x = r
    BY <2>0, <2>1, <2>6
       DEF Serve, CreateCommits, CreateFails, CreateReplies, GetReplies, PingDatabase, PingRedis,
           HealthReplies, Answer
  <2>8. GetReplies(r)
    BY <1>1, <2>6, <2>7
       DEF Serve, CreateCommits, CreateFails, CreateReplies, PingDatabase, PingRedis, HealthReplies
  <2>9. ASSUME NEW n \in Codes, Answer(r, n) PROVE request'[r].code = n
    BY <2>0, <2>9 DEF Answer, Asked
  <2>10. row[request[r].target] = NoRow
    BY <1>1, <2>8, <2>9 DEF GetReplies, Codes
  <2>. QED
    BY <2>0, <2>1, <2>10 DEF PhasesFit
<1>2. RInv /\ [Next]_vars =>
        [\A r \in Gets : request[r].phase = "reading" /\ request'[r].code = 404
                             => request[request[r].target].code # 201]_vars
  BY <1>1 DEF vars
<1>. QED
  BY <1>2, Inductive, PTL DEF Spec, AnnouncedIsFound
=============================================================================
