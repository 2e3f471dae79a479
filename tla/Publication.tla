----------------------------- MODULE Publication -----------------------------
(***************************************************************************)
(* The ingestion: one dispatched run at a time collects a safe block,       *)
(* assesses it and publishes it with three inserts that are not one         *)
(* transaction (risk_oracle/ingest.py, persistence.py), into tables read at *)
(* every moment by get_latest_risk_assessment.  A request to the database   *)
(* may be executed late, after its caller gave up, or never; its answer may *)
(* be lost or replaced by a gateway's.                                      *)
(***************************************************************************)
EXTENDS AssessmentDelivery, FiniteSets

CONSTANTS
  ClockErrors,    \* how far a runner's clock may be off
  GatewayFaults,  \* TRUE: a gateway may answer 500 or 502 for the database
  MaxAttempts,    \* attempts for one insert (3)
  JobLimit,       \* the step timeout of the workflow
  MaxRuns,        \* bound on dispatched runs (model checking only)
  MaxTime         \* bound on the clock (model checking only)

ASSUME PublicationAssumption ==
  /\ ClockErrors \subseteq Int /\ GatewayFaults \in BOOLEAN
  /\ MaxAttempts \in Nat \ {0} /\ JobLimit \in Nat \ {0}
  /\ MaxRuns \in Nat /\ MaxTime \in Nat

VARIABLES
  now,          \* true time, also the database's
  safe,         \* the latest safe block a run pinned, named by its timestamp
  runs,         \* how many runs were dispatched; the last is the current one
  stage,        \* of the current run: "idle", "collecting", "posting", "backoff"
  started,      \* when it was dispatched
  row,          \* the assessment it computed
  table,        \* 1 assessments, 2 reserve_snapshots, 3 evidence_records
  attempt,      \* of the insert into that table
  ambiguous,    \* an earlier attempt may have committed
  reply,        \* what came back for the current attempt
  inflight,     \* inserts sent and not executed: for a while, or for ever
  assessments,  \* the three tables: rows, and the ids snapshots and evidence
  snapshots,    \*   batches belong to
  evidence,
  reports       \* what finished runs printed

clocks == <<now, safe>>
writer == <<row, table, attempt, ambiguous>>
job == <<runs, stage, started>>
tables == <<assessments, snapshots, evidence>>
vars == <<clocks, job, writer, reply, inflight, tables, reports>>

Tables == 1..3
NoRow == [id |-> NoId, block |-> 0, assessment |-> Assess(NoId, 0, 0, NoScore, FALSE)]

Init ==
  /\ now = 0 /\ safe = 0
  /\ runs = 0 /\ stage = "idle" /\ started = 0
  /\ row = NoRow /\ table = 1 /\ attempt = 1 /\ ambiguous = FALSE
  /\ reply = "none" /\ inflight = {}
  /\ assessments = {} /\ snapshots = {} /\ evidence = {}
  /\ reports = {}

------------------------------------------------------------------------------
(* The run. *)

\* The process is gone, and with it everything it had computed.
Ends ==
  /\ stage' = "idle" /\ started' = 0
  /\ row' = NoRow /\ table' = 1 /\ attempt' = 1 /\ ambiguous' = FALSE /\ reply' = "none"

\* A run ends with what main() prints: "ok", or the failing table, the tables
\* known to be complete, and whether the failing insert may have committed.
Report(status, failing, unknown) ==
  /\ Ends
  /\ reports' = reports \cup
       {[run |-> runs, status |-> status, table |-> failing, unknown |-> unknown]}

\* workflow_dispatch; the concurrency group admits one run at a time.  The run pins
\* the chain's safe block, some block not older than the last one pinned.
Dispatch ==
  /\ stage = "idle" /\ runs < MaxRuns /\ now + JobLimit <= MaxTime
  /\ runs' = runs + 1 /\ stage' = "collecting" /\ started' = now
  /\ safe' \in safe..now
  /\ UNCHANGED <<now, writer, reply, inflight, tables, reports>>

\* Collection or scoring raises: nothing was written.
CollectFails ==
  /\ stage = "collecting"
  /\ Report("failed", 0, FALSE)
  /\ UNCHANGED <<clocks, runs, inflight, tables>>

Post(r, t, n) == inflight' = inflight \cup {[row |-> r, table |-> t, attempt |-> n]}

\* The snapshot is complete; it is assessed on the runner's clock and the first
\* insert goes out.  A computation dated before its block raises instead.  Reading
\* the chain takes time: no two runs compute at one instant.
Collect(error, complete) ==
  LET new == [id |-> runs, block |-> safe,
              assessment |-> Assess(runs, safe, now + error, 50, complete)] IN
  /\ stage = "collecting" /\ now > started /\ now + error >= safe
  /\ stage' = "posting" /\ row' = new
  /\ table' = 1 /\ attempt' = 1 /\ ambiguous' = FALSE /\ reply' = "none"
  /\ Post(new, 1, 1)
  /\ UNCHANGED <<clocks, runs, started, tables, reports>>

\* 201 or 204: on to the next table, or done.
Created ==
  /\ stage = "posting" /\ reply = "created"
  /\ IF table = 3
     THEN Report("ok", 0, FALSE) /\ UNCHANGED inflight
     ELSE /\ table' = table + 1 /\ attempt' = 1 /\ ambiguous' = FALSE /\ reply' = "none"
          /\ Post(row, table + 1, 1)
          /\ UNCHANGED <<stage, started, row, reports>>
  /\ UNCHANGED <<clocks, runs, tables>>

\* A transport error (the 15 s timeout included), and 408, 503 or 504 without a
\* database error code, may be retried: only the first table, only MaxAttempts times.
Retryable == reply \in {"none", "transient"}
Ambiguous == reply \in {"none", "transient", "transient_coded"}
\* Faulty variant: retries are not counted.
RetryForEver == table = 1 /\ Retryable

MayRetry == table = 1 /\ Retryable /\ attempt < MaxAttempts

\* Faulty variant: only the last answer decides whether the outcome is unknown.
ForgetfulFailure ==
  /\ stage = "posting" /\ reply # "created"
  /\ IF MayRetry
     THEN /\ stage' = "backoff" /\ ambiguous' = TRUE
          /\ UNCHANGED <<started, row, table, attempt, reply, reports>>
     ELSE Report("failed", table, Ambiguous)
  /\ UNCHANGED <<clocks, runs, inflight, tables>>

InsertFails ==
  /\ stage = "posting" /\ reply # "created"
  /\ IF MayRetry
     THEN /\ stage' = "backoff" /\ ambiguous' = TRUE
          /\ UNCHANGED <<started, row, table, attempt, reply, reports>>
     ELSE Report("failed", table, ambiguous \/ Ambiguous)
  /\ UNCHANGED <<clocks, runs, inflight, tables>>

\* Faulty variant: the attempt counter stands still.
RetryUncounted ==
  /\ stage = "backoff"
  /\ stage' = "posting" /\ reply' = "none"
  /\ Post(row, table, attempt)
  /\ UNCHANGED <<clocks, runs, started, row, table, attempt, ambiguous, tables, reports>>

\* The identical payload again.
Retry ==
  /\ stage = "backoff"
  /\ stage' = "posting" /\ attempt' = attempt + 1 /\ reply' = "none"
  /\ Post(row, table, attempt + 1)
  /\ UNCHANGED <<clocks, runs, started, row, table, ambiguous, tables, reports>>

\* The runner is lost or its step times out: no report, what was sent stays sent.
Killed ==
  /\ stage # "idle" /\ Ends
  /\ UNCHANGED <<clocks, runs, inflight, tables, reports>>

------------------------------------------------------------------------------
(* PostgREST, PostgreSQL and whatever stands before them. *)

Ids == {r.id : r \in assessments}

\* Primary keys, unique keys and foreign keys of the three tables.
Insertable(m) ==
  \/ m.table = 1 /\ \A r \in assessments : r.id # m.row.id /\ r.block # m.row.block
  \/ m.table = 2 /\ m.row.id \in Ids /\ m.row.id \notin snapshots
  \/ m.table = 3 /\ m.row.id \in Ids /\ m.row.id \notin evidence

Current(m) ==
  stage = "posting" /\ reply = "none"
  /\ m.row = row /\ m.table = table /\ m.attempt = attempt

\* One insert statement, one transaction; its answer reaches the run or does not.
Execute(m, answered) ==
  /\ m \in inflight /\ inflight' = inflight \ {m}
  /\ answered => Current(m)
  /\ IF Insertable(m)
     THEN /\ assessments' = IF m.table = 1
                            THEN assessments \cup
                                   {[id |-> m.row.id, block |-> m.row.block,
                                     created |-> Cardinality(assessments) + 1,
                                     assessment |-> m.row.assessment]}
                            ELSE assessments
          /\ snapshots' = IF m.table = 2 THEN snapshots \cup {m.row.id} ELSE snapshots
          /\ evidence' = IF m.table = 3 THEN evidence \cup {m.row.id} ELSE evidence
     ELSE UNCHANGED tables
  /\ reply' = IF ~answered THEN reply ELSE IF Insertable(m) THEN "created" ELSE "conflict"
  /\ UNCHANGED <<clocks, job, writer, reports>>

\* The request is refused before anything is executed (400, 401, 403, 404, 429).
Refuse(m) ==
  /\ m \in inflight /\ Current(m)
  /\ inflight' = inflight \ {m} /\ reply' = "refused"
  /\ UNCHANGED <<clocks, job, writer, tables, reports>>

\* A gateway answers while the database's part is open, done or lost.
GatewayAnswers(what) ==
  /\ stage = "posting" /\ reply = "none"
  /\ reply' = what
  /\ UNCHANGED <<clocks, job, writer, inflight, tables, reports>>

GatewayReplies ==
  {"transient", "transient_coded"} \cup (IF GatewayFaults THEN {"gateway"} ELSE {})

\* Time passes, but no run outlives the step timeout.
Tick ==
  /\ now < MaxTime
  /\ stage # "idle" => now < started + JobLimit
  /\ now' = now + 1
  /\ UNCHANGED <<safe, job, writer, reply, inflight, tables, reports>>

Quiescent == now = MaxTime /\ stage = "idle" /\ UNCHANGED vars

------------------------------------------------------------------------------
RunStep ==
  \/ CollectFails
  \/ \E error \in ClockErrors, complete \in BOOLEAN : Collect(error, complete)
  \/ Created \/ InsertFails \/ Retry

Run ==
  \/ Dispatch \/ Killed \/ RunStep

Database ==
  \/ \E m \in inflight, answered \in BOOLEAN : Execute(m, answered)
  \/ \E m \in inflight : Refuse(m)
  \/ \E what \in GatewayReplies : GatewayAnswers(what)

Next == Run \/ Database \/ Tick \/ Quiescent

\* The process goes on by itself: every HTTP call has a 15 s timeout, every backoff
\* ends.  Of the database, the gateway and the clock nothing is assumed.
Fairness == WF_vars(RunStep)

Spec == Init /\ [][Next]_vars /\ Fairness

------------------------------------------------------------------------------
(* What the reader is served at this moment. *)

\* Faulty variant: ORDER BY created_at DESC.
CreatedLater(r, s) == r.created > s.created

NewerThan(r, s) ==
  \/ r.assessment.computed_at > s.assessment.computed_at
  \/ /\ r.assessment.computed_at = s.assessment.computed_at
     /\ r.created > s.created

\* ORDER BY calculated_at DESC, created_at DESC LIMIT 1, before any completeness check.
Newest ==
  CHOOSE r \in assessments : \A s \in assessments \ {r} : NewerThan(r, s)

Served ==
  IF assessments = {} THEN Unavailable("NO_ASSESSMENT")
  ELSE DatabaseResult([assessment |-> Newest.assessment,
                       snapshot |-> Newest.id \in snapshots,
                       evidence |-> Newest.id \in evidence], now)

\* The tables seen by a reader who only knows the newest assessment.
Shown ==
  IF assessments = {} THEN [at |-> -1, run |-> 0]
  ELSE [at |-> Newest.assessment.computed_at, run |-> Newest.id]

Standing ==
  IF assessments = {} THEN "empty"
  ELSE IF Usable(Served) THEN "offered"
  ELSE IF Newest.assessment.score # NoScore /\ now < Newest.assessment.freshness.expires_at
  THEN "announced" ELSE "withdrawn"

Board == INSTANCE PublicBoard WITH newest <- Shown, stage <- Standing

------------------------------------------------------------------------------
(* What is required of it. *)

Runs == 1..MaxRuns

\* Every variable keeps its shape.
TypeOK ==
  /\ now \in 0..MaxTime /\ safe \in 0..now /\ started \in 0..now
  /\ runs \in 0..MaxRuns
  /\ stage \in {"idle", "collecting", "posting", "backoff"}
  /\ row.id \in 0..runs /\ table \in Tables /\ attempt \in 1..MaxAttempts
  /\ ambiguous \in BOOLEAN
  /\ reply \in {"none", "created", "conflict", "refused", "transient",
                "transient_coded", "gateway"}
  /\ \A m \in inflight : m.row.id \in Runs /\ m.table \in Tables /\ m.attempt \in 1..MaxAttempts
  /\ Ids \subseteq Runs /\ snapshots \subseteq Runs /\ evidence \subseteq Runs
  /\ \A p \in reports : p.run \in Runs /\ p.status \in {"ok", "failed"}
                        /\ p.table \in 0..3 /\ p.unknown \in BOOLEAN

Committed(run, t) ==
  CASE t = 1 -> run \in Ids [] t = 2 -> run \in snapshots [] t = 3 -> run \in evidence

Open(run, t) == \E m \in inflight : m.row.id = run /\ m.table = t

\* Evidence is never there without its snapshot, nor a snapshot without its
\* assessment: no key of the evidence table says so, only the writer's order and its
\* waiting for each insert.
WritesAreOrdered ==
  /\ snapshots \subseteq Ids /\ evidence \subseteq snapshots
  /\ \A run \in Runs, t \in {2, 3} : Open(run, t) => Committed(run, t - 1)

\* Three identical attempts and late executions of timed-out ones leave one row: a
\* run has one, and a block has one (README "constraints protect against duplicate
\* assessment writes").
NoDuplicates ==
  \A r, s \in assessments : r.id = s.id \/ r.block = s.block => r = s

\* The report can be reconciled from: every table before the failing one is complete,
\* no table after it has or will have a row of that run, and unless the outcome is
\* reported unknown neither has the failing one.
ReportIsHonest ==
  \A p \in reports :
    IF p.status = "ok" THEN \A t \in Tables : Committed(p.run, t)
    ELSE \A t \in Tables :
           /\ t < p.table => Committed(p.run, t)
           /\ t > p.table \/ (t = p.table /\ ~p.unknown) =>
                ~Committed(p.run, t) /\ ~Open(p.run, t)

\* "ok" means servable: as long as no later run inserted a row, the reader gets the
\* assessment of the run that reported ok until it expires, if it has a score; late
\* inserts of earlier runs that timed out or were killed do not hide it.  With runner
\* clocks that are right.
OkIsServed ==
  \A p \in reports :
    /\ p.status = "ok" /\ \A r \in assessments : r.id <= p.run
    => LET r == CHOOSE s \in assessments : s.id = p.run IN
       r.assessment.score # NoScore /\ now < r.assessment.freshness.expires_at
       => Usable(Served) /\ Served.assessment_id = p.run

\* Nothing is served from a publication that is not whole or is not the newest: a
\* newer partial, unknown or invalid row hides every older favourable one, and what
\* is served never goes back in time.  Whatever the runners' clocks.
ServedIsWhole ==
  Usable(Served) =>
    /\ Served.assessment_id \in snapshots \cap evidence
    /\ \A r \in assessments : r.assessment.computed_at <= Served.calculated_at

\* Three inserts and a clock, executed late, twice or never, read without a lock, are
\* one board to the reader: an assessment is offered once, for one stretch of time,
\* withdrawn for good, and never replaced by an older one.  Whatever the runners' clocks.
BoardNeverTurnsBack == Board!Spec

\* A dispatched run ends, before any step timeout has to kill it, whatever the
\* database and the gateway do: attempts and waits are bounded.
RunsEnd == stage # "idle" ~> stage = "idle"

\* README "partial failures must be reconciled before affected state is served" and
\* persistence.py "A partial failure needs reconciliation before the assessment can be
\* served": what a failed run left behind is not served.
FailedRunsAreNotServed ==
  \A p \in reports : p.status = "failed" =>
    ~(Usable(Served) /\ Served.assessment_id = p.run)
=============================================================================
