--------------------------- MODULE RiskOracleProofs ---------------------------
(***************************************************************************)
(* For any number of runs, requests, clocks and faults.  Of the publication: *)
(* what the three tables, the requests still open and the reports of         *)
(* finished runs say of each other; that it implements the board, however    *)
(* late or often an insert is executed; and that a run that reported ok is   *)
(* served.  Of the whole, from the chain to the buyer: what the Worker holds *)
(* rests on a row of the tables, and no request is told anything older than  *)
(* what was known when it began.                                             *)
(***************************************************************************)
EXTENDS RiskOracle, AssessmentProofs, FiniteSetTheorems

------------------------------------------------------------------------------
(* The tables and the open requests. *)

LEMMA CommittedTables ==
  ASSUME NEW run
  PROVE  /\ Committed(run, 1) <=> run \in Ids
         /\ Committed(run, 2) <=> run \in snapshots
         /\ Committed(run, 3) <=> run \in evidence
  BY SMT DEF Committed

LEMMA InsertableTables ==
  ASSUME NEW m
  PROVE  /\ m.table = 1 => (Insertable(m) <=>
              \A r \in assessments : r.id # m.row.id /\ r.block # m.row.block)
         /\ m.table = 2 => (Insertable(m) <=> m.row.id \in Ids /\ m.row.id \notin snapshots)
         /\ m.table = 3 => (Insertable(m) <=> m.row.id \in Ids /\ m.row.id \notin evidence)
  BY DEF Insertable

\* Neither there nor on its way.
Untouched(run, t) == ~Committed(run, t) /\ ~Open(run, t)

\* A request that is sent is open, and nothing else is.
LEMMA PostOpens ==
  ASSUME NEW r, NEW t, NEW n, Post(r, t, n), NEW run, NEW u
  PROVE  Open(run, u)' <=> Open(run, u) \/ (run = r.id /\ u = t)
<1> DEFINE new == [row |-> r, table |-> t, attempt |-> n]
<1>1. inflight' = inflight \cup {new} /\ new.row = r /\ new.table = t
  BY DEF Post
<1>2. Open(run, u)' <=> \E m \in inflight' : m.row.id = run /\ m.table = u
  BY DEF Open
<1> HIDE DEF new
<1> QED
  BY <1>1, <1>2 DEF Open

LEMMA NothingSent ==
  ASSUME UNCHANGED inflight, NEW run, NEW u
  PROVE  Open(run, u)' <=> Open(run, u)
  BY DEF Open

LEMMA NothingExecuted ==
  ASSUME UNCHANGED tables, NEW run, NEW u
  PROVE  Committed(run, u)' <=> Committed(run, u)
  BY DEF Committed, Ids, tables

\* An execution adds the request's row to its table, if the keys admit it.
LEMMA ExecuteCommits ==
  ASSUME NEW m, NEW answered, Execute(m, answered), m.table \in Tables,
         NEW run, NEW u \in Tables
  PROVE  /\ Committed(run, u)' <=> Committed(run, u)
              \/ (Insertable(m) /\ run = m.row.id /\ u = m.table)
         /\ Open(run, u)' => Open(run, u)
<1>1. inflight' = inflight \ {m}
  BY DEF Execute
<1>2. Open(run, u)' => Open(run, u)
  BY <1>1 DEF Open
<1>3. CASE ~Insertable(m)
  <2>1. UNCHANGED tables
    BY <1>3 DEF Execute
  <2> QED
    BY <1>2, <1>3, <2>1, NothingExecuted
<1>4. CASE Insertable(m)
  <2>1. /\ Committed(run, 1) <=> run \in Ids
        /\ Committed(run, 2) <=> run \in snapshots
        /\ Committed(run, 3) <=> run \in evidence
    BY CommittedTables
  <2>2. /\ Committed(run, 1)' <=> run \in Ids'
        /\ Committed(run, 2)' <=> run \in snapshots'
        /\ Committed(run, 3)' <=> run \in evidence'
    BY SMT DEF Committed
  <2>3. /\ run \in Ids' <=> run \in Ids \/ (m.table = 1 /\ run = m.row.id)
        /\ run \in snapshots' <=> run \in snapshots \/ (m.table = 2 /\ run = m.row.id)
        /\ run \in evidence' <=> run \in evidence \/ (m.table = 3 /\ run = m.row.id)
    <3>1. run \in Ids' <=> run \in Ids \/ (m.table = 1 /\ run = m.row.id)
      <4>1. CASE m.table = 1
        <5> DEFINE new == [id |-> m.row.id, block |-> m.row.block,
                           created |-> Cardinality(assessments) + 1,
                           assessment |-> m.row.assessment]
        <5>1. assessments' = assessments \cup {new} /\ new.id = m.row.id
          BY <1>4, <4>1 DEF Execute
        <5> HIDE DEF new
        <5> QED
          BY <4>1, <5>1 DEF Ids
      <4>2. CASE m.table # 1
        <5>1. assessments' = assessments
          BY <1>4, <4>2 DEF Execute
        <5> QED
          BY <4>2, <5>1 DEF Ids
      <4> QED
        BY <4>1, <4>2
    <3>2. /\ run \in snapshots' <=> run \in snapshots \/ (m.table = 2 /\ run = m.row.id)
          /\ run \in evidence' <=> run \in evidence \/ (m.table = 3 /\ run = m.row.id)
      BY <1>4 DEF Execute
    <3> QED
      BY <3>1, <3>2
  <2> QED
    BY <1>2, <1>4, <2>1, <2>2, <2>3 DEF Tables
<1> QED
  BY <1>3, <1>4

------------------------------------------------------------------------------
(* Types. *)

\* Where the run is in its three inserts.
Progress ==
  /\ stage # "idle" => runs > 0
  /\ stage \in {"posting", "backoff"} => row.id = runs
  /\ stage = "backoff" => table = 1 /\ attempt < MaxAttempts
  /\ ~GatewayFaults => reply # "gateway"

Typed == TypeOK /\ Progress

LEMMA Bounds ==
  /\ MaxAttempts \in Nat \ {0} /\ MaxRuns \in Nat /\ MaxTime \in Nat /\ JobLimit \in Nat
  /\ 1 \in Tables /\ 1 \in 1..MaxAttempts
  BY PublicationAssumption DEF Tables

LEMMA NoRowId == NoRow.id = 0
  BY DEF NoRow, NoId

LEMMA InitTyped == Init => Typed
<1> SUFFICES ASSUME Init
             PROVE  Typed
  OBVIOUS
<1>1. row.id = 0 /\ Ids = {}
  BY NoRowId DEF Init, Ids
<1>2. /\ now = 0 /\ safe = 0 /\ runs = 0 /\ stage = "idle" /\ started = 0 /\ table = 1
      /\ attempt = 1 /\ ambiguous \in BOOLEAN /\ reply = "none" /\ inflight = {}
      /\ snapshots = {} /\ evidence = {} /\ reports = {}
  BY DEF Init
<1>4. TypeOK
  BY <1>1, <1>2, Bounds DEF TypeOK
<1>3. Progress
  BY DEF Init, Progress
<1> QED
  BY <1>3, <1>4 DEF Typed

\* What a request in flight must be.
LEMMA PostTyped ==
  ASSUME NEW r, NEW t \in Tables, NEW n \in 1..MaxAttempts, r.id \in Runs, Post(r, t, n),
         \A m \in inflight : m.row.id \in Runs /\ m.table \in Tables /\ m.attempt \in 1..MaxAttempts
  PROVE  \A m \in inflight' : m.row.id \in Runs /\ m.table \in Tables /\ m.attempt \in 1..MaxAttempts
  BY DEF Post

LEMMA EndsTyped ==
  Ends => /\ stage' = "idle" /\ started' = 0 /\ row'.id = 0 /\ table' = 1 /\ attempt' = 1
          /\ ambiguous' \in BOOLEAN /\ reply' = "none"
  BY NoRowId DEF Ends

LEMMA ReportTyped ==
  ASSUME Typed, stage # "idle", NEW status \in {"ok", "failed"}, NEW failing \in 0..3,
         NEW unknown \in BOOLEAN, Report(status, failing, unknown),
         UNCHANGED <<clocks, runs, inflight, tables>>
  PROVE  Typed'
<1>1. /\ stage' = "idle" /\ started' = 0 /\ row'.id = 0 /\ table' = 1 /\ attempt' = 1
      /\ ambiguous' \in BOOLEAN /\ reply' = "none"
  BY EndsTyped DEF Report
<1>2. runs \in Runs
  BY Bounds DEF Typed, TypeOK, Progress, Runs
<1>3. \A p \in reports' : p.run \in Runs /\ p.status \in {"ok", "failed"}
                           /\ p.table \in 0..3 /\ p.unknown \in BOOLEAN
  BY <1>2 DEF Report, Typed, TypeOK
<1>4. Progress'
  BY <1>1 DEF Progress
<1>5. TypeOK'
  BY <1>1, <1>3, Bounds DEF Typed, TypeOK, clocks, tables, Ids
<1> QED
  BY <1>4, <1>5 DEF Typed

\* Every variable keeps its shape.
LEMMA StepTyped == Typed /\ [Next]_vars => Typed'
<1> SUFFICES ASSUME Typed, [Next]_vars
             PROVE  Typed'
  OBVIOUS
<1>1. CASE Dispatch
  BY <1>1, Bounds DEF Dispatch, Typed, TypeOK, Progress, writer, tables, Ids
<1>2. CASE Killed
  <2>1. /\ stage' = "idle" /\ started' = 0 /\ row'.id = 0 /\ table' = 1 /\ attempt' = 1
        /\ ambiguous' \in BOOLEAN /\ reply' = "none"
    BY <1>2, EndsTyped DEF Killed
  <2> QED
    BY <1>2, <2>1, Bounds DEF Killed, Typed, TypeOK, Progress, clocks, tables, Ids
<1>3. CASE CollectFails
  <2>1. /\ stage # "idle" /\ Report("failed", 0, FALSE)
        /\ UNCHANGED <<clocks, runs, inflight, tables>>
    BY <1>3 DEF CollectFails
  <2>2. 0 \in 0..3 /\ FALSE \in BOOLEAN /\ "failed" \in {"ok", "failed"}
    OBVIOUS
  <2> QED
    BY <2>1, <2>2, ReportTyped, Zenon
<1>4. ASSUME NEW error \in ClockErrors, NEW complete \in BOOLEAN, Collect(error, complete)
      PROVE  Typed'
  <2> DEFINE new == [id |-> runs, block |-> safe,
                     assessment |-> Assess(runs, safe, now + error, 50, complete)]
  <2>1. /\ stage = "collecting" /\ stage' = "posting" /\ row' = new /\ table' = 1 /\ attempt' = 1
        /\ ambiguous' \in BOOLEAN /\ reply' = "none" /\ Post(new, 1, 1)
        /\ UNCHANGED <<clocks, runs, started, tables, reports>>
    BY <1>4 DEF Collect
  <2>2. new.id = runs
    OBVIOUS
  <2> HIDE DEF new
  <2>3. runs \in Runs
    BY <2>1, Bounds DEF Typed, TypeOK, Progress, Runs
  <2>4. \A m \in inflight' : m.row.id \in Runs /\ m.table \in Tables /\ m.attempt \in 1..MaxAttempts
    BY <2>1, <2>2, <2>3, Bounds, PostTyped DEF Typed, TypeOK, Tables
  <2> QED
    BY <2>1, <2>2, <2>3, <2>4, Bounds DEF Typed, TypeOK, Progress, clocks, tables, Ids
<1>5. CASE Created
  <2>1. CASE table = 3
    <3>1. /\ stage # "idle" /\ Report("ok", 0, FALSE)
          /\ UNCHANGED <<clocks, runs, inflight, tables>>
      BY <1>5, <2>1 DEF Created
    <3>2. 0 \in 0..3 /\ FALSE \in BOOLEAN /\ "ok" \in {"ok", "failed"}
      OBVIOUS
    <3> QED
      BY <3>1, <3>2, ReportTyped, Zenon
  <2>2. CASE table # 3
    <3>1. /\ stage = "posting" /\ table' = table + 1 /\ attempt' = 1 /\ ambiguous' \in BOOLEAN
          /\ reply' = "none" /\ Post(row, table + 1, 1)
          /\ UNCHANGED <<stage, started, row, reports, clocks, runs, tables>>
      BY <1>5, <2>2 DEF Created
    <3>2. table + 1 \in Tables /\ row.id = runs /\ runs \in Runs
      BY <2>2, <3>1, Bounds DEF Typed, TypeOK, Progress, Tables, Runs
    <3>3. \A m \in inflight' : m.row.id \in Runs /\ m.table \in Tables /\ m.attempt \in 1..MaxAttempts
      BY <3>1, <3>2, Bounds, PostTyped DEF Typed, TypeOK
    <3> QED
      BY <3>1, <3>2, <3>3, Bounds DEF Typed, TypeOK, Progress, clocks, tables, Ids
  <2> QED
    BY <2>1, <2>2
<1>6. CASE InsertFails
  <2>1. CASE MayRetry
    BY <1>6, <2>1, Bounds DEF InsertFails, MayRetry, Typed, TypeOK, Progress, clocks, tables, Ids
  <2>2. CASE ~MayRetry
    <3>1. (ambiguous \/ Ambiguous) \in BOOLEAN /\ table \in 0..3
      BY DEF Typed, TypeOK, Ambiguous, Tables
    <3> QED
      BY <1>6, <2>2, <3>1, ReportTyped DEF InsertFails
  <2> QED
    BY <2>1, <2>2
<1>7. CASE Retry
  <2>1. /\ stage = "backoff" /\ stage' = "posting" /\ attempt' = attempt + 1 /\ reply' = "none"
        /\ Post(row, table, attempt + 1)
        /\ UNCHANGED <<clocks, runs, started, row, table, ambiguous, tables, reports>>
    BY <1>7 DEF Retry
  <2>2. attempt + 1 \in 1..MaxAttempts /\ row.id = runs /\ runs \in Runs
    BY <2>1, Bounds DEF Typed, TypeOK, Progress, Runs
  <2>3. \A m \in inflight' : m.row.id \in Runs /\ m.table \in Tables /\ m.attempt \in 1..MaxAttempts
    BY <2>1, <2>2, PostTyped DEF Typed, TypeOK
  <2> QED
    BY <2>1, <2>2, <2>3 DEF Typed, TypeOK, Progress, clocks, tables, Ids
<1>8. ASSUME NEW m \in inflight, NEW answered \in BOOLEAN, Execute(m, answered)
      PROVE  Typed'
  <2>1. m.row.id \in Runs /\ m.table \in Tables
    BY DEF Typed, TypeOK
  <2>2. /\ inflight' = inflight \ {m} /\ UNCHANGED <<clocks, job, writer, reports>>
        /\ reply' \in {reply, "created", "conflict"}
    BY <1>8 DEF Execute
  <2>3. \A run : (run \in Ids' => run \in Ids \/ run = m.row.id)
                /\ (run \in snapshots' => run \in snapshots \/ run = m.row.id)
                /\ (run \in evidence' => run \in evidence \/ run = m.row.id)
    <3> SUFFICES ASSUME NEW run
                 PROVE  /\ run \in Ids' => run \in Ids \/ run = m.row.id
                        /\ run \in snapshots' => run \in snapshots \/ run = m.row.id
                        /\ run \in evidence' => run \in evidence \/ run = m.row.id
      OBVIOUS
    <3>1. /\ Committed(run, 1) <=> run \in Ids
          /\ Committed(run, 2) <=> run \in snapshots
          /\ Committed(run, 3) <=> run \in evidence
      BY CommittedTables
    <3>2. /\ Committed(run, 1)' <=> run \in Ids'
          /\ Committed(run, 2)' <=> run \in snapshots'
          /\ Committed(run, 3)' <=> run \in evidence'
      BY SMT DEF Committed
    <3>3. \A u \in Tables : Committed(run, u)' => Committed(run, u) \/ run = m.row.id
      BY <1>8, <2>1, ExecuteCommits
    <3> QED
      BY <3>1, <3>2, <3>3 DEF Tables
  <2>4. Ids' \subseteq Runs /\ snapshots' \subseteq Runs /\ evidence' \subseteq Runs
    BY <2>1, <2>3 DEF Typed, TypeOK
  <2> QED
    BY <2>2, <2>4, Bounds DEF Typed, TypeOK, Progress, clocks, job, writer
<1>9. ASSUME NEW m \in inflight, Refuse(m)
      PROVE  Typed'
  BY <1>9 DEF Refuse, Typed, TypeOK, Progress, clocks, job, writer, tables, Ids
<1>10. ASSUME NEW what \in GatewayReplies, GatewayAnswers(what)
       PROVE  Typed'
  <2>1. what \in {"transient", "transient_coded", "gateway"} /\ (~GatewayFaults => what # "gateway")
    BY PublicationAssumption DEF GatewayReplies
  <2> QED
    BY <1>10, <2>1 DEF GatewayAnswers, Typed, TypeOK, Progress, clocks, job, writer, tables, Ids
<1>11. CASE Tick
  BY <1>11, Bounds DEF Tick, Typed, TypeOK, Progress, job, writer, tables, Ids
<1>12. CASE UNCHANGED vars
  BY <1>12 DEF vars, Typed, TypeOK, Progress, clocks, job, writer, tables, Ids
<1> QED
  BY <1>1, <1>2, <1>3, <1>4, <1>5, <1>6, <1>7, <1>8, <1>9, <1>10, <1>11, <1>12
     DEF Next, Run, RunStep, Database, Quiescent

\* The type invariant, for every bound on runs, time and attempts.
THEOREM TypeCorrect == Spec => []TypeOK
<1>1. Spec => []Typed
  BY InitTyped, StepTyped, PTL DEF Spec
<1> QED
  BY <1>1, PTL DEF Typed

------------------------------------------------------------------------------
(* What is known of the tables from where the run is. *)

\* The current run's rows: all of the tables before its own, none of those after.
CurrentRun ==
  /\ stage = "collecting" => \A t \in Tables : Untouched(runs, t)
  /\ stage \in {"posting", "backoff"} =>
       \A t \in Tables :
         /\ t < table => Committed(runs, t)
         /\ t > table => Untouched(runs, t)
  /\ stage = "posting" /\ reply = "created" => Committed(runs, table)

\* Until a first attempt is answered it is the only one, and a refusal of it is final.
FirstAttempt ==
  /\ stage = "backoff" => ambiguous
  /\ stage = "posting" /\ ~ambiguous =>
       /\ reply = "none" =>
            /\ Open(runs, table) => ~Committed(runs, table)
            /\ \A m, n \in inflight :
                 m.row.id = runs /\ m.table = table /\ n.row.id = runs /\ n.table = table
                 => m = n
       /\ reply \in {"refused", "conflict"} => Untouched(runs, table)

\* Runs to come have left no trace.
NothingEarly == \A run \in Runs, t \in Tables : run > runs => Untouched(run, t)

\* A run reports at most at its end.
Reported == \A p \in reports : p.run <= runs /\ (stage # "idle" => p.run < runs)

\* WritesAreOrdered and ReportIsHonest, run by run and report by report.
Ordered ==
  \A run \in Runs :
    /\ Committed(run, 2) \/ Open(run, 2) => Committed(run, 1)
    /\ Committed(run, 3) \/ Open(run, 3) => Committed(run, 2)

Honest(p) ==
  /\ p.status = "ok" => \A t \in Tables : Committed(p.run, t)
  /\ p.status # "ok" => \A t \in Tables :
       /\ t < p.table => Committed(p.run, t)
       /\ t > p.table \/ (t = p.table /\ ~p.unknown) => Untouched(p.run, t)

HonestReports == ~GatewayFaults => \A p \in reports : Honest(p)

Books ==
  CurrentRun /\ FirstAttempt /\ NothingEarly /\ Reported /\ Ordered /\ HonestReports

LEMMA OrderedWrites == Typed /\ Ordered => WritesAreOrdered
<1> SUFFICES ASSUME Typed, Ordered
             PROVE  WritesAreOrdered
  OBVIOUS
<1>1. snapshots \subseteq Runs /\ evidence \subseteq Runs
  BY DEF Typed, TypeOK
<1>2. \A run \in Runs :
        (run \in snapshots => run \in Ids) /\ (run \in evidence => run \in snapshots)
  BY CommittedTables DEF Ordered
<1>3. \A run \in Runs, t \in {2, 3} : Open(run, t) => Committed(run, t - 1)
  BY DEF Ordered
<1> QED
  BY <1>1, <1>2, <1>3 DEF WritesAreOrdered

LEMMA HonestReportsAre == ~GatewayFaults /\ HonestReports => ReportIsHonest
  BY DEF HonestReports, Honest, Untouched, ReportIsHonest

\* A report stays true while its run commits nothing but what was open, and sends nothing.
LEMMA HonestStays ==
  ASSUME NEW p, Honest(p),
         \A t \in Tables :
           /\ Committed(p.run, t) => Committed(p.run, t)'
           /\ Committed(p.run, t)' => Committed(p.run, t) \/ Open(p.run, t)
           /\ Open(p.run, t)' => Open(p.run, t)
  PROVE  Honest(p)'
  BY DEF Honest, Untouched

\* What no action touches stays known.
LEMMA Unmoved ==
  ASSUME UNCHANGED <<inflight, tables>>
  PROVE  /\ \A run, u :
              /\ Committed(run, u)' <=> Committed(run, u)
              /\ Open(run, u)' <=> Open(run, u)
              /\ Untouched(run, u)' <=> Untouched(run, u)
         /\ Ordered => Ordered'
         /\ \A p : Honest(p) => Honest(p)'
<1>1. UNCHANGED inflight /\ UNCHANGED tables
  BY DEF tables
<1>2. ASSUME NEW run, NEW u
      PROVE  /\ Committed(run, u)' <=> Committed(run, u)
             /\ Open(run, u)' <=> Open(run, u)
             /\ Untouched(run, u)' <=> Untouched(run, u)
  BY <1>1, NothingSent, NothingExecuted DEF Untouched
<1>3. ASSUME NEW p, Honest(p)
      PROVE  Honest(p)'
  BY <1>2, <1>3, HonestStays
<1>4. Ordered => Ordered'
  BY <1>2 DEF Ordered
<1> QED
  BY <1>2, <1>3, <1>4, Zenon

LEMMA InitBooks == Init => Books
<1> SUFFICES ASSUME Init
             PROVE  Books
  OBVIOUS
<1>1. Ids = {} /\ snapshots = {} /\ evidence = {} /\ inflight = {} /\ reports = {}
  BY DEF Init, Ids
<1>2. ASSUME NEW run, NEW t \in Tables
      PROVE  Untouched(run, t)
  BY <1>1, CommittedTables DEF Untouched, Open, Tables
<1>3. Ordered
  BY <1>2 DEF Ordered, Untouched, Tables
<1>4. CurrentRun /\ FirstAttempt
  BY DEF Init, CurrentRun, FirstAttempt
<1>5. NothingEarly /\ Reported /\ HonestReports
  BY <1>1, <1>2 DEF NothingEarly, Reported, HonestReports
<1> QED
  BY <1>3, <1>4, <1>5 DEF Books

\* A run that reports what is known of it leaves the books in order.
LEMMA ReportBooks ==
  ASSUME Typed, Books, stage # "idle", NEW status, NEW failing, NEW unknown,
         Report(status, failing, unknown), UNCHANGED <<clocks, runs, inflight, tables>>,
         ~GatewayFaults =>
           Honest([run |-> runs, status |-> status, table |-> failing, unknown |-> unknown])
  PROVE  Books'
<1> DEFINE new == [run |-> runs, status |-> status, table |-> failing, unknown |-> unknown]
<1>1. stage' = "idle" /\ reports' = reports \cup {new} /\ runs' = runs /\ new.run = runs
  BY DEF Report, Ends
<1>2. ~GatewayFaults => Honest(new)
  OBVIOUS
<1> HIDE DEF new
<1>3. UNCHANGED <<inflight, tables>>
  OBVIOUS
<1>4. CurrentRun' /\ FirstAttempt'
  BY <1>1 DEF CurrentRun, FirstAttempt
<1>5. NothingEarly' /\ Ordered'
  <2>1. \A run, u : Untouched(run, u)' <=> Untouched(run, u)
    BY <1>3, Unmoved, Zenon
  <2>2. Ordered'
    BY <1>3, Unmoved, Zenon DEF Books
  <2>3. NothingEarly'
    BY <1>1, <2>1 DEF Books, NothingEarly
  <2> QED
    BY <2>2, <2>3
<1>6. Reported'
  BY <1>1 DEF Books, Reported, Typed, TypeOK
<1>7. HonestReports'
  BY <1>1, <1>2, <1>3, Unmoved DEF Books, HonestReports
<1> QED
  BY <1>4, <1>5, <1>6, <1>7 DEF Books

\* A run sends an insert only for itself, and only on top of what is committed.
LEMMA SendBooks ==
  ASSUME Typed, Books, stage # "idle", NEW r, NEW t \in Tables, NEW n,
         r.id = runs, Post(r, t, n), UNCHANGED <<runs, tables, reports>>, stage' # "idle",
         t > 1 => Committed(runs, t - 1)
  PROVE  /\ NothingEarly' /\ Reported' /\ Ordered' /\ HonestReports'
         /\ \A u \in Tables : u # t => (Untouched(runs, u)' <=> Untouched(runs, u))
<1>1. \A run, u : Open(run, u)' <=> Open(run, u) \/ (run = runs /\ u = t)
  BY PostOpens
<1>2. \A run, u : Committed(run, u)' <=> Committed(run, u)
  BY NothingExecuted
<1>3. UNCHANGED runs /\ UNCHANGED reports /\ runs \in Nat
  BY Bounds DEF Typed, TypeOK
<1>4. NothingEarly'
  BY <1>1, <1>2, <1>3 DEF Books, NothingEarly, Untouched, Runs
<1>5. Reported'
  BY <1>3 DEF Books, Reported
<1>6. Ordered'
  <2>1. \A run \in Runs :
          (Committed(run, 2)' => Committed(run, 1)') /\ (Committed(run, 3)' => Committed(run, 2)')
    BY <1>2 DEF Books, Ordered
  <2>2. ASSUME NEW run \in Runs, Open(run, 2)'
        PROVE  Committed(run, 1)'
    BY <1>1, <1>2, <2>2 DEF Books, Ordered
  <2>3. ASSUME NEW run \in Runs, Open(run, 3)'
        PROVE  Committed(run, 2)'
    BY <1>1, <1>2, <2>3 DEF Books, Ordered
  <2> QED
    BY <2>1, <2>2, <2>3 DEF Ordered
<1>7. HonestReports'
  <2> SUFFICES ASSUME ~GatewayFaults, NEW p \in reports
               PROVE  Honest(p)'
    BY <1>3 DEF HonestReports
  <2>1. Honest(p) /\ p.run # runs
    BY <1>3 DEF Books, HonestReports, Reported, Typed, TypeOK, Runs
  <2> QED
    BY <1>1, <1>2, <2>1, HonestStays
<1>8. \A u \in Tables : u # t => (Untouched(runs, u)' <=> Untouched(runs, u))
  BY <1>1, <1>2, <1>3 DEF Untouched
<1> QED
  BY <1>4, <1>5, <1>6, <1>7, <1>8

LEMMA CollectBooks ==
  ASSUME Typed, Books, NEW error, NEW complete, Collect(error, complete)
  PROVE  Books'
<1> DEFINE new == [id |-> runs, block |-> safe,
                   assessment |-> Assess(runs, safe, now + error, 50, complete)]
<1>1. /\ stage = "collecting" /\ stage' = "posting" /\ table' = 1 /\ reply' = "none"
      /\ Post(new, 1, 1) /\ UNCHANGED <<clocks, runs, started, tables, reports>>
  BY DEF Collect
<1>2. new.id = runs /\ inflight' = inflight \cup {[row |-> new, table |-> 1, attempt |-> 1]}
  BY <1>1 DEF Post
<1> HIDE DEF new
<1>3. 1 \in Tables /\ ~(1 > 1) /\ UNCHANGED <<runs, tables, reports>>
  BY <1>1 DEF Tables
<1>4. /\ NothingEarly' /\ Reported' /\ Ordered' /\ HonestReports'
      /\ \A u \in Tables : u # 1 => (Untouched(runs, u)' <=> Untouched(runs, u))
  BY <1>1, <1>2, <1>3, SendBooks
<1>5. \A u \in Tables : Untouched(runs, u)
  BY <1>1 DEF Books, CurrentRun
<1>6. CurrentRun'
  <2>1. stage' = "posting" /\ table' = 1 /\ reply' = "none" /\ runs' = runs
    BY <1>1
  <2>2. \A u \in Tables : ~(u < 1) /\ (u > 1 => Untouched(runs, u)')
    BY <1>4, <1>5 DEF Tables
  <2> QED
    BY <2>1, <2>2 DEF CurrentRun
<1>7. FirstAttempt'
  <2>1. ~Committed(runs, 1)' /\ ~Open(runs, 1) /\ runs' = runs
    BY <1>1, <1>3, <1>5, NothingExecuted DEF Untouched
  <2>2. \A m \in inflight' :
          m.row.id = runs /\ m.table = 1 => m = [row |-> new, table |-> 1, attempt |-> 1]
    BY <1>2, <2>1 DEF Open
  <2> QED
    BY <1>1, <2>1, <2>2 DEF FirstAttempt
<1> QED
  BY <1>4, <1>6, <1>7 DEF Books

LEMMA CreatedBooks ==
  ASSUME Typed, Books, Created
  PROVE  Books'
<1>1. stage = "posting" /\ reply = "created" /\ UNCHANGED <<clocks, runs, tables>>
  BY DEF Created
<1>2. \A t \in Tables : t <= table => Committed(runs, t)
  BY <1>1 DEF Books, CurrentRun, Typed, TypeOK, Tables
<1>3. CASE table = 3
  <2> DEFINE new == [run |-> runs, status |-> "ok", table |-> 0, unknown |-> FALSE]
  <2>1. new.status = "ok" /\ new.run = runs
    OBVIOUS
  <2> HIDE DEF new
  <2>2. Honest(new)
    BY <1>2, <1>3, <2>1 DEF Honest, Tables
  <2>3. Report("ok", 0, FALSE) /\ UNCHANGED <<clocks, runs, inflight, tables>> /\ stage # "idle"
    BY <1>1, <1>3 DEF Created
  <2> QED
    BY <2>2, <2>3, ReportBooks, Zenon DEF new
<1>4. CASE table # 3
  <2>1. /\ table' = table + 1 /\ reply' = "none" /\ Post(row, table + 1, 1)
        /\ UNCHANGED <<stage, started, row, reports>>
    BY <1>4 DEF Created
  <2> DEFINE new == [row |-> row, table |-> table + 1, attempt |-> 1]
  <2>2. inflight' = inflight \cup {new}
    BY <2>1 DEF Post
  <2> HIDE DEF new
  <2>3. /\ table \in Tables /\ table + 1 \in Tables /\ row.id = runs
        /\ stage # "idle" /\ stage' # "idle" /\ UNCHANGED <<runs, tables, reports>>
        /\ Committed(runs, (table + 1) - 1)
    BY <1>1, <1>2, <1>4, <2>1 DEF Typed, TypeOK, Progress, Tables
  <2>4. /\ NothingEarly' /\ Reported' /\ Ordered' /\ HonestReports'
        /\ \A u \in Tables : u # table + 1 => (Untouched(runs, u)' <=> Untouched(runs, u))
    BY <2>1, <2>3, SendBooks
  <2>5. Untouched(runs, table + 1)
    BY <1>1, <2>3 DEF Books, CurrentRun, Tables
  <2>6. CurrentRun'
    <3>1. \A u \in Tables : Committed(runs, u)' <=> Committed(runs, u)
      BY <2>3, NothingExecuted
    <3>2. ASSUME NEW u \in Tables
          PROVE  /\ u < table + 1 => Committed(runs, u)'
                 /\ u > table + 1 => Untouched(runs, u)'
      <4>1. u < table + 1 => u <= table
        BY <2>3 DEF Tables
      <4>2. u > table + 1 => u > table /\ u # table + 1
        BY <2>3 DEF Tables
      <4> QED
        BY <1>1, <1>2, <2>4, <3>1, <4>1, <4>2 DEF Books, CurrentRun
    <3> QED
      BY <1>1, <2>1, <2>3, <3>2 DEF CurrentRun
  <2>7. FirstAttempt'
    <3>1. PICK run, t : run = runs /\ t = table + 1
      OBVIOUS
    <3>2. ~Committed(run, t)' /\ ~Open(run, t) /\ run = runs' /\ t = table'
      BY <2>1, <2>3, <2>5, <3>1, NothingExecuted DEF Untouched
    <3>3. \A m \in inflight' : m.row.id = run /\ m.table = t => m = new
      BY <2>2, <3>2 DEF Open
    <3> QED
      BY <1>1, <2>1, <3>2, <3>3 DEF FirstAttempt
  <2> QED
    BY <2>4, <2>6, <2>7 DEF Books
<1> QED
  BY <1>3, <1>4

LEMMA InsertFailsBooks ==
  ASSUME Typed, Books, InsertFails
  PROVE  Books'
<1>1. stage = "posting" /\ reply # "created" /\ UNCHANGED <<clocks, runs, inflight, tables>>
  BY DEF InsertFails
<1>2. CASE MayRetry
  <2>1. /\ stage' = "backoff" /\ ambiguous' = TRUE
        /\ UNCHANGED <<started, row, table, attempt, reply, reports>>
    BY <1>2 DEF InsertFails
  <2>2. UNCHANGED <<inflight, tables>>
    BY <1>1
  <2>3. \A run, u :
          (Committed(run, u)' <=> Committed(run, u)) /\ (Untouched(run, u)' <=> Untouched(run, u))
    BY <2>2, Unmoved, Zenon
  <2>4. Ordered' /\ \A p : Honest(p) => Honest(p)'
    BY <2>2, Unmoved, Zenon DEF Books
  <2>5. CurrentRun' /\ FirstAttempt'
    BY <1>1, <2>1, <2>3 DEF Books, CurrentRun, FirstAttempt
  <2>6. NothingEarly' /\ Reported' /\ HonestReports'
    BY <1>1, <2>1, <2>3, <2>4 DEF Books, NothingEarly, Reported, HonestReports
  <2> QED
    BY <2>4, <2>5, <2>6 DEF Books
<1>3. CASE ~MayRetry
  <2> DEFINE unknown == ambiguous \/ Ambiguous
             new == [run |-> runs, status |-> "failed", table |-> table, unknown |-> unknown]
  <2>1. /\ Report("failed", table, unknown) /\ stage # "idle"
    BY <1>1, <1>3 DEF InsertFails
  <2>2. /\ new.run = runs /\ new.status # "ok" /\ new.table = table /\ new.unknown = unknown
    OBVIOUS
  <2>3. ASSUME ~GatewayFaults, ~unknown
        PROVE  Untouched(runs, table)
    <3>1. ~ambiguous /\ reply \notin {"none", "transient", "transient_coded", "gateway", "created"}
      BY <1>1, <2>3 DEF Ambiguous, Typed, Progress
    <3>2. reply \in {"refused", "conflict"}
      BY <3>1 DEF Typed, TypeOK
    <3> QED
      BY <1>1, <3>1, <3>2 DEF Books, FirstAttempt
  <2> HIDE DEF new, unknown
  <2>4. ~GatewayFaults => Honest(new)
    BY <1>1, <2>2, <2>3 DEF Honest, Books, CurrentRun
  <2> QED
    BY <1>1, <2>1, <2>4, ReportBooks, Zenon DEF new
<1> QED
  BY <1>2, <1>3

LEMMA RetryBooks ==
  ASSUME Typed, Books, Retry
  PROVE  Books'
<1>1. /\ stage = "backoff" /\ stage' = "posting" /\ reply' = "none"
      /\ Post(row, table, attempt + 1)
      /\ UNCHANGED <<runs, row, table, ambiguous, tables, reports>>
  BY DEF Retry
<1>2. table = 1 /\ table \in Tables /\ row.id = runs /\ stage # "idle" /\ stage' # "idle" /\ ~(table > 1)
  BY <1>1 DEF Typed, TypeOK, Progress
<1>3. /\ NothingEarly' /\ Reported' /\ Ordered' /\ HonestReports'
      /\ \A u \in Tables : u # table => (Untouched(runs, u)' <=> Untouched(runs, u))
  <2>1. UNCHANGED <<runs, tables, reports>> /\ (table > 1 => Committed(runs, table - 1))
    BY <1>1, <1>2
  <2> QED
    BY <1>1, <1>2, <2>1, SendBooks
<1>4. CurrentRun'
  <2>1. \A u \in Tables : u > table => Untouched(runs, u) /\ u # table
    BY <1>1, <1>2 DEF Books, CurrentRun, Tables
  <2>2. \A u \in Tables : ~(u < table)
    BY <1>2 DEF Tables
  <2> QED
    BY <1>1, <1>3, <2>1, <2>2 DEF CurrentRun
<1>5. FirstAttempt'
  BY <1>1 DEF Books, FirstAttempt
<1> QED
  BY <1>3, <1>4, <1>5 DEF Books

\* An execution commits nothing but what was open, in an order the keys and the writer keep.
LEMMA ExecuteBooks ==
  ASSUME Typed, Books, NEW m \in inflight, NEW answered \in BOOLEAN, Execute(m, answered)
  PROVE  Books'
<1>1. m.row.id \in Runs /\ m.table \in Tables /\ Open(m.row.id, m.table)
  BY DEF Typed, TypeOK, Open
<1>2. \A run : \A u \in Tables :
        /\ Committed(run, u)' <=> Committed(run, u)
             \/ (Insertable(m) /\ run = m.row.id /\ u = m.table)
        /\ Open(run, u)' => Open(run, u)
  BY <1>1, ExecuteCommits
<1>3. \A run : \A u \in Tables :
        /\ Committed(run, u) => Committed(run, u)'
        /\ Committed(run, u)' => Committed(run, u) \/ Open(run, u)
        /\ Untouched(run, u) => Untouched(run, u)'
  BY <1>1, <1>2 DEF Untouched
<1>4. /\ inflight' = inflight \ {m} /\ UNCHANGED <<clocks, job, writer, reports>>
      /\ answered => Current(m)
      /\ reply' = IF ~answered THEN reply ELSE IF Insertable(m) THEN "created" ELSE "conflict"
  BY DEF Execute
<1>5. UNCHANGED <<runs, stage, table, ambiguous, reports>>
  BY <1>4 DEF job, writer
<1>6. Current(m) => /\ stage = "posting" /\ reply = "none"
                    /\ m.row.id = runs /\ m.table = table
  BY DEF Current, Typed, Progress
<1>7. CurrentRun'
  <2>1. ASSUME stage = "posting", reply' = "created"
        PROVE  Committed(runs, table)'
    <3>1. CASE ~answered
      BY <1>1, <1>3, <1>4, <1>5, <2>1, <3>1 DEF Books, CurrentRun, Typed, TypeOK
    <3>2. CASE answered
      BY <1>1, <1>2, <1>4, <1>5, <1>6, <2>1, <3>2
    <3> QED
      BY <3>1, <3>2
  <2>2. stage = "collecting" => \A t \in Tables : Untouched(runs, t)'
    BY <1>3, <1>5 DEF Books, CurrentRun
  <2>3. stage \in {"posting", "backoff"} =>
          \A t \in Tables : (t < table => Committed(runs, t)') /\ (t > table => Untouched(runs, t)')
    BY <1>3, <1>5 DEF Books, CurrentRun
  <2> QED
    BY <1>5, <2>1, <2>2, <2>3 DEF CurrentRun
<1>8. FirstAttempt'
  <2> SUFFICES ASSUME stage = "posting", ~ambiguous
               PROVE  /\ reply' = "none" =>
                           /\ Open(runs, table)' => ~Committed(runs, table)'
                           /\ \A k, n \in inflight' :
                                k.row.id = runs /\ k.table = table /\ n.row.id = runs /\ n.table = table
                                => k = n
                      /\ reply' \in {"refused", "conflict"} => Untouched(runs, table)'
    BY <1>5 DEF Books, FirstAttempt
  <2>1. table \in Tables
    BY DEF Typed, TypeOK
  <2>2. ASSUME reply = "none", m.row.id = runs, m.table = table
        PROVE  ~Open(runs, table)' /\ ~Committed(runs, table)
    <3>1. \A n \in inflight : n.row.id = runs /\ n.table = table => n = m
      BY <2>2 DEF Books, FirstAttempt
    <3>2. ~Open(runs, table)'
      BY <1>4, <1>5, <3>1 DEF Open
    <3> QED
      BY <1>1, <2>2, <3>2 DEF Books, FirstAttempt
  <2>3. ASSUME reply' = "none"
        PROVE  Open(runs, table)' => ~Committed(runs, table)'
    <3>1. reply = "none" /\ ~answered
      BY <1>4, <2>3
    <3> QED
      BY <1>2, <1>5, <2>1, <2>2, <3>1 DEF Books, FirstAttempt
  <2>4. ASSUME reply' = "none", NEW k \in inflight', NEW n \in inflight',
               k.row.id = runs, k.table = table, n.row.id = runs, n.table = table
        PROVE  k = n
    BY <1>4, <2>4 DEF Books, FirstAttempt
  <2>5. ASSUME reply' \in {"refused", "conflict"}
        PROVE  Untouched(runs, table)'
    <3>1. CASE ~answered
      BY <1>3, <1>4, <1>5, <2>1, <2>5, <3>1 DEF Books, FirstAttempt
    <3>2. CASE answered
      BY <1>2, <1>4, <1>5, <1>6, <2>1, <2>2, <2>5, <3>2 DEF Untouched
    <3> QED
      BY <3>1, <3>2
  <2> QED
    BY <2>3, <2>4, <2>5
<1>9. NothingEarly' /\ Reported'
  BY <1>3, <1>5 DEF Books, NothingEarly, Reported
<1>10. Ordered'
  <2> SUFFICES ASSUME NEW run \in Runs
               PROVE  /\ Committed(run, 2)' \/ Open(run, 2)' => Committed(run, 1)'
                      /\ Committed(run, 3)' \/ Open(run, 3)' => Committed(run, 2)'
    BY DEF Ordered
  <2>1. 1 \in Tables /\ 2 \in Tables /\ 3 \in Tables
    BY DEF Tables
  <2> QED
    BY <1>2, <1>3, <2>1 DEF Books, Ordered
<1>11. HonestReports'
  <2> SUFFICES ASSUME ~GatewayFaults, NEW p \in reports
               PROVE  Honest(p)'
    BY <1>5 DEF HonestReports
  <2>1. Honest(p)
    BY DEF Books, HonestReports
  <2> QED
    BY <1>2, <1>3, <2>1, HonestStays
<1> QED
  BY <1>7, <1>8, <1>9, <1>10, <1>11 DEF Books

LEMMA RefuseBooks ==
  ASSUME Typed, Books, NEW m \in inflight, Refuse(m)
  PROVE  Books'
<1>1. /\ stage = "posting" /\ reply = "none" /\ m.row.id = runs /\ m.table = table
      /\ inflight' = inflight \ {m} /\ reply' = "refused"
      /\ UNCHANGED <<clocks, job, writer, tables, reports>>
  BY DEF Refuse, Current, Typed, Progress
<1>2. UNCHANGED <<runs, stage, table, ambiguous, reports>>
  BY <1>1 DEF job, writer
<1>3. \A run, u : /\ Committed(run, u)' <=> Committed(run, u)
  BY <1>1, NothingExecuted
<1>4. \A run, u : Open(run, u)' => Open(run, u)
  BY <1>1 DEF Open
<1>5. CurrentRun'
  BY <1>1, <1>2, <1>3, <1>4 DEF Books, CurrentRun, Untouched
<1>6. FirstAttempt'
  <2> SUFFICES ASSUME ~ambiguous
               PROVE  Untouched(runs, table)'
    BY <1>1, <1>2 DEF FirstAttempt
  <2>1. /\ Open(runs, table) => ~Committed(runs, table)
        /\ \A n \in inflight : n.row.id = runs /\ n.table = table => n = m
    BY <1>1 DEF Books, FirstAttempt
  <2>2. Open(runs, table)
    BY <1>1 DEF Open
  <2>3. ~Open(runs, table)'
    BY <1>1, <1>2, <2>1 DEF Open
  <2> QED
    BY <1>2, <1>3, <2>1, <2>2, <2>3 DEF Untouched
<1>7. NothingEarly' /\ Reported' /\ Ordered'
  BY <1>2, <1>3, <1>4 DEF Books, NothingEarly, Reported, Ordered, Untouched
<1>8. HonestReports'
  <2> SUFFICES ASSUME ~GatewayFaults, NEW p \in reports
               PROVE  Honest(p)'
    BY <1>2 DEF HonestReports
  <2>1. Honest(p)
    BY DEF Books, HonestReports
  <2> QED
    BY <1>3, <1>4, <2>1, HonestStays
<1> QED
  BY <1>5, <1>6, <1>7, <1>8 DEF Books

\* Steps that neither send nor execute and end no run with a report.
LEMMA QuietBooks ==
  ASSUME Typed, Books, UNCHANGED <<inflight, tables, reports>>,
         \/ UNCHANGED <<runs, stage, table, ambiguous, reply>>
         \/ /\ stage = "posting" /\ reply = "none"
            /\ reply' \in {"transient", "transient_coded", "gateway"}
            /\ UNCHANGED <<runs, stage, table, ambiguous>>
         \/ stage = "idle" /\ stage' = "collecting" /\ runs' = runs + 1 /\ runs' \in Runs
         \/ stage' = "idle" /\ UNCHANGED runs
  PROVE  Books'
<1>1. UNCHANGED <<inflight, tables>> /\ UNCHANGED reports
  OBVIOUS
<1>2. \A run, u :
        /\ Committed(run, u)' <=> Committed(run, u)
        /\ Open(run, u)' <=> Open(run, u)
        /\ Untouched(run, u)' <=> Untouched(run, u)
  BY <1>1, Unmoved, Zenon
<1>3. Ordered' /\ \A p : Honest(p) => Honest(p)'
  BY <1>1, Unmoved, Zenon DEF Books
<1>4. HonestReports'
  BY <1>1, <1>3 DEF Books, HonestReports
<1>5. runs \in Nat /\ \A p \in reports : p.run \in Runs /\ p.run <= runs
  BY Bounds DEF Typed, TypeOK, Books, Reported
<1>6. NothingEarly' /\ Reported'
  <2>1. runs' \in {runs, runs + 1} /\ (runs' # runs => stage = "idle")
        /\ (stage' = "idle" \/ runs' # runs \/ stage' = stage)
    BY <1>5
  <2>2. NothingEarly'
    BY <1>2, <1>5, <2>1 DEF Books, NothingEarly, Runs
  <2>3. Reported'
    BY <1>1, <1>5, <2>1 DEF Books, Reported, Runs
  <2> QED
    BY <2>2, <2>3
<1>7. CurrentRun'
  <2>1. CASE stage = "idle" /\ stage' = "collecting" /\ runs' = runs + 1 /\ runs' \in Runs
    <3>1. runs + 1 > runs /\ runs + 1 \in Runs
      BY <1>5, <2>1
    <3> QED
      BY <1>2, <2>1, <3>1 DEF Books, NothingEarly, CurrentRun
  <2> QED
    BY <1>2, <2>1 DEF Books, CurrentRun
<1>8. FirstAttempt'
  BY <1>1, <1>2 DEF Books, FirstAttempt
<1> QED
  BY <1>3, <1>4, <1>6, <1>7, <1>8 DEF Books

LEMMA StepBooks == Typed /\ Books /\ [Next]_vars => Books'
<1> SUFFICES ASSUME Typed, Books, [Next]_vars
             PROVE  Books'
  OBVIOUS
<1>1. CASE Dispatch
  <2>1. runs' \in Runs
    BY <1>1, Bounds DEF Dispatch, Typed, TypeOK, Runs
  <2> QED
    BY <1>1, <2>1, QuietBooks DEF Dispatch
<1>2. CASE Killed
  BY <1>2, QuietBooks DEF Killed, Ends
<1>3. CASE CollectFails
  <2> DEFINE new == [run |-> runs, status |-> "failed", table |-> 0, unknown |-> FALSE]
  <2>1. new.run = runs /\ new.status # "ok" /\ new.table = 0
    OBVIOUS
  <2>2. /\ stage = "collecting" /\ stage # "idle" /\ Report("failed", 0, FALSE)
        /\ UNCHANGED <<clocks, runs, inflight, tables>>
    BY <1>3 DEF CollectFails
  <2> HIDE DEF new
  <2>3. Honest(new)
    BY <2>1, <2>2 DEF Books, CurrentRun, Honest, Tables
  <2> QED
    BY <2>2, <2>3, ReportBooks, Zenon DEF new
<1>4. ASSUME NEW error \in ClockErrors, NEW complete \in BOOLEAN, Collect(error, complete)
      PROVE  Books'
  BY <1>4, CollectBooks
<1>5. CASE Created
  BY <1>5, CreatedBooks
<1>6. CASE InsertFails
  BY <1>6, InsertFailsBooks
<1>7. CASE Retry
  BY <1>7, RetryBooks
<1>8. ASSUME NEW m \in inflight, NEW answered \in BOOLEAN, Execute(m, answered)
      PROVE  Books'
  BY <1>8, ExecuteBooks
<1>9. ASSUME NEW m \in inflight, Refuse(m)
      PROVE  Books'
  BY <1>9, RefuseBooks
<1>10. ASSUME NEW what \in GatewayReplies, GatewayAnswers(what)
       PROVE  Books'
  <2>1. what \in {"transient", "transient_coded", "gateway"}
    BY DEF GatewayReplies
  <2> QED
    BY <1>10, <2>1, QuietBooks DEF GatewayAnswers, job, writer
<1>11. CASE Tick
  BY <1>11, QuietBooks DEF Tick, job, writer
<1>12. CASE UNCHANGED vars
  BY <1>12, QuietBooks DEF vars, job, writer
<1> QED
  BY <1>1, <1>2, <1>3, <1>4, <1>5, <1>6, <1>7, <1>8, <1>9, <1>10, <1>11, <1>12
     DEF Next, Run, RunStep, Database, Quiescent

\* The books hold of every state: the inductive invariant behind the theorems below.
THEOREM Invariance == Spec => [](Typed /\ Books)
<1>1. Init => Typed /\ Books
  BY InitTyped, InitBooks
<1>2. Typed /\ Books /\ [Next]_vars => (Typed /\ Books)'
  BY StepTyped, StepBooks
<1> QED
  BY <1>1, <1>2, PTL DEF Spec

\* WritesAreOrdered, for any number of runs, retries, late executions and lost answers:
\* the writer's waiting is the only thing that keeps evidence behind its snapshot.
THEOREM WritesKeepTheirOrder == Spec => []WritesAreOrdered
<1>1. Typed /\ Books => WritesAreOrdered
  BY OrderedWrites DEF Books
<1> QED
  BY <1>1, Invariance, PTL

\* ReportIsHonest, if no gateway answers 500 or 502 for the database: whoever
\* reconciles from a report finds the tables as it says, now and later.
THEOREM ReportsAreHonest ==
  ASSUME GatewayFaults = FALSE
  PROVE  Spec => []ReportIsHonest
<1>1. Typed /\ Books => ReportIsHonest
  BY HonestReportsAre DEF Books
<1> QED
  BY <1>1, Invariance, PTL

\* NoDuplicates, whatever is sent and executed: the keys alone keep it.
THEOREM KeysPreventDuplicates == Spec => []NoDuplicates
<1>1. Init => NoDuplicates
  BY DEF Init, NoDuplicates
<1>2. Typed /\ NoDuplicates /\ [Next]_vars => NoDuplicates'
  <2> SUFFICES ASSUME Typed, NoDuplicates, [Next]_vars
               PROVE  NoDuplicates'
    OBVIOUS
  <2>1. ASSUME NEW m \in inflight, NEW answered \in BOOLEAN, Execute(m, answered)
        PROVE  NoDuplicates'
    <3>1. CASE m.table = 1 /\ Insertable(m)
      <4> DEFINE new == [id |-> m.row.id, block |-> m.row.block,
                         created |-> Cardinality(assessments) + 1,
                         assessment |-> m.row.assessment]
      <4>1. assessments' = assessments \cup {new} /\ new.id = m.row.id /\ new.block = m.row.block
        BY <2>1, <3>1 DEF Execute
      <4>2. \A r \in assessments : r.id # m.row.id /\ r.block # m.row.block
        BY <3>1, InsertableTables
      <4> HIDE DEF new
      <4> QED
        BY <4>1, <4>2 DEF NoDuplicates
    <3>2. CASE ~(m.table = 1 /\ Insertable(m))
      <4>1. assessments' = assessments
        BY <2>1, <3>2 DEF Execute, tables
      <4> QED
        BY <4>1 DEF NoDuplicates
    <3> QED
      BY <3>1, <3>2
  <2>2. ASSUME UNCHANGED assessments
        PROVE  NoDuplicates'
    BY <2>2 DEF NoDuplicates
  <2>3. \/ UNCHANGED assessments
        \/ \E m \in inflight, answered \in BOOLEAN : Execute(m, answered)
    BY DEF Next, Run, RunStep, Database, Quiescent, vars, tables, Dispatch, Killed, CollectFails,
           Collect, Created, InsertFails, Retry, Refuse, GatewayAnswers, Tick
  <2> QED
    BY <2>1, <2>2, <2>3
<1>3. Spec => []Typed
  BY InitTyped, StepTyped, PTL DEF Spec
<1> QED
  BY <1>1, <1>2, <1>3, PTL DEF Spec

------------------------------------------------------------------------------
(* Rows. *)

\* What a run sends: its assessment of a safe block, dated not before it.
Sent(w) ==
  \E id \in Runs, b \in Nat, at \in Int, complete \in BOOLEAN :
    b <= at /\ w = [id |-> id, block |-> b, assessment |-> Assess(id, b, at, 50, complete)]

\* What the first table holds of it, with the moment it was inserted.
Stored(r) ==
  \E id \in Runs, b \in Nat, at \in Int, complete \in BOOLEAN, n \in Nat \ {0} :
    b <= at /\ r = [id |-> id, block |-> b, created |-> n,
                    assessment |-> Assess(id, b, at, 50, complete)]

\* The newest row there is: it precedes every other.
Latest(r) == r \in assessments /\ \A s \in assessments \ {r} : NewerThan(r, s)

\* Rows are numbered as they come, so that any two are comparable and one is newest.
Rows ==
  /\ stage \in {"posting", "backoff"} => Sent(row)
  /\ \A m \in inflight : Sent(m.row)
  /\ IsFiniteSet(assessments)
  /\ \A r \in assessments : Stored(r) /\ r.created <= Cardinality(assessments)
  /\ \A r, s \in assessments : r.created = s.created => r = s
  /\ assessments # {} => \E r \in assessments : Latest(r)

LEMMA StoredFields ==
  ASSUME NEW r, Stored(r)
  PROVE  /\ r.id \in Runs /\ r.created \in Nat \ {0} /\ r.assessment.computed_at \in Nat
         /\ r.assessment.id = r.id /\ r.assessment.freshness.expires_at \in Int
<1>1. PICK id \in Runs, b \in Nat, at \in Int, complete \in BOOLEAN, n \in Nat \ {0} :
        b <= at /\ r = [id |-> id, block |-> b, created |-> n,
                        assessment |-> Assess(id, b, at, 50, complete)]
  BY DEF Stored
<1> DEFINE a == Assess(id, b, at, 50, complete)
<1>2. a.id = id /\ a.computed_at = at /\ a.freshness.expires_at \in Int
  <2>1. a.freshness.expires_at \in {b + StaleAge + 1, NoTime}
    <3>1. CASE at - b <= StaleAge
      BY <1>1, <3>1, AssessCurrent
    <3>2. CASE at - b > StaleAge
      BY <1>1, <3>2, AssessOld
    <3> QED
      BY <1>1, <3>1, <3>2, AgeAssumption
  <2>2. a.id = id /\ a.computed_at = at
    BY DEF Assess
  <2> HIDE DEF a
  <2> QED
    BY <1>1, <2>1, <2>2, AgeAssumption DEF NoTime
<1> HIDE DEF a
<1>3. r = [id |-> id, block |-> b, created |-> n, assessment |-> a]
  BY <1>1 DEF a
<1> QED
  BY <1>1, <1>2, <1>3

\* There is one newest row, and Newest is it.
LEMMA NewestIsLatest ==
  ASSUME Rows, NEW r \in assessments, Latest(r)
  PROVE  Newest = r
<1> DEFINE P(x) == \A s \in assessments \ {x} : NewerThan(x, s)
<1>1. ASSUME NEW x \in assessments, P(x), x # r
      PROVE  FALSE
  <2>1. NewerThan(x, r) /\ NewerThan(r, x)
    BY <1>1 DEF Latest
  <2>2. /\ r.assessment.computed_at \in Nat /\ x.assessment.computed_at \in Nat
        /\ r.created \in Nat /\ x.created \in Nat
    BY StoredFields DEF Rows
  <2> QED
    BY <2>1, <2>2 DEF NewerThan
<1>2. P(r)
  BY DEF Latest
<1>3. Newest = CHOOSE x \in assessments : P(x)
  BY DEF Newest
<1> HIDE DEF P
<1> QED
  BY <1>1, <1>2, <1>3

LEMMA InitRows == Init => Rows
  BY FS_EmptySet DEF Init, Rows

\* The row a request carries, as it is stored.
LEMMA SentIsStored ==
  ASSUME NEW w, Sent(w), NEW n \in Nat \ {0}
  PROVE  Stored([id |-> w.id, block |-> w.block, created |-> n, assessment |-> w.assessment])
  BY DEF Sent, Stored

\* A row is added: it or the newest before it is the newest now.
LEMMA AddRow ==
  ASSUME Typed, Rows, NEW new, Stored(new), new.created = Cardinality(assessments) + 1,
         assessments' = assessments \cup {new}
  PROVE  /\ IsFiniteSet(assessments')
         /\ \A r \in assessments' : Stored(r) /\ r.created <= Cardinality(assessments')
         /\ \A r, s \in assessments' : r.created = s.created => r = s
         /\ \/ Latest(new)'
            \/ \E r \in assessments : Latest(r) /\ Latest(r)'
         /\ new \notin assessments
<1> DEFINE n == Cardinality(assessments)
<1>1. IsFiniteSet(assessments) /\ n \in Nat
  BY FS_CardinalityType DEF Rows
<1>2. \A r \in assessments :
        /\ r.created \in Nat /\ r.assessment.computed_at \in Nat /\ r.created <= n
        /\ r.created < new.created
  BY <1>1, StoredFields DEF Rows
<1>3. new \notin assessments
  BY <1>1, <1>2
<1>4. IsFiniteSet(assessments') /\ Cardinality(assessments') = n + 1
  BY <1>1, <1>3, FS_AddElement
<1>5. new.created \in Nat /\ new.assessment.computed_at \in Nat
  BY StoredFields
<1> HIDE DEF n
<1>6. \A r \in assessments' : Stored(r) /\ r.created <= Cardinality(assessments')
  BY <1>1, <1>2, <1>4, <1>5 DEF Rows, n
<1>7. \A r, s \in assessments' : r.created = s.created => r = s
  BY <1>1, <1>2, <1>5 DEF Rows
<1>8. \/ Latest(new)'
      \/ \E r \in assessments : Latest(r) /\ Latest(r)'
  <2>1. CASE assessments = {}
    BY <2>1 DEF Latest
  <2>2. CASE assessments # {}
    <3>1. PICK r \in assessments : Latest(r)
      BY <2>2 DEF Rows
    <3>2. CASE r.assessment.computed_at > new.assessment.computed_at
      <4>1. NewerThan(r, new)
        BY <3>2 DEF NewerThan
      <4> QED
        BY <3>1, <4>1 DEF Latest
    <3>3. CASE ~(r.assessment.computed_at > new.assessment.computed_at)
      <4>1. NewerThan(new, r)
        BY <1>2, <1>5, <3>3 DEF NewerThan
      <4>2. \A s \in assessments \ {r} : NewerThan(new, s)
        <5> SUFFICES ASSUME NEW s \in assessments \ {r}
                     PROVE  NewerThan(new, s)
          OBVIOUS
        <5>1. NewerThan(r, s)
          BY <3>1 DEF Latest
        <5> QED
          BY <1>2, <1>5, <3>3, <5>1 DEF NewerThan
      <4> QED
        BY <4>1, <4>2 DEF Latest
    <3> QED
      BY <3>2, <3>3
  <2> QED
    BY <2>1, <2>2
<1> QED
  BY <1>3, <1>4, <1>6, <1>7, <1>8

\* Only an execution changes the tables, and only the scoring of a snapshot makes rows.
LEMMA StepRows == Typed /\ Rows /\ [Next]_vars => Rows'
<1> SUFFICES ASSUME Typed, Rows, [Next]_vars
             PROVE  Rows'
  OBVIOUS
<1>1. ASSUME NEW error \in ClockErrors, NEW complete \in BOOLEAN, Collect(error, complete)
      PROVE  Rows'
  <2> DEFINE new == [id |-> runs, block |-> safe,
                     assessment |-> Assess(runs, safe, now + error, 50, complete)]
  <2>1. /\ row' = new /\ inflight' = inflight \cup {[row |-> new, table |-> 1, attempt |-> 1]}
        /\ assessments' = assessments /\ stage = "collecting" /\ now + error >= safe
    BY <1>1 DEF Collect, Post, tables
  <2>2. runs \in Runs /\ safe \in Nat /\ now + error \in Int
    BY <2>1, Bounds, PublicationAssumption DEF Typed, TypeOK, Progress, Runs
  <2>3. Sent(new)
    BY <2>1, <2>2 DEF Sent
  <2> HIDE DEF new
  <2> QED
    BY <2>1, <2>3 DEF Rows, Latest, NewerThan
<1>2. CASE Created /\ table # 3
  <2>1. /\ inflight' = inflight \cup {[row |-> row, table |-> table + 1, attempt |-> 1]}
        /\ stage = "posting" /\ row' = row /\ assessments' = assessments
    BY <1>2 DEF Created, Post, tables
  <2> QED
    BY <2>1 DEF Rows, Latest, NewerThan
<1>3. CASE Retry
  <2>1. /\ inflight' = inflight \cup {[row |-> row, table |-> table, attempt |-> attempt + 1]}
        /\ stage = "backoff" /\ row' = row /\ assessments' = assessments
    BY <1>3 DEF Retry, Post, tables
  <2> QED
    BY <2>1 DEF Rows, Latest, NewerThan
<1>4. ASSUME NEW m \in inflight, NEW answered \in BOOLEAN, Execute(m, answered)
      PROVE  Rows'
  <2>1. inflight' \subseteq inflight /\ UNCHANGED <<stage, row>> /\ Sent(m.row)
    BY <1>4 DEF Execute, job, writer, Rows
  <2>2. CASE m.table = 1 /\ Insertable(m)
    <3> DEFINE n == Cardinality(assessments) + 1
               new == [id |-> m.row.id, block |-> m.row.block, created |-> n,
                       assessment |-> m.row.assessment]
    <3>1. n \in Nat \ {0}
      BY FS_CardinalityType DEF Rows
    <3>2. assessments' = assessments \cup {new} /\ new.created = Cardinality(assessments) + 1
      BY <1>4, <2>2 DEF Execute
    <3>3. Stored(new)
      <4> HIDE DEF n
      <4> QED
        BY <2>1, <3>1, SentIsStored
    <3> HIDE DEF new
    <3>6. PICK w : w = new
      OBVIOUS
    <3>4. /\ IsFiniteSet(assessments')
          /\ \A r \in assessments' : Stored(r) /\ r.created <= Cardinality(assessments')
          /\ \A r, s \in assessments' : r.created = s.created => r = s
          /\ Latest(w)' \/ \E r \in assessments : Latest(r) /\ Latest(r)'
      BY <3>2, <3>3, <3>6, AddRow
    <3>5. \E r \in assessments' : Latest(r)'
      BY <3>2, <3>4, <3>6 DEF Latest
    <3> QED
      BY <2>1, <3>4, <3>5 DEF Rows, Sent, Stored
  <2>3. CASE ~(m.table = 1 /\ Insertable(m))
    <3>1. assessments' = assessments
      BY <1>4, <2>3 DEF Execute, tables
    <3> QED
      BY <2>1, <3>1 DEF Rows, Latest, NewerThan
  <2> QED
    BY <2>2, <2>3
<1>5. ASSUME inflight' \subseteq inflight, UNCHANGED assessments,
             stage' \in {"posting", "backoff"} => stage \in {"posting", "backoff"} /\ row' = row
      PROVE  Rows'
  BY <1>5 DEF Rows, Latest, NewerThan
<1>6. CASE Created /\ table = 3
  BY <1>5, <1>6 DEF Created, Report, Ends, tables
<1>7. CASE InsertFails
  BY <1>5, <1>7 DEF InsertFails, Report, Ends, tables
<1>8. CASE Dispatch \/ Killed \/ CollectFails \/ Tick \/ UNCHANGED vars
  BY <1>5, <1>8 DEF Dispatch, Killed, CollectFails, Report, Ends, Tick, vars, job, writer, tables
<1>9. ASSUME NEW m \in inflight, Refuse(m)
      PROVE  Rows'
  BY <1>5, <1>9 DEF Refuse, job, writer, tables
<1>10. ASSUME NEW what \in GatewayReplies, GatewayAnswers(what)
       PROVE  Rows'
  BY <1>5, <1>10 DEF GatewayAnswers, job, writer, tables
<1> QED
  BY <1>1, <1>2, <1>3, <1>4, <1>6, <1>7, <1>8, <1>9, <1>10
     DEF Next, Run, RunStep, Database, Quiescent

------------------------------------------------------------------------------
(* The board. *)

\* A row may still be acted on; it is whole, and its time has come.
Live(r) == r.assessment.score # NoScore /\ now < r.assessment.freshness.expires_at
Ripe(r) ==
  r.id \in snapshots /\ r.id \in evidence /\ r.assessment.computed_at <= now

\* The reader sees the newest row, for as long as it is ripe and live.
Sees(r) ==
  /\ Usable(Served) <=> Ripe(r) /\ Live(r)
  /\ Usable(Served) => Served.assessment_id = r.id
                       /\ Served.calculated_at = r.assessment.computed_at
  /\ Shown = [at |-> r.assessment.computed_at, run |-> r.id]
  /\ Standing = IF Ripe(r) /\ Live(r) THEN "offered"
                ELSE IF Live(r) THEN "announced" ELSE "withdrawn"

ReaderSeesLatest == Typed /\ Rows => \A r \in assessments : Latest(r) => Sees(r)

LEMMA ReaderSees == ReaderSeesLatest
<1> SUFFICES ASSUME Typed, Rows, NEW r \in assessments, Latest(r)
             PROVE  Sees(r)
  BY DEF ReaderSeesLatest
<1>1. Newest = r /\ assessments # {}
  BY NewestIsLatest
<1>2. PICK id \in Runs, b \in Nat, at \in Int, complete \in BOOLEAN, n \in Nat \ {0} :
        b <= at /\ r = [id |-> id, block |-> b, created |-> n,
                        assessment |-> Assess(id, b, at, 50, complete)]
  BY DEF Rows, Stored
<1> DEFINE a == Assess(id, b, at, 50, complete)
           snap == id \in snapshots
           ev == id \in evidence
<1>3. a.computed_at = at
  BY DEF Assess
<1>4. r.id = id /\ r.assessment = a /\ id # NoId
  <2> HIDE DEF a
  <2> QED
    BY <1>2, Bounds DEF a, NoId, Runs
<1>5. now \in Int /\ snap \in BOOLEAN /\ ev \in BOOLEAN
  BY Bounds DEF Typed, TypeOK
<1>6. Served = DatabaseResult([assessment |-> a, snapshot |-> snap, evidence |-> ev], now)
  BY <1>1, <1>4 DEF Served
<1> HIDE DEF snap, ev
<1>7. /\ Usable(Served) <=> id # NoId /\ snap /\ ev /\ at <= now
                            /\ a.score # NoScore /\ now < a.freshness.expires_at
      /\ Usable(Served) => Served.assessment_id = id /\ Served.calculated_at = at
  <2>1. PICK x \in BOOLEAN, y \in BOOLEAN, t \in Int : x = snap /\ y = ev /\ t = now
    BY <1>5
  <2> DEFINE result == DatabaseResult([assessment |-> a, snapshot |-> x, evidence |-> y], t)
  <2>4. Offers(a, x, y, t)
    BY <1>2, OfferedWhile
  <2>5. a.id = id
    BY DEF Assess
  <2> HIDE DEF a
  <2>2. /\ Usable(result) <=> /\ id # NoId /\ x /\ y /\ at <= t
                              /\ a.score # NoScore /\ t < a.freshness.expires_at
        /\ Usable(result) => result.assessment_id = id /\ result.calculated_at = at
    BY <1>3, <2>4, <2>5 DEF Offers
  <2>3. Served = result
    BY <1>6, <2>1
  <2> HIDE DEF result
  <2> QED
    BY <2>1, <2>2, <2>3
<1> HIDE DEF a
<1>8. /\ Usable(Served) <=> Ripe(r) /\ Live(r)
      /\ Usable(Served) => Served.assessment_id = r.id
                           /\ Served.calculated_at = r.assessment.computed_at
  BY <1>3, <1>4, <1>7 DEF Ripe, Live, snap, ev
<1>9. Shown = [at |-> r.assessment.computed_at, run |-> r.id]
  BY <1>1 DEF Shown
<1>10. Standing = IF Ripe(r) /\ Live(r) THEN "offered"
                  ELSE IF Live(r) THEN "announced" ELSE "withdrawn"
  BY <1>1, <1>8 DEF Standing, Live
<1> QED
  BY <1>8, <1>9, <1>10 DEF Sees

\* The newest row stays: time and its companions only move it along the board.
LEMMA SameRow ==
  ASSUME Typed, Rows, Typed', Rows', NEW r \in assessments, r \in assessments',
         Latest(r), Latest(r)', now' >= now,
         snapshots \subseteq snapshots', evidence \subseteq evidence'
  PROVE  [Board!Next]_(Board!vars)
<1>1. Sees(r)
  BY ReaderSees DEF ReaderSeesLatest
<1>2. ReaderSeesLatest'
  BY ReaderSees, PTL
<1>3. Sees(r)'
  BY <1>2 DEF ReaderSeesLatest
<1>4. /\ now \in Int /\ now' \in Int /\ r.assessment.computed_at \in Int
      /\ r.assessment.freshness.expires_at \in Int
  BY StoredFields, Bounds DEF Typed, TypeOK, Rows
<1>5. Ripe(r) => Ripe(r)'
  BY <1>4 DEF Ripe
<1>6. Live(r)' => Live(r)
  BY <1>4 DEF Live
<1>7. Shown' = Shown
  BY <1>1, <1>3 DEF Sees
<1>8. /\ Standing = "withdrawn" => Standing' = "withdrawn"
      /\ Standing = "offered" => Standing' \in {"offered", "withdrawn"}
      /\ Standing \in {"announced", "offered", "withdrawn"}
      /\ Standing' \in {"announced", "offered", "withdrawn"}
  BY <1>1, <1>3, <1>5, <1>6 DEF Sees
<1> QED
  BY <1>7, <1>8 DEF Board!Next, Board!Offer, Board!Withdraw, Board!vars

\* A new newest row: later than the last one, and nobody may act on it yet.
LEMMA NewRow ==
  ASSUME Typed, Rows, Typed', Rows', NEW w, assessments' = assessments \cup {w}, Latest(w)',
         w.id \notin Ids, UNCHANGED <<snapshots, evidence>>, WritesAreOrdered
  PROVE  Board!Announce
<1>1. ReaderSeesLatest'
  BY ReaderSees, PTL
<1>2. Sees(w)' /\ w \in assessments'
  BY <1>1 DEF ReaderSeesLatest, Latest
<1>3. w.id \notin snapshots'
  BY DEF WritesAreOrdered
<1>4. Standing' \in {"announced", "withdrawn"}
  BY <1>2, <1>3 DEF Sees, Ripe
<1>5. /\ Shown' = [at |-> w.assessment.computed_at, run |-> w.id]
      /\ w.id \in Runs /\ w.assessment.computed_at \in Nat
  <2>1. Stored(w)
    BY <1>2 DEF Rows, Stored
  <2> QED
    BY <1>2, <2>1, StoredFields DEF Sees
<1>6. Shown'.at = w.assessment.computed_at /\ Shown'.run = w.id
  BY <1>5
<1>7. Shown' # [at |-> -1, run |-> 0]
  BY <1>5, <1>6, Bounds DEF Runs
<1>8. CASE assessments = {}
  <2>1. Shown = [at |-> -1, run |-> 0] /\ Shown.at = -1
    BY <1>8 DEF Shown
  <2>2. Shown'.at >= Shown.at /\ Shown' # Shown
    BY <1>5, <1>6, <1>7, <2>1
  <2> QED
    BY <1>4, <1>7, <2>2 DEF Board!Announce, Board!Nothing
<1>9. CASE assessments # {}
  <2>1. PICK r \in assessments : Latest(r)
    BY <1>9 DEF Rows
  <2>2. Shown = [at |-> r.assessment.computed_at, run |-> r.id]
    BY <2>1, ReaderSees DEF Sees, ReaderSeesLatest
  <2>3. Shown.at = r.assessment.computed_at /\ Shown.run = r.id
    BY <2>2
  <2>4. r.id # w.id
    BY DEF Ids
  <2>5. NewerThan(w, r) /\ r.assessment.computed_at \in Nat
    BY <2>4, StoredFields DEF Latest, Rows, NewerThan
  <2>6. Shown'.at >= Shown.at /\ Shown' # Shown
    BY <1>5, <1>6, <2>3, <2>4, <2>5 DEF NewerThan
  <2> QED
    BY <1>4, <1>7, <2>6 DEF Board!Announce, Board!Nothing
<1> QED
  BY <1>8, <1>9

\* A step without a new row.
LEMMA NoNewRow ==
  ASSUME Typed, Rows, Typed', Rows', UNCHANGED assessments, now' >= now,
         snapshots \subseteq snapshots', evidence \subseteq evidence'
  PROVE  [Board!Next]_(Board!vars)
<1>1. CASE assessments = {}
  <2>1. Shown' = Shown /\ Standing' = Standing
    BY <1>1 DEF Shown, Standing
  <2> QED
    BY <2>1 DEF Board!vars
<1>2. CASE assessments # {}
  <2>1. PICK r \in assessments : Latest(r)
    BY <1>2 DEF Rows
  <2>2. Latest(r)' /\ r \in assessments'
    BY <2>1 DEF Latest, NewerThan
  <2> QED
    BY <2>1, <2>2, SameRow
<1> QED
  BY <1>1, <1>2

LEMMA StepOnBoard ==
  Typed /\ Books /\ Rows /\ Typed' /\ Rows' /\ [Next]_vars => [Board!Next]_(Board!vars)
<1> SUFFICES ASSUME Typed, Books, Rows, Typed', Rows', [Next]_vars
             PROVE  [Board!Next]_(Board!vars)
  OBVIOUS
<1>1. now \in Int
  BY Bounds DEF Typed, TypeOK
<1>2. ASSUME NEW m \in inflight, NEW answered \in BOOLEAN, Execute(m, answered)
      PROVE  [Board!Next]_(Board!vars)
  <2>1. now' = now
    BY <1>2 DEF Execute, clocks
  <2>2. CASE m.table = 1 /\ Insertable(m)
    <3> DEFINE new == [id |-> m.row.id, block |-> m.row.block,
                       created |-> Cardinality(assessments) + 1,
                       assessment |-> m.row.assessment]
    <3>1. /\ assessments' = assessments \cup {new}
          /\ UNCHANGED <<snapshots, evidence>>
      BY <1>2, <2>2 DEF Execute
    <3>2. new.id \notin Ids
      BY <2>2, InsertableTables DEF Ids
    <3>3. Cardinality(assessments) + 1 \in Nat \ {0}
      BY FS_CardinalityType DEF Rows
    <3>4. Stored(new) /\ new.created = Cardinality(assessments) + 1
      BY <3>3, SentIsStored DEF Rows
    <3> HIDE DEF new
    <3>5. PICK w : w = new
      OBVIOUS
    <3>6. Latest(w)' \/ \E r \in assessments : Latest(r) /\ Latest(r)'
      BY <3>1, <3>4, <3>5, AddRow
    <3>7. CASE Latest(w)'
      <4>1. WritesAreOrdered
        BY OrderedWrites DEF Books
      <4>2. Board!Announce
        BY <3>1, <3>2, <3>5, <3>7, <4>1, NewRow
      <4> QED
        BY <4>2 DEF Board!Next
    <3>8. CASE \E r \in assessments : Latest(r) /\ Latest(r)'
      BY <1>1, <2>1, <3>1, <3>8, SameRow
    <3> QED
      BY <3>6, <3>7, <3>8
  <2>3. CASE ~(m.table = 1 /\ Insertable(m))
    <3>1. /\ assessments' = assessments
          /\ snapshots \subseteq snapshots' /\ evidence \subseteq evidence'
      BY <1>2, <2>3 DEF Execute, tables
    <3> QED
      BY <1>1, <2>1, <3>1, NoNewRow
  <2> QED
    BY <2>2, <2>3
<1>3. CASE UNCHANGED tables /\ now' \in {now, now + 1}
  BY <1>1, <1>3, NoNewRow DEF tables
<1>4. \/ UNCHANGED tables /\ now' \in {now, now + 1}
      \/ \E m \in inflight, answered \in BOOLEAN : Execute(m, answered)
  BY DEF Next, Run, RunStep, Database, Quiescent, vars, tables, clocks, Dispatch, Killed,
         CollectFails, Collect, Created, InsertFails, Retry, Refuse, GatewayAnswers, Tick
<1> QED
  BY <1>2, <1>3, <1>4

LEMMA InitOnBoard == Init => Board!Init
  BY DEF Init, Shown, Standing, Board!Init, Board!Nothing

LEMMA RowInvariance == Spec => [](Typed /\ Books /\ Rows)
<1>1. Init => Rows
  BY InitRows
<1>2. Typed /\ Rows /\ [Next]_vars => Rows'
  BY StepRows
<1> QED
  BY <1>1, <1>2, Invariance, PTL DEF Spec

\* BoardNeverTurnsBack, for any number of runs, clocks however wrong, and inserts
\* executed late, twice or never: the tables are one board, step by step.
THEOREM PublicationIsABoard == Spec => BoardNeverTurnsBack
<1>1. Init => Board!Init
  BY InitOnBoard
<1>2. (Typed /\ Books /\ Rows) /\ (Typed /\ Books /\ Rows)' /\ [Next]_vars
        => [Board!Next]_(Board!vars)
  BY StepOnBoard
<1> QED
  BY <1>1, <1>2, RowInvariance, PTL DEF Spec, BoardNeverTurnsBack, Board!Spec

\* One row precedes all others at any time, and the reader asks only for it.
LEMMA NewestIsServed == Typed /\ Rows => ServedIsWhole
<1> SUFFICES ASSUME Typed, Rows, Usable(Served)
             PROVE  /\ Served.assessment_id \in snapshots \cap evidence
                    /\ \A r \in assessments : r.assessment.computed_at <= Served.calculated_at
  BY DEF ServedIsWhole
<1>1. assessments # {}
  <2>1. assessments = {} => Served = Unavailable("NO_ASSESSMENT")
    BY DEF Served
  <2> QED
    BY <2>1 DEF Unavailable, Usable, Actionable
<1>2. PICK r \in assessments : Latest(r)
  BY <1>1 DEF Rows
<1>3. Sees(r)
  BY <1>2, ReaderSees DEF ReaderSeesLatest
<1>4. Served.assessment_id \in snapshots \cap evidence
  BY <1>3 DEF Sees, Ripe
<1>5. \A s \in assessments : s.assessment.computed_at <= r.assessment.computed_at
  <2>1. \A s \in assessments : s.assessment.computed_at \in Nat
    BY StoredFields DEF Rows
  <2> QED
    BY <1>2, <2>1 DEF Latest, NewerThan
<1> QED
  BY <1>3, <1>4, <1>5 DEF Sees

\* ServedIsWhole: nothing is served of a publication that is partial or not the newest.
THEOREM ServedIsAlwaysWhole == Spec => []ServedIsWhole
  BY NewestIsServed, RowInvariance, PTL

------------------------------------------------------------------------------
(* Reports and dates: "ok" means served. *)

\* A run that reported ok has its rows in all three tables, whatever the gateways say.
Completed == \A p \in reports : p.status = "ok" => \A t \in Tables : Committed(p.run, t)

LEMMA StepCompleted == Typed /\ Books /\ Completed /\ [Next]_vars => Completed'
<1> SUFFICES ASSUME Typed, Books, Completed, [Next]_vars
             PROVE  Completed'
  OBVIOUS
<1>1. ASSUME NEW new, new.status = "failed", reports' \subseteq reports \cup {new},
             UNCHANGED tables
      PROVE  Completed'
  <2>1. \A p \in reports' : p.status = "ok" => p \in reports
    BY <1>1
  <2> QED
    BY <1>1, <2>1, NothingExecuted DEF Completed
<1>2. CASE Created
  <2>1. CASE table = 3
    <3> DEFINE new == [run |-> runs, status |-> "ok", table |-> 0, unknown |-> FALSE]
    <3>1. /\ reports' = reports \cup {new} /\ UNCHANGED tables
          /\ stage = "posting" /\ reply = "created"
      BY <1>2, <2>1 DEF Created, Report
    <3>2. new.run = runs
      OBVIOUS
    <3>3. \A t \in Tables : Committed(runs, t)
      BY <2>1, <3>1 DEF Books, CurrentRun, Tables
    <3> HIDE DEF new
    <3> QED
      BY <3>1, <3>2, <3>3, NothingExecuted DEF Completed
  <2>2. CASE table # 3
    <3>1. UNCHANGED <<reports, tables>>
      BY <1>2, <2>2 DEF Created
    <3> QED
      BY <3>1, NothingExecuted DEF Completed
  <2> QED
    BY <2>1, <2>2
<1>3. CASE InsertFails
  <2>1. PICK new : new = [run |-> runs, status |-> "failed", table |-> table,
                          unknown |-> ambiguous \/ Ambiguous]
    OBVIOUS
  <2>2. /\ new.status = "failed" /\ reports' \subseteq reports \cup {new}
        /\ UNCHANGED tables
    BY <1>3, <2>1 DEF InsertFails, Report
  <2> QED
    BY <1>1, <2>2
<1>4. CASE CollectFails
  <2>1. PICK new : new = [run |-> runs, status |-> "failed", table |-> 0, unknown |-> FALSE]
    OBVIOUS
  <2>2. /\ new.status = "failed" /\ reports' \subseteq reports \cup {new}
        /\ UNCHANGED tables
    BY <1>4, <2>1 DEF CollectFails, Report
  <2> QED
    BY <1>1, <2>2
<1>5. ASSUME NEW m \in inflight, NEW answered \in BOOLEAN, Execute(m, answered)
      PROVE  Completed'
  <2>1. m.table \in Tables /\ reports' = reports
    BY <1>5 DEF Execute, Typed, TypeOK
  <2>2. ASSUME NEW run, NEW t \in Tables, Committed(run, t)
        PROVE  Committed(run, t)'
    BY <1>5, <2>1, <2>2, ExecuteCommits
  <2> QED
    BY <2>1, <2>2 DEF Completed
<1>6. \/ UNCHANGED <<reports, tables>>
      \/ Created \/ InsertFails \/ CollectFails
      \/ \E m \in inflight, answered \in BOOLEAN : Execute(m, answered)
  BY DEF Next, Run, RunStep, Database, Quiescent, vars, Dispatch, Killed,
         Collect, Retry, Refuse, GatewayAnswers, Tick
<1>7. CASE UNCHANGED <<reports, tables>>
  BY <1>7, NothingExecuted DEF Completed
<1> QED
  BY <1>2, <1>3, <1>4, <1>5, <1>6, <1>7

\* The runs' assessments, published, on their way or about to be sent, by run and date.
Dates ==
  {<<r.id, r.assessment.computed_at>> : r \in assessments}
  \cup {<<m.row.id, m.row.assessment.computed_at>> : m \in inflight}
  \cup {<<r.id, r.assessment.computed_at>> : r \in IF stage \in {"posting", "backoff"} THEN {row} ELSE {}}

\* A later run computed later, and no one ahead of the database's clock.
Dated ==
  /\ \A d \in Dates :
       /\ d[1] \in Nat /\ d[1] <= runs /\ d[2] \in Int /\ d[2] <= now
       /\ stage = "collecting" => d[1] < runs /\ d[2] <= started
  /\ \A d, e \in Dates : d[1] < e[1] => d[2] < e[2]

LEMMA InitDated == Init => Dated
<1> SUFFICES ASSUME Init PROVE Dated
  OBVIOUS
<1>1. Dates = {}
  BY DEF Init, Dates
<1> QED
  BY <1>1 DEF Dated

LEMMA StepDated ==
  ASSUME ClockErrors = {0}
  PROVE  Typed /\ Dated /\ [Next]_vars => Dated'
<1> SUFFICES ASSUME Typed, Dated, [Next]_vars
             PROVE  Dated'
  OBVIOUS
<1>1. runs \in Nat /\ now \in Int /\ started \in Int /\ started <= now
  BY Bounds DEF Typed, TypeOK
<1>2. ASSUME Dates' \subseteq Dates, now' \in {now, now + 1},
             \/ runs' = runs /\ started' = started /\ (stage' = "collecting" => stage = "collecting")
             \/ runs' = runs + 1 /\ started' = now
             \/ runs' = runs /\ stage' # "collecting"
      PROVE  Dated'
  BY <1>1, <1>2 DEF Dated
<1>3. CASE \E error \in ClockErrors, complete \in BOOLEAN : Collect(error, complete)
  <2>1. PICK complete \in BOOLEAN : Collect(0, complete)
    BY <1>3
  <2> DEFINE new == [id |-> runs, block |-> safe,
                     assessment |-> Assess(runs, safe, now + 0, 50, complete)]
  <2>2. /\ row' = new /\ inflight' = inflight \cup {[row |-> new, table |-> 1, attempt |-> 1]}
        /\ assessments' = assessments /\ stage = "collecting" /\ now > started
        /\ runs' = runs /\ now' = now /\ stage' = "posting"
    BY <2>1 DEF Collect, Post, tables, clocks
  <2>3. new.id = runs /\ new.assessment.computed_at = now
    BY <1>1 DEF Assess
  <2> HIDE DEF new
  <2>4. Dates' \subseteq Dates \cup {<<runs, now>>}
    BY <2>2, <2>3 DEF Dates
  <2> QED
    BY <1>1, <2>2, <2>4 DEF Dated
<1>4. CASE Created
  <2>1. CASE table = 3
    <3>1. /\ inflight' = inflight /\ assessments' = assessments /\ stage' = "idle"
          /\ now' = now /\ runs' = runs
      BY <1>4, <2>1 DEF Created, Report, Ends, tables, clocks
    <3>2. Dates' \subseteq Dates
      BY <3>1 DEF Dates
    <3> QED
      BY <1>2, <3>1, <3>2
  <2>2. CASE table # 3
    <3>1. /\ inflight' = inflight \cup {[row |-> row, table |-> table + 1, attempt |-> 1]}
          /\ stage = "posting" /\ stage' = stage /\ row' = row /\ assessments' = assessments
          /\ now' = now /\ runs' = runs
      BY <1>4, <2>2 DEF Created, Post, tables, clocks
    <3>2. Dates' \subseteq Dates
      BY <3>1 DEF Dates
    <3> QED
      BY <1>2, <3>1, <3>2
  <2> QED
    BY <2>1, <2>2
<1>5. CASE Retry
  <2>1. /\ inflight' = inflight \cup {[row |-> row, table |-> table, attempt |-> attempt + 1]}
        /\ stage = "backoff" /\ stage' = "posting" /\ row' = row /\ assessments' = assessments
        /\ now' = now /\ runs' = runs
    BY <1>5 DEF Retry, Post, tables, clocks
  <2>2. Dates' \subseteq Dates
    BY <2>1 DEF Dates
  <2> QED
    BY <1>2, <2>1, <2>2
<1>6. ASSUME NEW m \in inflight, NEW answered \in BOOLEAN, Execute(m, answered)
      PROVE  Dated'
  <2>1. /\ inflight' \subseteq inflight /\ UNCHANGED <<stage, row, runs, started>> /\ now' = now
    BY <1>6 DEF Execute, job, writer, clocks
  <2>2. CASE m.table = 1 /\ Insertable(m)
    <3> DEFINE new == [id |-> m.row.id, block |-> m.row.block,
                       created |-> Cardinality(assessments) + 1,
                       assessment |-> m.row.assessment]
    <3>1. assessments' = assessments \cup {new}
      BY <1>6, <2>2 DEF Execute
    <3>2. new.id = m.row.id /\ new.assessment = m.row.assessment
      OBVIOUS
    <3> HIDE DEF new
    <3>3. Dates' \subseteq Dates
      BY <2>1, <3>1, <3>2 DEF Dates
    <3> QED
      BY <1>2, <2>1, <3>3
  <2>3. CASE ~(m.table = 1 /\ Insertable(m))
    <3>1. assessments' = assessments
      BY <1>6, <2>3 DEF Execute, tables
    <3>2. Dates' \subseteq Dates
      BY <2>1, <3>1 DEF Dates
    <3> QED
      BY <1>2, <2>1, <3>2
  <2> QED
    BY <2>2, <2>3
<1>7. CASE InsertFails
  <2>1. /\ inflight' = inflight /\ assessments' = assessments /\ now' = now /\ runs' = runs
        /\ \/ stage = "posting" /\ stage' = "backoff" /\ row' = row
           \/ stage' = "idle"
    BY <1>7 DEF InsertFails, Report, Ends, tables, clocks
  <2>2. Dates' \subseteq Dates
    BY <2>1 DEF Dates
  <2> QED
    BY <1>2, <2>1, <2>2
<1>8. CASE Dispatch \/ Killed \/ CollectFails
  <2>1. /\ inflight' = inflight /\ assessments' = assessments /\ now' = now
        /\ \/ stage' = "collecting" /\ runs' = runs + 1 /\ started' = now
           \/ stage' = "idle" /\ runs' = runs
    BY <1>8 DEF Dispatch, Killed, CollectFails, Report, Ends, tables, clocks
  <2>2. Dates' \subseteq Dates
    BY <2>1 DEF Dates
  <2> QED
    BY <1>2, <2>1, <2>2
<1>9. CASE \/ Tick \/ UNCHANGED vars
           \/ \E m \in inflight : Refuse(m)
           \/ \E what \in GatewayReplies : GatewayAnswers(what)
  <2>1. /\ inflight' \subseteq inflight /\ assessments' = assessments /\ now' \in {now, now + 1}
        /\ UNCHANGED <<stage, row, runs, started>>
    BY <1>9 DEF Tick, Refuse, GatewayAnswers, vars, job, writer, tables, clocks
  <2>2. Dates' \subseteq Dates
    BY <2>1 DEF Dates
  <2> QED
    BY <1>2, <2>1, <2>2
<1> QED
  BY <1>3, <1>4, <1>5, <1>6, <1>7, <1>8, <1>9 DEF Next, Run, RunStep, Database, Quiescent

\* The newest row is the last run's, as long as no one's clock is wrong.
LEMMA LastIsServed == Typed /\ Rows /\ Completed /\ Dated /\ NoDuplicates => OkIsServed
<1> SUFFICES ASSUME Typed, Rows, Completed, Dated, NoDuplicates,
                    NEW p \in reports, p.status = "ok", \A r \in assessments : r.id <= p.run
             PROVE  LET r == CHOOSE s \in assessments : s.id = p.run IN
                    r.assessment.score # NoScore /\ now < r.assessment.freshness.expires_at
                    => Usable(Served) /\ Served.assessment_id = p.run
  BY DEF OkIsServed
<1>1. p.run \in Ids /\ p.run \in snapshots /\ p.run \in evidence
  BY CommittedTables DEF Completed, Tables
<1>2. PICK s \in assessments : s.id = p.run
  BY <1>1 DEF Ids
<1>3. PICK r \in assessments : Latest(r)
  BY <1>2 DEF Rows
<1>4. /\ r.id \in Nat /\ s.id \in Nat
      /\ r.assessment.computed_at \in Int /\ s.assessment.computed_at \in Int
  BY StoredFields, Bounds DEF Rows, Runs
<1>5. r.id = p.run
  <2> SUFFICES ASSUME r.id # p.run PROVE FALSE
    OBVIOUS
  <2>1. r.id < s.id
    BY <1>2, <1>4
  <2>2. <<r.id, r.assessment.computed_at>> \in Dates /\ <<s.id, s.assessment.computed_at>> \in Dates
    BY DEF Dates
  <2>3. r.assessment.computed_at < s.assessment.computed_at
    BY <2>1, <2>2 DEF Dated
  <2>4. NewerThan(r, s)
    BY <1>2, <1>3 DEF Latest
  <2> QED
    BY <1>4, <2>3, <2>4 DEF NewerThan
<1>6. (CHOOSE x \in assessments : x.id = p.run) = r
  BY <1>5 DEF NoDuplicates
<1>7. Sees(r)
  BY <1>3, ReaderSees DEF ReaderSeesLatest
<1>8. Ripe(r)
  <2>1. <<r.id, r.assessment.computed_at>> \in Dates
    BY DEF Dates
  <2> QED
    BY <1>1, <1>5, <2>1 DEF Ripe, Dated
<1> QED
  BY <1>5, <1>6, <1>7, <1>8 DEF Sees, Live

\* OkIsServed, if the runners' clocks are right: whatever earlier runs left open, and
\* whatever the gateways answer, the last published run that reported ok is what the
\* reader gets until it expires.
THEOREM OkMeansServed ==
  ASSUME ClockErrors = {0}
  PROVE  Spec => []OkIsServed
<1>1. Init => Completed
  BY DEF Init, Completed
<1>2. Typed /\ Books /\ Completed /\ [Next]_vars => Completed'
  BY StepCompleted
<1>3. Init => Dated
  BY InitDated
<1>4. Typed /\ Dated /\ [Next]_vars => Dated'
  BY StepDated
<1>5. Typed /\ Rows /\ Completed /\ Dated /\ NoDuplicates => OkIsServed
  BY LastIsServed
<1> QED
  BY <1>1, <1>2, <1>3, <1>4, <1>5, RowInvariance, KeysPreventDuplicates, PTL DEF Spec

------------------------------------------------------------------------------
(* The publication while it is read. *)

\* The publisher does not notice the Worker.
LEMMA StepOfPublication == [SystemNext]_system => [Next]_vars
  BY DEF SystemNext, Publish, AnswerRequest, ReceiveAnswer, CheckAgain, NextBuyer, Next, system

LEMMA PublicationUndisturbed == SystemSpec => [](Typed /\ Books /\ Rows)
<1>1. SystemInit => Typed /\ Books /\ Rows
  BY InitTyped, InitBooks, InitRows DEF SystemInit
<1>2. Typed /\ Books /\ Rows /\ [SystemNext]_system => (Typed /\ Books /\ Rows)'
  BY StepOfPublication, StepTyped, StepBooks, StepRows
<1> QED
  BY <1>1, <1>2, PTL DEF SystemSpec

\* Tables only grow.
LEMMA TablesGrow ==
  [Next]_vars =>
    /\ assessments \subseteq assessments'
    /\ snapshots \subseteq snapshots' /\ evidence \subseteq evidence'
<1> SUFFICES ASSUME [Next]_vars
             PROVE  /\ assessments \subseteq assessments'
                    /\ snapshots \subseteq snapshots' /\ evidence \subseteq evidence'
  OBVIOUS
<1>1. ASSUME NEW m \in inflight, NEW answered \in BOOLEAN, Execute(m, answered)
      PROVE  /\ assessments \subseteq assessments'
             /\ snapshots \subseteq snapshots' /\ evidence \subseteq evidence'
  BY <1>1 DEF Execute, tables
<1>2. \/ UNCHANGED tables
      \/ \E m \in inflight, answered \in BOOLEAN : Execute(m, answered)
  BY DEF Next, Run, RunStep, Database, Quiescent, vars, tables, clocks, Dispatch, Killed,
         CollectFails, Collect, Created, InsertFails, Retry, Refuse, GatewayAnswers, Tick
<1> QED
  BY <1>1, <1>2 DEF tables

------------------------------------------------------------------------------
(* What the database and the Worker do to one reply. *)

\* A reply is a record of these fields.
Reply(a) ==
  a = [assessment_id |-> a.assessment_id, status |-> a.status,
       freshness_status |-> a.freshness_status, reason |-> a.reason, score |-> a.score,
       calculated_at |-> a.calculated_at, fresh_until |-> a.fresh_until,
       expires_at |-> a.expires_at, unknown_after |-> a.unknown_after]

LEMMA UnavailableReply ==
  ASSUME NEW reason
  PROVE  LET u == Worker!Unavailable(reason) IN
         Reply(u) /\ ~Usable(u) /\ u.calculated_at = NoTime
  BY DEF Worker!Unavailable, Worker!NoTime, NoTime, Reply, Usable, Actionable

\* Setting one of the other fields leaves these alone.
Keeps(v, a) ==
  /\ Reply(v) /\ v.calculated_at = a.calculated_at /\ v.assessment_id = a.assessment_id
  /\ v.expires_at = a.expires_at

LEMMA SetField ==
  ASSUME NEW a, Reply(a), NEW x
  PROVE  /\ Keeps([a EXCEPT !.status = x], a) /\ [a EXCEPT !.status = x].status = x
         /\ Keeps([a EXCEPT !.freshness_status = x], a)
         /\ [a EXCEPT !.freshness_status = x].status = a.status
         /\ Keeps([a EXCEPT !.reason = x], a) /\ [a EXCEPT !.reason = x].status = a.status
         /\ Keeps([a EXCEPT !.score = x], a) /\ [a EXCEPT !.score = x].status = a.status
<1>1. PICK p, q, r, s, t, u, v, w, y :
        a = [assessment_id |-> p, status |-> q, freshness_status |-> r, reason |-> s,
             score |-> t, calculated_at |-> u, fresh_until |-> v, expires_at |-> w,
             unknown_after |-> y]
  BY DEF Reply
<1>2. Keeps([a EXCEPT !.status = x], a) /\ [a EXCEPT !.status = x].status = x
  BY <1>1 DEF Keeps, Reply
<1>3. /\ Keeps([a EXCEPT !.freshness_status = x], a)
      /\ [a EXCEPT !.freshness_status = x].status = a.status
  BY <1>1 DEF Keeps, Reply
<1>4. Keeps([a EXCEPT !.reason = x], a) /\ [a EXCEPT !.reason = x].status = a.status
  BY <1>1 DEF Keeps, Reply
<1>5. Keeps([a EXCEPT !.score = x], a) /\ [a EXCEPT !.score = x].status = a.status
  BY <1>1 DEF Keeps, Reply
<1> QED
  BY <1>2, <1>3, <1>4, <1>5

\* A check keeps the assessment's name and dates; what passes it usable was usable and
\* has not expired by the clock that was read.
LEMMA CheckKeeps ==
  ASSUME NEW a, Reply(a), NEW t
  PROVE  LET v == Worker!ValidateAssessment(a, t) IN
         Keeps(v, a) /\ (Usable(v) => Usable(a) /\ (a.expires_at = NoTime \/ ~(t >= a.expires_at)))
<1> DEFINE v == Worker!ValidateAssessment(a, t)
           valid == a.expires_at = NoTime \/ ~(t >= a.expires_at)
<1>1. ASSUME NEW status, NEW level
      PROVE  LET w == [a EXCEPT !.status = status, !.freshness_status = level] IN
             Keeps(w, a) /\ w.status = status
  <2> DEFINE w1 == [a EXCEPT !.status = status]
             w2 == [w1 EXCEPT !.freshness_status = level]
  <2>1. Keeps(w1, a) /\ w1.status = status
    BY SetField
  <2> HIDE DEF w1
  <2>2. Keeps(w2, w1) /\ w2.status = w1.status
    BY <2>1, SetField DEF Keeps
  <2>3. w2 = [a EXCEPT !.status = status, !.freshness_status = level]
    BY DEF w1
  <2> HIDE DEF w2
  <2> QED
    BY <2>1, <2>2, <2>3 DEF Keeps
<1>2. ASSUME NEW status, NEW level
      PROVE  LET w == Worker!Mask(a, status, level) IN
             Keeps(w, a) /\ w.status = status
  <2> DEFINE w1 == [a EXCEPT !.status = status, !.freshness_status = level]
             w2 == [w1 EXCEPT !.reason = "EXPIRED_ASSESSMENT"]
             w3 == [w2 EXCEPT !.score = Worker!NoScore]
  <2>1. Keeps(w1, a) /\ w1.status = status
    BY <1>1
  <2> HIDE DEF w1
  <2>2. Keeps(w2, w1) /\ w2.status = w1.status
    BY <2>1, SetField DEF Keeps
  <2> HIDE DEF w2
  <2>3. Keeps(w3, w2) /\ w3.status = w2.status
    BY <2>2, SetField DEF Keeps
  <2>4. w3 = Worker!Mask(a, status, level)
    BY DEF w1, w2, Worker!Mask
  <2> HIDE DEF w3
  <2> QED
    BY <2>1, <2>2, <2>3, <2>4 DEF Keeps
<1>3. \/ \E level : v = Worker!Mask(a, "UNKNOWN", level) \/ v = Worker!Mask(a, "STALE", level)
      \/ valid /\ v = a
      \/ /\ valid /\ v = [a EXCEPT !.status = "DEGRADED", !.freshness_status = "degraded"]
         /\ a.status = "OK"
      \/ valid /\ v = [a EXCEPT !.status = a.status, !.freshness_status = "degraded"]
  BY Zenon DEF Worker!ValidateAssessment, Worker!NoTime, NoTime
<1> SUFFICES Keeps(v, a) /\ (Usable(v) => Usable(a) /\ valid)
  OBVIOUS
<1> HIDE DEF v, valid
<1>4. ASSUME NEW level, v = Worker!Mask(a, "UNKNOWN", level) \/ v = Worker!Mask(a, "STALE", level)
      PROVE  Keeps(v, a) /\ ~Usable(v)
  BY <1>2, <1>4 DEF Usable, Actionable
<1>5. CASE valid /\ v = a
  BY <1>5 DEF Keeps
<1>6. CASE /\ valid /\ v = [a EXCEPT !.status = "DEGRADED", !.freshness_status = "degraded"]
           /\ a.status = "OK"
  <2>1. Keeps(v, a) /\ Usable(a)
    BY <1>1, <1>6 DEF Usable, Actionable
  <2> QED
    BY <1>6, <2>1
<1>7. CASE valid /\ v = [a EXCEPT !.status = a.status, !.freshness_status = "degraded"]
  <2> DEFINE w == [a EXCEPT !.status = a.status, !.freshness_status = "degraded"]
  <2>1. Keeps(w, a) /\ w.status = a.status
    BY <1>1
  <2>2. v = w
    BY <1>7
  <2> HIDE DEF w
  <2>3. Keeps(v, a) /\ (Usable(v) => Usable(a))
    BY <2>1, <2>2 DEF Usable, Actionable
  <2> QED
    BY <1>7, <2>3
<1> QED
  BY <1>3, <1>4, <1>5, <1>6, <1>7

\* The Worker's database is the one the publisher writes: same function, same constants.
LEMMA SameFunction ==
  ASSUME NEW p, NEW t
  PROVE  Worker!DatabaseResult(p, t) = DatabaseResult(p, t)
  BY DEF Worker!DatabaseResult, DatabaseResult, Worker!Unavailable, Unavailable,
         Worker!Projection, Projection, Worker!InconsistentDeadlines, InconsistentDeadlines,
         Worker!DeliveredFreshness, DeliveredFreshness, Worker!NoId, NoId, Worker!NoTime, NoTime,
         Worker!NoScore, NoScore

\* What is answered of a row: its own time or none, and if it is usable the row is whole
\* and its assessment expires when its block is too old.
LEMMA RowAnswered ==
  ASSUME NEW id, NEW b \in Nat, NEW at \in Int, b <= at, NEW complete \in BOOLEAN,
         NEW snap \in BOOLEAN, NEW ev \in BOOLEAN, NEW t \in Int
  PROVE  LET a == Assess(id, b, at, 50, complete)
             r == DatabaseResult([assessment |-> a, snapshot |-> snap, evidence |-> ev], t)
         IN  /\ Reply(r) /\ r.calculated_at \in {NoTime, at}
             /\ Usable(r) => /\ r.assessment_id = id /\ snap /\ ev
                             /\ r.expires_at = b + StaleAge + 1
<1> DEFINE a == Assess(id, b, at, 50, complete)
           p == [assessment |-> a, snapshot |-> snap, evidence |-> ev]
           r == DatabaseResult(p, t)
<1>1. a.id = id /\ a.computed_at = at
  BY DEF Assess
<1>2. \/ \E reason : r = Unavailable(reason)
      \/ r = Projection(a, t)
  <2>1. p.assessment = a /\ p.snapshot = snap /\ p.evidence = ev
    OBVIOUS
  <2> HIDE DEF a, p
  <2> QED
    BY <2>1 DEF DatabaseResult
<1>3. \A reason : Reply(Unavailable(reason)) /\ Unavailable(reason).calculated_at = NoTime
  BY DEF Unavailable, Reply
<1>4. /\ Reply(Projection(a, t)) /\ Projection(a, t).calculated_at = at
      /\ Projection(a, t).expires_at = a.freshness.expires_at
  <2> HIDE DEF a
  <2> QED
    BY <1>1 DEF Projection, Reply
<1>5. ASSUME Usable(r)
      PROVE  r.assessment_id = id /\ snap /\ ev /\ r.expires_at = b + StaleAge + 1
  <2>1. r.assessment_id = id /\ snap /\ ev /\ a.score # NoScore
    <3>1. Offers(a, snap, ev, t)
      BY OfferedWhile
    <3> HIDE DEF a
    <3> QED
      BY <1>1, <1>5, <3>1 DEF Offers
  <2>2. at - b <= StaleAge
    BY <2>1, AssessOld, AgeAssumption
  <2>3. a.freshness.expires_at = b + StaleAge + 1
    BY <2>2, AssessCurrent
  <2>4. \A reason : ~Usable(Unavailable(reason))
    BY DEF Usable, Actionable, Unavailable
  <2> QED
    BY <1>2, <1>4, <1>5, <2>1, <2>3, <2>4
<1> HIDE DEF a, p, r
<1> QED
  BY <1>2, <1>3, <1>4, <1>5 DEF a, p, r

------------------------------------------------------------------------------
(* What buyers are told. *)

\* The times buyers can know of.
Times == {NoTime} \cup {r.assessment.computed_at : r \in assessments}

\* A reply speaks of a stored row; if it is usable the row is whole, and the reply
\* expires when the row's block is too old.
Told(a) ==
  /\ Reply(a) /\ a.calculated_at \in Times
  /\ Usable(a) => \E r \in assessments :
       /\ r.id = a.assessment_id /\ r.id \in snapshots \cap evidence
       /\ r.block \in Nat /\ a.expires_at = r.block + StaleAge + 1

\* No reply to this request is older than what was known when it began, and a usable one
\* passed its last check on a clock that may lag by so much.
Sound ==
  /\ known \in Times /\ Told(answer) /\ Told(shown)
  /\ request \in {"answered", "held"} =>
       answer.calculated_at = NoTime \/ answer.calculated_at >= known
  /\ request = "held" =>
       /\ checkedAt \in Int
       /\ shown.calculated_at = NoTime \/ shown.calculated_at >= known
       /\ Usable(shown) => checkedAt <= shown.expires_at - 1 + MaxBehind + (Milli - 1)

LEMMA TimesAreIntegers == Rows => Times \subseteq Int
  BY StoredFields DEF Rows, Times, NoTime

\* Replies outlive the growth of the tables.
LEMMA StillTold ==
  ASSUME [Next]_vars, NEW a, Told(a)
  PROVE  Told(a)' /\ Times \subseteq Times'
  BY TablesGrow DEF Told, Times

LEMMA SoundInit == SystemInit => Sound
<1> SUFFICES ASSUME SystemInit
             PROVE  Sound
  OBVIOUS
<1>1. answer = Unavailable("NO_ASSESSMENT") /\ shown = answer /\ request = "idle"
  BY DEF SystemInit
<1>2. Told(answer)
  BY <1>1 DEF Told, Reply, Times, Unavailable, Usable, Actionable
<1> QED
  BY <1>1, <1>2 DEF Sound, SystemInit, Times

\* The newest row there is, as the Worker's database reads it.
LEMMA NewestAnswered ==
  ASSUME Typed, Rows, NEW t \in Int
  PROVE  LET a == Worker!DatabaseResult(NewestPublication, t) IN
         /\ Told(a)
         /\ a.calculated_at = NoTime \/ \A u \in Times : a.calculated_at >= u
<1> DEFINE a == Worker!DatabaseResult(NewestPublication, t)
<1>1. CASE assessments = {}
  <2>1. PICK p : p = NewestPublication
    OBVIOUS
  <2>2. p.assessment.id = NoId
    <3>1. PICK w : w = NoRow.assessment
      OBVIOUS
    <3>2. w.id = NoId
      BY <3>1 DEF NoRow, Assess
    <3>3. p = [assessment |-> w, snapshot |-> FALSE, evidence |-> FALSE]
      BY <1>1, <2>1, <3>1 DEF NewestPublication
    <3> QED
      BY <3>2, <3>3
  <2>3. Worker!DatabaseResult(p, t) = Unavailable("NO_ASSESSMENT")
    BY <2>2, SameFunction DEF DatabaseResult
  <2>4. a = Unavailable("NO_ASSESSMENT")
    BY <2>1, <2>3
  <2> HIDE DEF a
  <2> QED
    BY <2>4 DEF Told, Reply, Times, Unavailable, Usable, Actionable, a
<1>2. CASE assessments # {}
  <2>1. PICK r \in assessments : Latest(r)
    BY <1>2 DEF Rows
  <2>2. Newest = r
    BY <2>1, NewestIsLatest
  <2>3. PICK id \in Runs, b \in Nat, at \in Int, complete \in BOOLEAN, n \in Nat \ {0} :
          b <= at /\ r = [id |-> id, block |-> b, created |-> n,
                          assessment |-> Assess(id, b, at, 50, complete)]
    BY DEF Rows, Stored
  <2> DEFINE x == Assess(id, b, at, 50, complete)
  <2>4. PICK snap \in BOOLEAN, ev \in BOOLEAN : snap = (id \in snapshots) /\ ev = (id \in evidence)
    <3>1. (id \in snapshots) \in BOOLEAN /\ (id \in evidence) \in BOOLEAN
      OBVIOUS
    <3> QED
      BY <3>1, Zenon
  <2> DEFINE p == [assessment |-> x, snapshot |-> snap, evidence |-> ev]
             y == DatabaseResult(p, t)
  <2>5. NewestPublication = p
    <3>1. r.id = id /\ r.assessment = x
      <4> HIDE DEF x
      <4> QED
        BY <2>3 DEF x
    <3> HIDE DEF x
    <3> QED
      BY <1>2, <2>2, <2>4, <3>1 DEF NewestPublication
  <2>6. a = y
    BY <2>5, SameFunction
  <2>7. /\ Reply(y) /\ y.calculated_at \in {NoTime, at}
        /\ Usable(y) => /\ y.assessment_id = id /\ snap /\ ev
                        /\ y.expires_at = b + StaleAge + 1
    BY <2>3, RowAnswered
  <2>8. r.id = id /\ r.block = b /\ r.assessment.computed_at = at
    <3>1. x.computed_at = at
      BY DEF Assess
    <3> HIDE DEF x
    <3> QED
      BY <2>3, <3>1 DEF x
  <2>9. \A u \in Times : u <= at
    <3>1. \A s \in assessments : s.assessment.computed_at \in Nat
      BY StoredFields DEF Rows
    <3>2. \A s \in assessments : s.assessment.computed_at <= at
      BY <2>1, <2>8, <3>1 DEF Latest, NewerThan
    <3> QED
      BY <2>1, <2>8, <3>1, <3>2 DEF Times, NoTime
  <2> HIDE DEF x, y, a
  <2>10. Told(a)
    BY <2>1, <2>4, <2>6, <2>7, <2>8 DEF Told, Times
  <2> QED
    BY <2>3, <2>6, <2>7, <2>9, <2>10, TimesAreIntegers DEF a
<1> QED
  BY <1>1, <1>2

\* Knowing something takes it from a row or from a reply.
LEMMA LearnKnows ==
  ASSUME Sound, Rows, Learn
  PROVE  known' \in Times
<1>1. ReportedTimes \subseteq Times
  BY DEF ReportedTimes, Times
<1>2. Delivered \subseteq Times
  BY DEF Delivered, Sound, Told
<1> QED
  BY <1>1, <1>2 DEF Learn, Sound

\* One check of a reply to this request.
LEMMA CheckSound ==
  ASSUME Typed, Sound, NEW a, Told(a), a.calculated_at = NoTime \/ a.calculated_at >= known,
         request \in {"answered", "held"}, Worker!Check(a), UNCHANGED <<vars, known>>
  PROVE  Sound'
<1>1. PICK k \in EdgeSkews :
        /\ checkedAt' = now
        /\ IF Worker!Invalid(a, Worker!EdgeTime(now + k))
           THEN request' = "rejected" /\ shown' = Worker!Unavailable("NO_ASSESSMENT")
           ELSE request' = "held"
                /\ shown' = Worker!ValidateAssessment(a, Worker!EdgeTime(now + k))
        /\ answer' = answer
  BY DEF Worker!Check
<1>2. PICK t : t = Worker!EdgeTime(now + k)
  OBVIOUS
<1>3. now \in Int /\ k \in Int /\ k >= -MaxBehind /\ Milli \in Nat \ {0} /\ MaxBehind \in Nat
  BY Bounds, SystemAssumption DEF Typed, TypeOK
<1>4. t \in Int /\ now - MaxBehind - (Milli - 1) <= t
  <2>1. PICK m \in Int : m = now + k
    BY <1>3
  <2>2. t = (m \div Milli) * Milli
    BY <1>2, <2>1 DEF Worker!EdgeTime
  <2>3. PICK q \in Int, e \in Int : /\ q = m \div Milli /\ e = (m % Milli)
                                    /\ m = Milli * q + e /\ 0 <= e /\ e < Milli
    BY <1>3, <2>1
  <2>4. PICK z \in Int : z = Milli * q
    BY <1>3, <2>3
  <2>5. t = z
    BY <1>3, <2>2, <2>3, <2>4
  <2> QED
    BY <1>3, <2>1, <2>3, <2>4, <2>5
<1>5. Told(answer)' /\ Times' = Times
  BY <1>1 DEF vars, tables, Told, Times, Sound
<1>6. CASE request' = "rejected" /\ shown' = Worker!Unavailable("NO_ASSESSMENT")
  <2>1. Told(shown)'
    BY <1>6, UnavailableReply DEF Told, Times
  <2> QED
    BY <1>5, <1>6, <2>1 DEF Sound
<1>7. CASE request' = "held" /\ shown' = Worker!ValidateAssessment(a, t)
  <2>1. PICK v : v = Worker!ValidateAssessment(a, t)
    OBVIOUS
  <2>2. Keeps(v, a) /\ (Usable(v) => Usable(a) /\ (a.expires_at = NoTime \/ ~(t >= a.expires_at)))
    BY <2>1, CheckKeeps DEF Told
  <2>3. Told(v)
    BY <2>2 DEF Told, Keeps
  <2>4. Usable(v) => now <= v.expires_at - 1 + MaxBehind + (Milli - 1)
    <3> SUFFICES ASSUME Usable(v)
                 PROVE  now <= v.expires_at - 1 + MaxBehind + (Milli - 1)
      OBVIOUS
    <3>1. a.expires_at \in Nat /\ ~(t >= a.expires_at) /\ v.expires_at = a.expires_at
      BY <2>2, AgeAssumption DEF Told, Keeps, NoTime
    <3> QED
      BY <1>3, <1>4, <3>1
  <2>5. v.calculated_at = NoTime \/ v.calculated_at >= known
    BY <2>2 DEF Keeps
  <2>6. shown' = v
    BY <1>7, <2>1
  <2>7. Told(v)'
    BY <2>3 DEF vars, tables, Told, Times
  <2>8. Told(shown)'
    BY <2>6, <2>7 DEF Told
  <2> QED
    BY <1>1, <1>3, <1>5, <1>7, <2>4, <2>5, <2>6, <2>8 DEF Sound
<1> QED
  BY <1>1, <1>2, <1>6, <1>7

\* The database's answer to a request that begins.
LEMMA AnswerSound == Typed /\ Rows /\ Sound /\ AnswerRequest => Sound'
<1> SUFFICES ASSUME Typed, Rows, Sound, AnswerRequest
             PROVE  Sound'
  OBVIOUS
<1>1. PICK k \in DbSkews : answer' = Worker!DatabaseResult(NewestPublication, now + k)
  BY DEF AnswerRequest, Worker!Answer
<1>2. PICK t \in Int : t = now + k
  BY Bounds, SystemAssumption DEF Typed, TypeOK
<1>3. PICK a : a = Worker!DatabaseResult(NewestPublication, t)
  OBVIOUS
<1>4. Told(a) /\ (a.calculated_at = NoTime \/ \A u \in Times : a.calculated_at >= u)
  BY <1>3, NewestAnswered
<1>5. answer' = a /\ shown' = shown /\ request' = "answered"
  BY <1>1, <1>2, <1>3 DEF AnswerRequest, Worker!Answer
<1>6. known' \in Times
  BY LearnKnows DEF AnswerRequest
<1>7. Times' = Times /\ Told(a)' /\ Told(shown)'
  BY <1>4, <1>5 DEF AnswerRequest, vars, tables, Times, Told, Sound
<1> QED
  BY <1>4, <1>5, <1>6, <1>7 DEF Sound, Told

\* The next request begins with nothing.
LEMMA NextSound == Rows /\ Sound /\ NextBuyer => Sound'
<1> SUFFICES ASSUME Rows, Sound, NextBuyer
             PROVE  Sound'
  OBVIOUS
<1>1. PICK u : u = Worker!Unavailable("NO_ASSESSMENT")
  OBVIOUS
<1>2. answer' = u /\ shown' = u /\ request' = "idle"
  BY <1>1 DEF NextBuyer, Worker!NextRequest
<1>3. Reply(u) /\ ~Usable(u) /\ u.calculated_at = NoTime
  BY <1>1, UnavailableReply
<1>4. known' \in Times /\ Times' = Times
  BY LearnKnows DEF NextBuyer, vars, tables, Times
<1>5. Told(answer)' /\ Told(shown)'
  BY <1>2, <1>3 DEF Told, Times
<1> QED
  BY <1>2, <1>4, <1>5 DEF Sound

LEMMA PublishSound == Sound /\ [Next]_vars /\ UNCHANGED worker => Sound'
<1> SUFFICES ASSUME Sound, [Next]_vars, UNCHANGED worker
             PROVE  Sound'
  OBVIOUS
<1>1. PICK a, s : a = answer /\ s = shown
  OBVIOUS
<1>2. Told(a)' /\ Told(s)' /\ Times \subseteq Times'
  BY <1>1, StillTold DEF Sound
<1>3. a = answer' /\ s = shown'
  BY <1>1 DEF worker
<1>4. Told(answer)' /\ Told(shown)'
  BY <1>2, <1>3 DEF Told
<1> QED
  BY <1>2, <1>4 DEF Sound, worker

LEMMA SoundStep == Typed /\ Rows /\ Sound /\ [SystemNext]_system => Sound'
<1> SUFFICES ASSUME Typed, Rows, Sound, [SystemNext]_system
             PROVE  Sound'
  OBVIOUS
<1>1. CASE Publish \/ UNCHANGED system
  BY <1>1, PublishSound, StepOfPublication DEF Publish, system
<1>2. CASE AnswerRequest
  BY <1>2, AnswerSound
<1>3. CASE ReceiveAnswer
  <2>1. PICK a : a = answer
    OBVIOUS
  <2>2. Told(a) /\ (a.calculated_at = NoTime \/ a.calculated_at >= known)
    BY <1>3, <2>1 DEF ReceiveAnswer, Worker!Receive, Sound
  <2>3. Worker!Check(a) /\ request \in {"answered", "held"} /\ UNCHANGED <<vars, known>>
    BY <1>3, <2>1 DEF ReceiveAnswer, Worker!Receive, Worker!Check
  <2> QED
    BY <2>2, <2>3, CheckSound
<1>4. CASE CheckAgain
  <2>1. PICK a : a = shown
    OBVIOUS
  <2>2. Told(a) /\ (a.calculated_at = NoTime \/ a.calculated_at >= known)
    BY <1>4, <2>1 DEF CheckAgain, Worker!Recheck, Sound
  <2>3. Worker!Check(a) /\ request \in {"answered", "held"} /\ UNCHANGED <<vars, known>>
    BY <1>4, <2>1 DEF CheckAgain, Worker!Recheck, Worker!Check
  <2> QED
    BY <2>2, <2>3, CheckSound
<1>5. CASE NextBuyer
  BY <1>5, NextSound
<1> QED
  BY <1>1, <1>2, <1>3, <1>4, <1>5 DEF SystemNext

------------------------------------------------------------------------------
(* From the chain to the buyer. *)

\* In every reachable state each reply speaks of a stored row, usable only of a whole and
\* current one, and is no older than what was known when its request began.
THEOREM RepliesAreSound == SystemSpec => []Sound
<1>1. SystemInit => Sound
  BY SoundInit
<1>2. Typed /\ Books /\ Rows /\ Sound /\ [SystemNext]_system => Sound'
  BY SoundStep
<1> QED
  BY <1>1, <1>2, PublicationUndisturbed, PTL DEF SystemSpec

\* ServedIsWhole of the composed system: the Worker does not disturb the publisher.
THEOREM ServedIsWholeWhileRead == SystemSpec => []ServedIsWhole
  BY NewestIsServed, PublicationUndisturbed, PTL

\* BoardNeverTurnsBack of the composed system: also while requests are answered between
\* any two of their steps, the tables are one board.
THEOREM TheWholeIsABoard == SystemSpec => BoardNeverTurnsBack
<1>1. SystemInit => Board!Init
  BY InitOnBoard DEF SystemInit
<1>2. (Typed /\ Books /\ Rows) /\ (Typed /\ Books /\ Rows)' /\ [SystemNext]_system
        => [Board!Next]_(Board!vars)
  BY StepOfPublication, StepOnBoard
<1> QED
  BY <1>1, <1>2, PublicationUndisturbed, PTL DEF SystemSpec, BoardNeverTurnsBack, Board!Spec

\* Time never runs backwards for buyers, whatever the runners' clocks, late inserts
\* and killed runs.
THEOREM BuyersAreNeverTakenBack == SystemSpec => []BuyersNeverGoBack
<1>1. Sound => BuyersNeverGoBack
  BY DEF Sound, BuyersNeverGoBack
<1> QED
  BY <1>1, RepliesAreSound, PTL

\* What a buyer can use was read of a block at most StaleAge old at the last check,
\* give or take the lag and the resolution of the edge's clock.
THEOREM DeliveriesAreRecent == SystemSpec => []DeliveredStateIsRecent
<1>1. Typed /\ Sound => DeliveredStateIsRecent
  <2> SUFFICES ASSUME Sound, request = "held", Usable(shown)
               PROVE  \E r \in assessments :
                        /\ r.id = shown.assessment_id /\ r.id \in snapshots \cap evidence
                        /\ checkedAt - r.block <= StaleAge + MaxBehind + (Milli - 1)
    BY DEF DeliveredStateIsRecent
  <2>1. PICK r \in assessments :
          /\ r.id = shown.assessment_id /\ r.id \in snapshots \cap evidence
          /\ r.block \in Nat /\ shown.expires_at = r.block + StaleAge + 1
    BY DEF Sound, Told
  <2>2. checkedAt \in Int /\ checkedAt <= shown.expires_at - 1 + MaxBehind + (Milli - 1)
    BY DEF Sound
  <2>3. checkedAt - r.block <= StaleAge + MaxBehind + (Milli - 1)
    BY <2>1, <2>2, AgeAssumption, SystemAssumption
  <2> QED
    BY <2>1, <2>3
<1> QED
  BY <1>1, RepliesAreSound, PublicationUndisturbed, PTL
=============================================================================
