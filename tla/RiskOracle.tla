------------------------------ MODULE RiskOracle ------------------------------
(***************************************************************************)
(* From the chain to the buyer: runs of the ingestion publish, and the       *)
(* Worker serves request after request from the same tables, each of the     *)
(* runner, the database and the edge on a clock of its own.  The publisher   *)
(* is Publication and the reader is DeliveryContract, whose publication is    *)
(* now the newest row at each statement.                                     *)
(***************************************************************************)
EXTENDS Publication

CONSTANTS Milli, DbSkews, EdgeSkews, MaxBehind   \* as in DeliveryContract

ASSUME SystemAssumption ==
  /\ Milli \in Nat \ {0} /\ MaxBehind \in Nat
  /\ DbSkews \subseteq Int /\ EdgeSkews \subseteq Int
  /\ \A k \in EdgeSkews : k >= -MaxBehind

VARIABLES
  request,    \* what the Worker is doing: "idle", "answered", "held", "rejected"
  answer, answeredAt, shown, edge, checkedAt, latest,   \* as in DeliveryContract
  known       \* the latest computation buyers know of: delivered or reported "ok"

worker == <<request, answer, answeredAt, shown, edge, checkedAt, latest, known>>
system == <<vars, worker>>

\* What the database function reads: the newest row and whether its companions are there.
NewestPublication ==
  IF assessments = {} THEN [assessment |-> NoRow.assessment, snapshot |-> FALSE, evidence |-> FALSE]
  ELSE [assessment |-> Newest.assessment, snapshot |-> Newest.id \in snapshots,
        evidence |-> Newest.id \in evidence]

Worker == INSTANCE DeliveryContract WITH clock <- now, pub <- NewestPublication,
                                         stage <- request

ReportedTimes ==
  {r.assessment.computed_at :
     r \in {s \in assessments : \E p \in reports : p.run = s.id /\ p.status = "ok"}}

Delivered == IF request = "held" /\ Usable(shown) THEN {shown.calculated_at} ELSE {}

\* What can be known when a request begins.
Learn ==
  \E t \in {known} \cup ReportedTimes \cup Delivered :
    known' = t /\ \A u \in {known} \cup ReportedTimes \cup Delivered : u <= t

SystemInit ==
  /\ Init /\ known = NoTime /\ request = "idle"
  /\ answer = Unavailable("NO_ASSESSMENT") /\ answeredAt = 0
  /\ shown = answer /\ edge = 0 /\ checkedAt = 0 /\ latest = 0

\* The publisher goes on while requests are answered.
Publish == (Run \/ Database \/ Tick) /\ UNCHANGED worker

AnswerRequest == UNCHANGED vars /\ Worker!Answer /\ Learn
ReceiveAnswer == UNCHANGED <<vars, known>> /\ Worker!Receive
CheckAgain == UNCHANGED <<vars, known>> /\ Worker!Recheck
NextBuyer == UNCHANGED vars /\ Worker!NextRequest /\ Learn

SystemNext == Publish \/ AnswerRequest \/ ReceiveAnswer \/ CheckAgain \/ NextBuyer

SystemSpec == SystemInit /\ [][SystemNext]_system

------------------------------------------------------------------------------
(* Properties. *)

\* Time never runs backwards for buyers: what a request is told is never older than what
\* an earlier one was sold or a run reported as published before the database read it,
\* whatever the clocks, late inserts and killed runs.
BuyersNeverGoBack ==
  request = "held" /\ shown.calculated_at # NoTime => shown.calculated_at >= known

\* From the block to the buyer: what is usable at a delivery-time check was read of a
\* block at most StaleAge older than that moment, give or take the edge clock's lag and
\* resolution; no error of the runner's clock, no delay of an insert and no slow request
\* stretches that.
DeliveredStateIsRecent ==
  request = "held" /\ Usable(shown) =>
    \E r \in assessments :
      /\ r.id = shown.assessment_id /\ r.id \in snapshots \cap evidence
      /\ checkedAt - r.block <= StaleAge + MaxBehind + (Milli - 1)
=============================================================================
