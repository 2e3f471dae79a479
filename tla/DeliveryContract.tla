--------------------------- MODULE DeliveryContract ---------------------------
(***************************************************************************)
(* One publication read by the Worker, request after request, while time    *)
(* passes.  The freshness policy is implemented three times: in Python when *)
(* the assessment is computed, in SQL when it is read, in TypeScript at     *)
(* every delivery-time check.  This module asks whether the three agree,    *)
(* on three clocks: true time, statement_timestamp() of the database, and   *)
(* Date.now() at the edge, which counts milliseconds and may step back.     *)
(***************************************************************************)
EXTENDS AssessmentDelivery

CONSTANTS Milli,      \* microseconds to a millisecond
          DbSkews,    \* how far the database's clock may be off, per reading
          EdgeSkews,  \* how far the edge's clock may be off, per reading
          MaxBehind,  \* no edge clock is further behind than this
          MaxTime     \* bound on true time (model checking only)

ASSUME ClockAssumption ==
  /\ Milli \in Nat \ {0} /\ MaxBehind \in Nat /\ MaxTime \in Nat
  /\ DbSkews \subseteq Int /\ EdgeSkews \subseteq Int
  /\ \A k \in EdgeSkews : k >= -MaxBehind

VARIABLES
  clock,      \* true time
  pub,        \* the newest publication
  stage,      \* what the Worker is doing: "idle", "answered", "held", "rejected"
  answer,     \* what the database answered the current request
  answeredAt, \* the statement time of that answer
  shown,      \* the assessment the Worker holds
  edge,       \* the Worker's reading of its clock at the last check
  checkedAt,  \* the true time of that check
  latest      \* the latest of answeredAt and every edge reading of this request

vars == <<clock, pub, stage, answer, answeredAt, shown, edge, checkedAt, latest>>

EdgeTime(t) == (t \div Milli) * Milli     \* BigInt(Date.now()) * 1000n
Later(s, t) == IF s >= t THEN s ELSE t

Score == 50   \* any score: only its presence matters here

\* Everything the ingestion may have committed: observed anywhere inside a
\* millisecond, computed at any age, complete or with an unknown factor, whole or
\* cut short after one or two of the three inserts.
Publications ==
  {[assessment |-> Assess(1, observed, observed + age, Score, complete),
    snapshot |-> rows >= 2, evidence |-> rows = 3] :
      observed \in 0..(Milli - 1), age \in 0..(UnknownAge + 2),
      complete \in BOOLEAN, rows \in 1..3}

Init ==
  /\ pub \in Publications
  /\ clock \in {t \in {pub.assessment.computed_at - 1, pub.assessment.computed_at} : t >= 0}
  /\ stage = "idle"
  /\ answer = Unavailable("NO_ASSESSMENT") /\ answeredAt = 0
  /\ shown = answer /\ edge = 0 /\ checkedAt = 0 /\ latest = 0

Tick ==
  /\ clock < MaxTime
  /\ clock' = clock + 1
  /\ UNCHANGED <<pub, stage, answer, answeredAt, shown, edge, checkedAt, latest>>

\* The database evaluates the function for this request.
Answer ==
  /\ stage = "idle" /\ stage' = "answered"
  /\ \E k \in DbSkews :
       /\ answeredAt' = clock + k
       /\ answer' = DatabaseResult(pub, clock + k)
       /\ latest' = clock + k
  /\ UNCHANGED <<clock, pub, shown, edge, checkedAt>>

\* validateAssessment(a): throws, or replaces what the Worker holds.
Check(a) ==
  \E k \in EdgeSkews :
    LET time == EdgeTime(clock + k) IN
    /\ edge' = time /\ checkedAt' = clock /\ latest' = Later(latest, time)
    /\ IF Invalid(a, time)
       THEN stage' = "rejected" /\ shown' = Unavailable("NO_ASSESSMENT")
       ELSE stage' = "held" /\ shown' = ValidateAssessment(a, time)
    /\ UNCHANGED <<clock, pub, answer, answeredAt>>

\* latestAssessment: the answer arrives at the Worker.
Receive == stage = "answered" /\ Check(answer)

\* One of the further checks purchase makes after each await.
Recheck == stage = "held" /\ Check(shown)

NextRequest ==
  /\ stage \in {"held", "rejected"} /\ stage' = "idle"
  /\ answer' = Unavailable("NO_ASSESSMENT") /\ answeredAt' = 0
  /\ shown' = answer' /\ edge' = 0 /\ checkedAt' = 0 /\ latest' = 0
  /\ UNCHANGED <<clock, pub>>

Next == Tick \/ Answer \/ Receive \/ Recheck \/ NextRequest

Spec == Init /\ [][Next]_vars

------------------------------------------------------------------------------
Results ==
  [assessment_id : {NoId, 1}, status : {"OK", "DEGRADED", "STALE", "UNKNOWN"},
   freshness_status : Levels,
   reason : {"none", "NO_ASSESSMENT", "INCOMPLETE_PUBLICATION", "INVALID_PUBLICATION",
             "EXPIRED_ASSESSMENT", "ASSESSMENT_UNKNOWN"},
   score : Int, calculated_at : Int, fresh_until : Int, expires_at : Int,
   unknown_after : Int]

\* Every variable keeps its shape, and the freshness the ingestion stamped meets
\* the contract its own model validates (Freshness.valid_deadlines).
TypeOK ==
  /\ clock \in Nat /\ answeredAt \in Int /\ edge \in Int /\ latest \in Int
  /\ checkedAt \in Nat
  /\ stage \in {"idle", "answered", "held", "rejected"}
  /\ answer \in Results /\ shown \in Results
  /\ ValidDeadlines(pub.assessment.freshness)

Whole == pub.snapshot /\ pub.evidence
Policy(t) == StatusAt(pub.assessment.freshness, t)
Current(t) == Policy(t) \in {"FRESH", "DEGRADED"}

\* The SQL projection of a whole publication is the Python policy evaluated at the
\* statement time: same freshness level at every instant, boundaries included, and
\* a usable answer exactly when there is a score and the policy still says current.
DatabaseFollowsPolicy ==
  stage # "idle" /\ Whole /\ answeredAt >= pub.assessment.computed_at =>
    /\ answer.freshness_status = Lower[Policy(answeredAt)]
    /\ Usable(answer) <=> pub.assessment.score # NoScore /\ Current(answeredAt)

\* What the Worker holds after any number of checks, on a clock that may step back,
\* is usable exactly when the policy says current at the latest time any of the
\* checks saw, and then carries that level and the stored score.
WorkerFollowsPolicy ==
  stage = "held" /\ Whole /\ answeredAt >= pub.assessment.computed_at =>
    /\ Usable(shown) <=> pub.assessment.score # NoScore /\ Current(latest)
    /\ Usable(shown) => /\ shown.freshness_status = Lower[Policy(latest)]
                        /\ shown.score = pub.assessment.score

\* A cut-short publication or one from the database's future is never usable.
NothingFromAPartialPublication ==
  stage = "held" /\ (~Whole \/ answeredAt < pub.assessment.computed_at) => ~Usable(shown)

\* The Worker's schema and ordering checks never reject what the database really
\* answers: they throw only when the edge clock is behind the computation.
WorkerAcceptsDatabaseResults ==
  stage = "rejected" => edge < pub.assessment.computed_at

\* A millisecond clock truncates: an assessment can pass a check after its deadline,
\* but by less than one millisecond more than the edge clock is behind.
LateUseIsBounded ==
  stage = "held" /\ Usable(shown) => checkedAt < shown.expires_at + Milli + MaxBehind

DowngradeStep ==
  stage \in {"answered", "held"} /\ stage' = "held" =>
    Downgrade(IF stage = "held" THEN shown ELSE answer, shown')

\* Downgrades only (contracts.ts: "never change stored scores/confidence or extend
\* deadlines"): within a request, no check makes an unusable assessment usable,
\* freshens a usable one, moves a deadline or changes a score other than to null.
NeverUpgraded == [][DowngradeStep]_vars

=============================================================================
