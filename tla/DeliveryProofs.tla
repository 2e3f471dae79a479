---------------------------- MODULE DeliveryProofs ----------------------------
(***************************************************************************)
(* The three implementations of the freshness policy agree, for all age      *)
(* limits, clock errors and units of the edge clock.                         *)
(***************************************************************************)
EXTENDS DeliveryContract, AssessmentProofs

------------------------------------------------------------------------------
(* The publication. *)

\* The deadlines of an assessment that can be dated, and its status by them.
Dated(a) ==
  LET f == a.freshness IN
  /\ f.fresh_until \in Nat /\ f.expires_at \in Nat /\ f.unknown_after \in Nat
  /\ f.fresh_until < f.expires_at /\ f.expires_at < f.unknown_after
  /\ a.computed_at < f.unknown_after
  /\ \/ /\ f.status = "FRESH" /\ a.freshness_status = "fresh"
        /\ a.computed_at < f.fresh_until
     \/ /\ f.status = "DEGRADED" /\ a.freshness_status = "degraded"
        /\ a.computed_at >= f.fresh_until /\ a.computed_at < f.expires_at
     \/ /\ f.status = "STALE" /\ a.freshness_status = "stale"
        /\ a.computed_at >= f.expires_at /\ a.score = NoScore

\* One too old to have deadlines.
Undated(a) ==
  LET f == a.freshness IN
  /\ f.fresh_until = NoTime /\ f.expires_at = NoTime /\ f.unknown_after = NoTime
  /\ f.status = "UNKNOWN" /\ a.freshness_status = "unknown" /\ a.score = NoScore

Issued(p) ==
  LET a == p.assessment IN
  /\ p.snapshot \in BOOLEAN /\ p.evidence \in BOOLEAN
  /\ a.id = 1 /\ a.computed_at \in Nat /\ a.score \in {50, NoScore}
  /\ a.freshness.evaluated_at = a.computed_at
  /\ Dated(a) \/ Undated(a)

LEMMA PublicationIssued ==
  ASSUME NEW p \in Publications
  PROVE  Issued(p)
<1>1. PICK b \in 0..(Milli - 1), age \in 0..(UnknownAge + 2), complete \in BOOLEAN, rows \in 1..3 :
        p = [assessment |-> Assess(1, b, b + age, Score, complete),
             snapshot |-> rows >= 2, evidence |-> rows = 3]
  BY DEF Publications
<1> DEFINE at == b + age
           a == Assess(1, b, at, 50, complete)
<1>2. b \in Nat /\ at \in Nat /\ b <= at /\ at - b = age
  BY AgeAssumption, ClockAssumption
<1>3. /\ a.id = 1 /\ a.computed_at = at /\ a.score \in {50, NoScore}
      /\ a.freshness.evaluated_at = at /\ (Dated(a) \/ Undated(a))
  <2>1. CASE at - b <= StaleAge
    <3>1. /\ a.id = 1 /\ a.computed_at = at /\ a.score \in {50, NoScore}
          /\ a.freshness_status = IF at - b <= FreshAge THEN "fresh" ELSE "degraded"
          /\ a.freshness.status = IF at - b <= FreshAge THEN "FRESH" ELSE "DEGRADED"
          /\ a.freshness.evaluated_at = at
          /\ a.freshness.fresh_until = b + FreshAge + 1
          /\ a.freshness.expires_at = b + StaleAge + 1
          /\ a.freshness.unknown_after = b + UnknownAge + 1
      BY <1>2, <2>1, AssessCurrent
    <3> HIDE DEF a, at
    <3> QED
      BY <1>2, <2>1, <3>1, AgeAssumption DEF Dated
  <2>2. CASE at - b > StaleAge
    <3>1. /\ a.id = 1 /\ a.computed_at = at /\ a.score = NoScore /\ a.freshness.evaluated_at = at
          /\ \/ /\ at - b <= UnknownAge /\ a.freshness_status = "stale"
                /\ a.freshness.status = "STALE"
                /\ a.freshness.fresh_until = b + FreshAge + 1
                /\ a.freshness.expires_at = b + StaleAge + 1
                /\ a.freshness.unknown_after = b + UnknownAge + 1
             \/ /\ a.freshness_status = "unknown" /\ a.freshness.status = "UNKNOWN"
                /\ a.freshness.fresh_until = NoTime /\ a.freshness.expires_at = NoTime
                /\ a.freshness.unknown_after = NoTime
      BY <1>2, <2>2, AssessOld
    <3> HIDE DEF a, at
    <3> QED
      BY <1>2, <2>2, <3>1, AgeAssumption DEF Dated, Undated
  <2> QED
    BY <1>2, <2>1, <2>2, AgeAssumption
<1>4. p = [assessment |-> a, snapshot |-> rows >= 2, evidence |-> rows = 3]
  BY <1>1 DEF Score
<1>5. p.assessment = a /\ p.snapshot \in BOOLEAN /\ p.evidence \in BOOLEAN
  <2> HIDE DEF a
  <2> QED
    BY <1>4
<1> HIDE DEF a
<1> QED
  BY <1>2, <1>3, <1>5 DEF Issued

\* The ingestion's stamp meets the contract of class Freshness.
LEMMA IssuedIsValid ==
  ASSUME NEW p, Issued(p)
  PROVE  ValidDeadlines(p.assessment.freshness) /\ ~InconsistentDeadlines(p.assessment)
<1> DEFINE a == p.assessment
<1>1. Dated(a) \/ Undated(a)
  BY DEF Issued
<1>2. a.computed_at \in Nat /\ a.freshness.evaluated_at = a.computed_at
  BY DEF Issued
<1> HIDE DEF a
<1>3. ValidDeadlines(a.freshness)
  BY <1>1, <1>2 DEF Dated, Undated, ValidDeadlines, NoTime
<1>4. ~InconsistentDeadlines(a)
  BY <1>1, <1>2 DEF Dated, Undated, InconsistentDeadlines, NoTime
<1> QED
  BY <1>3, <1>4 DEF a

------------------------------------------------------------------------------
(* Results. *)

\* What the Worker's schema and ordering checks ask, apart from the clock.
WellFormed(a) ==
  /\ (a.fresh_until = NoTime) <=> (a.expires_at = NoTime)
  /\ a.fresh_until # NoTime => a.fresh_until <= a.expires_at
  /\ a.unknown_after # NoTime => a.expires_at # NoTime /\ a.unknown_after >= a.expires_at
  /\ Actionable(a) =>
       /\ a.assessment_id # NoId /\ a.calculated_at # NoTime
       /\ a.fresh_until # NoTime /\ a.expires_at > a.calculated_at
       /\ a.score # NoScore /\ a.reason = "none"
       /\ a.freshness_status = (IF a.status = "OK" THEN "fresh" ELSE "degraded")
  /\ ~Actionable(a) =>
       /\ a.score = NoScore /\ a.reason # "none"
       /\ a.status = "STALE" => a.freshness_status = "stale"

LEMMA OnlyTheClockRejects ==
  ASSUME NEW a \in Results, WellFormed(a), NEW t \in Int
  PROVE  Invalid(a, t) <=> a.calculated_at # NoTime /\ a.calculated_at > t
  BY DEF Invalid, WellFormed, Results

LEMMA UnavailableResult ==
  ASSUME NEW reason \in {"NO_ASSESSMENT", "INCOMPLETE_PUBLICATION", "INVALID_PUBLICATION"}
  PROVE  LET u == Unavailable(reason) IN
         /\ u \in Results /\ WellFormed(u) /\ ~Usable(u) /\ u.calculated_at = NoTime
<1> DEFINE u == Unavailable(reason)
<1>1. /\ u.assessment_id = NoId /\ u.status = "UNKNOWN" /\ u.freshness_status = "unknown"
      /\ u.reason = reason /\ u.score = NoScore /\ u.calculated_at = NoTime
      /\ u.fresh_until = NoTime /\ u.expires_at = NoTime /\ u.unknown_after = NoTime
  BY DEF Unavailable
<1>2. u \in Results
  BY DEF Unavailable, Results, Levels, NoTime, NoScore, NoId
<1> HIDE DEF u
<1>3. WellFormed(u) /\ ~Usable(u)
  BY <1>1 DEF WellFormed, Usable, Actionable
<1> QED
  BY <1>1, <1>2, <1>3 DEF u

\* What a assessment is after checks the latest of which was at l, beside the answer
\* r it was delivered as.
Tracks(a, r, l) ==
  /\ a.calculated_at = r.calculated_at /\ a.fresh_until = r.fresh_until
  /\ a.expires_at = r.expires_at /\ a.unknown_after = r.unknown_after
  /\ Usable(a) <=> Usable(r) /\ l < r.expires_at
  /\ Usable(a) =>
       /\ a.score = r.score
       /\ a.freshness_status =
            IF r.freshness_status = "fresh" /\ l < r.fresh_until THEN "fresh" ELSE "degraded"

\* A delivery-time check accepts nothing but what is still current, and changes
\* nothing but to downgrade it (validateAssessment).
LEMMA CheckedResult ==
  ASSUME NEW a \in Results, WellFormed(a), NEW t \in Int
  PROVE  LET v == ValidateAssessment(a, t) IN
         v \in Results /\ WellFormed(v) /\ Tracks(v, a, t) /\ Downgrade(a, v)
<1> DEFINE v == ValidateAssessment(a, t)
           same == /\ v.assessment_id = a.assessment_id /\ v.calculated_at = a.calculated_at
                   /\ v.fresh_until = a.fresh_until /\ v.expires_at = a.expires_at
                   /\ v.unknown_after = a.unknown_after
           masked == /\ v.status \in {"STALE", "UNKNOWN"} /\ v.reason = "EXPIRED_ASSESSMENT"
                     /\ v.status = "STALE" => v.freshness_status = "stale"
                     /\ v.freshness_status \in Levels /\ v.score = NoScore
                     /\ a.expires_at # NoTime /\ t >= a.expires_at
           lowered == /\ v.status = (IF a.status = "OK" THEN "DEGRADED" ELSE a.status)
                      /\ v.freshness_status = "degraded" /\ v.reason = a.reason
                      /\ v.score = a.score /\ a.freshness_status = "fresh"
                      /\ a.fresh_until # NoTime /\ t >= a.fresh_until
                      /\ a.expires_at # NoTime => t < a.expires_at
           kept == /\ v = a
                   /\ a.expires_at # NoTime => t < a.expires_at
                   /\ a.freshness_status = "fresh" /\ a.fresh_until # NoTime => t < a.fresh_until
<1>1. v \in Results /\ same /\ (masked \/ lowered \/ kept)
  <2>1. ASSUME NEW st \in {"STALE", "UNKNOWN"}, NEW fr \in Levels, v = Mask(a, st, fr)
        PROVE  /\ v \in Results /\ same /\ v.status = st /\ v.reason = "EXPIRED_ASSESSMENT"
               /\ v.freshness_status = fr /\ v.score = NoScore
    <3> HIDE DEF v
    <3> DEFINE w == [a EXCEPT !.status = st, !.freshness_status = fr]
    <3>1. /\ w \in Results /\ w.status = st /\ w.freshness_status = fr
          /\ w.assessment_id = a.assessment_id /\ w.calculated_at = a.calculated_at
          /\ w.fresh_until = a.fresh_until /\ w.expires_at = a.expires_at
          /\ w.unknown_after = a.unknown_after
      BY DEF Results
    <3>2. v = [w EXCEPT !.reason = "EXPIRED_ASSESSMENT", !.score = NoScore]
      BY <2>1 DEF Mask
    <3> HIDE DEF w
    <3>3. NoScore \in Int
      BY DEF NoScore
    <3>4. v \in Results
      BY <3>1, <3>2, <3>3 DEF Results
    <3>5. /\ v.status = w.status /\ v.reason = "EXPIRED_ASSESSMENT" /\ v.score = NoScore
          /\ v.freshness_status = w.freshness_status
          /\ v.assessment_id = w.assessment_id /\ v.calculated_at = w.calculated_at
          /\ v.fresh_until = w.fresh_until /\ v.expires_at = w.expires_at
          /\ v.unknown_after = w.unknown_after
      BY <3>1, <3>2 DEF Results
    <3> QED
      BY <3>1, <3>4, <3>5
  <2>2. CASE a.unknown_after # NoTime /\ t >= a.unknown_after
    <3>1. v = Mask(a, "UNKNOWN", "unknown") /\ a.expires_at # NoTime /\ t >= a.expires_at
      BY <2>2 DEF ValidateAssessment, WellFormed, Results
    <3> HIDE DEF v
    <3> QED
      BY <2>1, <3>1 DEF Levels
  <2>3. CASE /\ ~(a.unknown_after # NoTime /\ t >= a.unknown_after)
             /\ a.expires_at # NoTime /\ t >= a.expires_at
    <3>1. PICK st \in {"STALE", "UNKNOWN"} : v = Mask(a, st, "stale")
      BY <2>3 DEF ValidateAssessment
    <3> HIDE DEF v
    <3> QED
      BY <2>1, <2>3, <3>1 DEF Levels
  <2>4. CASE /\ ~(a.unknown_after # NoTime /\ t >= a.unknown_after)
             /\ ~(a.expires_at # NoTime /\ t >= a.expires_at)
             /\ a.freshness_status = "fresh" /\ a.fresh_until # NoTime /\ t >= a.fresh_until
    <3>1. v = [a EXCEPT !.status = IF a.status = "OK" THEN "DEGRADED" ELSE a.status,
                        !.freshness_status = "degraded"]
      BY <2>4 DEF ValidateAssessment
    <3> HIDE DEF v
    <3>2. v \in Results /\ same /\ v.reason = a.reason /\ v.score = a.score
          /\ v.freshness_status = "degraded"
          /\ v.status = (IF a.status = "OK" THEN "DEGRADED" ELSE a.status)
      BY <3>1 DEF Results, Levels
    <3> QED
      BY <2>4, <3>2 DEF Results, NoTime
  <2>5. CASE /\ ~(a.unknown_after # NoTime /\ t >= a.unknown_after)
             /\ ~(a.expires_at # NoTime /\ t >= a.expires_at)
             /\ ~(a.freshness_status = "fresh" /\ a.fresh_until # NoTime /\ t >= a.fresh_until)
    <3>1. v = a
      BY <2>5 DEF ValidateAssessment
    <3> HIDE DEF v
    <3> QED
      BY <2>5, <3>1 DEF Results, NoTime
  <2> QED
    BY <2>2, <2>3, <2>4, <2>5
<1> HIDE DEF v
<1>2. WellFormed(v) /\ Tracks(v, a, t)
  <2>1. CASE masked
    BY <1>1, <2>1 DEF WellFormed, Tracks, Usable, Actionable, Results
  <2>2. CASE lowered
    BY <1>1, <2>2 DEF WellFormed, Tracks, Usable, Actionable, Results
  <2>3. CASE kept
    BY <1>1, <2>3 DEF WellFormed, Tracks, Usable, Actionable, Results
  <2> QED
    BY <1>1, <2>1, <2>2, <2>3
<1>3. Downgrade(a, v)
  <2>1. \A x \in Levels : Severity[x] \in Int
    BY DEF Severity, Levels
  <2>2. Severity["degraded"] >= Severity["fresh"]
    BY DEF Severity
  <2>3. CASE masked
    BY <1>1, <2>3 DEF Downgrade, Usable, Actionable
  <2>4. CASE lowered
    BY <1>1, <2>2, <2>4 DEF Downgrade, Usable, Actionable, Results
  <2>5. CASE kept
    BY <1>1, <2>1, <2>5 DEF Downgrade, Results
  <2> QED
    BY <1>1, <2>3, <2>4, <2>5
<1> QED
  BY <1>1, <1>2, <1>3 DEF v

\* ... and a sequence of checks accepts what one check at the latest of their times does.
LEMMA TrackedTwice ==
  ASSUME NEW r \in Results, NEW a, NEW v, NEW l \in Int, NEW t \in Int,
         Tracks(a, r, l), Tracks(v, a, t)
  PROVE  Tracks(v, r, Later(l, t))
  BY DEF Tracks, Later, Results

\* The answer to a request, beside the publication it is about and its policy.
AnswersFor(r, p, t) ==
  LET a == p.assessment
      current == StatusAt(a.freshness, t) \in {"FRESH", "DEGRADED"}
      whole == p.snapshot /\ p.evidence /\ a.computed_at <= t
  IN  /\ r \in Results /\ WellFormed(r) /\ Tracks(r, r, t)
      /\ r.calculated_at \in {NoTime, a.computed_at}
      /\ whole => /\ r.freshness_status = Lower[StatusAt(a.freshness, t)]
                  /\ Usable(r) <=> a.score # NoScore /\ current
                  /\ r.expires_at = a.freshness.expires_at
                  /\ r.fresh_until = a.freshness.fresh_until
                  /\ Usable(r) => r.score = a.score
      /\ ~whole => ~Usable(r)

\* The projection of a row, before anything is known of the row.
LEMMA ProjectionFields ==
  ASSUME NEW a, NEW t
  PROVE  LET pr == Projection(a, t)
             level == DeliveredFreshness(a, t)
             usable == level \in {"fresh", "degraded"} /\ a.score # NoScore
         IN  /\ pr = [assessment_id |-> a.id, status |-> pr.status,
                      freshness_status |-> level, reason |-> pr.reason,
                      score |-> IF usable THEN a.score ELSE NoScore,
                      calculated_at |-> a.computed_at,
                      fresh_until |-> a.freshness.fresh_until,
                      expires_at |-> a.freshness.expires_at,
                      unknown_after |-> a.freshness.unknown_after]
             /\ pr.status = IF usable THEN IF level = "fresh" THEN "OK" ELSE "DEGRADED"
                            ELSE IF level = "stale" THEN "STALE" ELSE "UNKNOWN"
             /\ usable => pr.reason = "none"
             /\ ~usable => pr.reason \in {"EXPIRED_ASSESSMENT", "ASSESSMENT_UNKNOWN"}
<1> DEFINE level == DeliveredFreshness(a, t)
           usable == level \in {"fresh", "degraded"} /\ a.score # NoScore
           st == CASE usable /\ level = "fresh" -> "OK"
                   [] usable /\ level = "degraded" -> "DEGRADED"
                   [] level = "stale" -> "STALE"
                   [] OTHER -> "UNKNOWN"
           why == CASE usable -> "none"
                    [] level \in {"stale", "unknown"} /\ a.freshness_status # "unknown"
                         -> "EXPIRED_ASSESSMENT"
                    [] OTHER -> "ASSESSMENT_UNKNOWN"
<1>1. st = IF usable THEN IF level = "fresh" THEN "OK" ELSE "DEGRADED"
           ELSE IF level = "stale" THEN "STALE" ELSE "UNKNOWN"
  <2> HIDE DEF level
  <2> QED
    OBVIOUS
<1>2. usable => why = "none"
  <2> HIDE DEF level
  <2> QED
    OBVIOUS
<1>3. ~usable => why \in {"EXPIRED_ASSESSMENT", "ASSESSMENT_UNKNOWN"}
  <2> HIDE DEF level
  <2> QED
    OBVIOUS
<1>4. Projection(a, t) =
        [assessment_id |-> a.id, status |-> st, freshness_status |-> level, reason |-> why,
         score |-> IF usable THEN a.score ELSE NoScore, calculated_at |-> a.computed_at,
         fresh_until |-> a.freshness.fresh_until, expires_at |-> a.freshness.expires_at,
         unknown_after |-> a.freshness.unknown_after]
  BY DEF Projection
<1>5. Projection(a, t).status = st /\ Projection(a, t).reason = why
  <2> HIDE DEF st, why, level
  <2> QED
    BY <1>4
<1> HIDE DEF st, why
<1> QED
  BY <1>1, <1>2, <1>3, <1>4, <1>5

\* The level of the SQL projection is the level of the Python policy.
LEMMA LevelsAgree ==
  ASSUME NEW p, Issued(p), NEW t \in Int, p.assessment.computed_at <= t
  PROVE  LET a == p.assessment
             f == a.freshness
             level == DeliveredFreshness(a, t)
         IN  /\ level = Lower[StatusAt(f, t)]
             /\ level \in {"fresh", "degraded"} <=> StatusAt(f, t) \in {"FRESH", "DEGRADED"}
             /\ level \in Levels
             /\ a.score # NoScore => (level \in {"fresh", "degraded"} <=> t < f.expires_at)
             /\ level \in {"fresh", "degraded"} =>
                  (level = IF t < f.fresh_until THEN "fresh" ELSE "degraded")
<1> DEFINE a == p.assessment
           f == a.freshness
           level == DeliveredFreshness(a, t)
           st == StatusAt(f, t)
<1>1. Lower["FRESH"] = "fresh" /\ Lower["DEGRADED"] = "degraded"
      /\ Lower["STALE"] = "stale" /\ Lower["UNKNOWN"] = "unknown"
  BY DEF Lower
<1>2. a.computed_at \in Nat /\ a.computed_at <= t /\ (Dated(a) \/ Undated(a))
  BY DEF Issued
<1> HIDE DEF a
<1>3. \/ st = "UNKNOWN" /\ level = "unknown"
      \/ st = "STALE" /\ level = "stale"
      \/ st = "DEGRADED" /\ level = "degraded"
      \/ st = "FRESH" /\ level = "fresh"
  BY <1>2 DEF StatusAt, DeliveredFreshness, Dated, Undated, NoTime
<1>4. a.score # NoScore => (level \in {"fresh", "degraded"} <=> t < f.expires_at)
  BY <1>2 DEF DeliveredFreshness, Dated, Undated, NoTime
<1>5. level \in {"fresh", "degraded"} =>
        (level = IF t < f.fresh_until THEN "fresh" ELSE "degraded")
  BY <1>2 DEF DeliveredFreshness, Dated, Undated, NoTime
<1> HIDE DEF st, level
<1>6. /\ level = Lower[st] /\ level \in Levels
      /\ level \in {"fresh", "degraded"} <=> st \in {"FRESH", "DEGRADED"}
  BY <1>1, <1>3 DEF Levels
<1> QED
  BY <1>4, <1>5, <1>6 DEF a, st, level

\* Whatever was published, the database answers it by the policy, in a form the Worker
\* takes.
LEMMA DatabaseAnswers ==
  ASSUME NEW p, Issued(p), NEW t \in Int
  PROVE  AnswersFor(DatabaseResult(p, t), p, t)
<1> DEFINE a == p.assessment
           f == a.freshness
           r == DatabaseResult(p, t)
           whole == p.snapshot /\ p.evidence /\ a.computed_at <= t
<1>1. /\ a.id = 1 /\ a.computed_at \in Nat /\ a.score \in {50, NoScore}
      /\ p.snapshot \in BOOLEAN /\ p.evidence \in BOOLEAN /\ (Dated(a) \/ Undated(a))
  BY DEF Issued
<1>2. ~InconsistentDeadlines(a)
  BY IssuedIsValid
<1>3. CASE ~whole
  <2>1. PICK reason \in {"INCOMPLETE_PUBLICATION", "INVALID_PUBLICATION"} : r = Unavailable(reason)
    BY <1>1, <1>3 DEF DatabaseResult, NoId
  <2>2. r \in Results /\ WellFormed(r) /\ ~Usable(r) /\ r.calculated_at = NoTime
    BY <2>1, UnavailableResult
  <2> HIDE DEF r
  <2>3. Tracks(r, r, t)
    BY <2>2 DEF Tracks
  <2> QED
    BY <1>3, <2>2, <2>3 DEF AnswersFor, r
<1>4. CASE whole
  <2> DEFINE level == DeliveredFreshness(a, t)
             st == StatusAt(f, t)
             usable == level \in {"fresh", "degraded"} /\ a.score # NoScore
  <2>1. r = Projection(a, t)
    BY <1>1, <1>2, <1>4 DEF DatabaseResult, NoId
  <2>2. /\ r = [assessment_id |-> a.id, status |-> r.status,
                freshness_status |-> level, reason |-> r.reason,
                score |-> IF usable THEN a.score ELSE NoScore,
                calculated_at |-> a.computed_at, fresh_until |-> f.fresh_until,
                expires_at |-> f.expires_at, unknown_after |-> f.unknown_after]
        /\ r.status = IF usable THEN IF level = "fresh" THEN "OK" ELSE "DEGRADED"
                      ELSE IF level = "stale" THEN "STALE" ELSE "UNKNOWN"
        /\ usable => r.reason = "none"
        /\ ~usable => r.reason \in {"EXPIRED_ASSESSMENT", "ASSESSMENT_UNKNOWN"}
    BY <2>1, ProjectionFields
  <2>3. /\ level = Lower[st] /\ level \in Levels
        /\ level \in {"fresh", "degraded"} <=> st \in {"FRESH", "DEGRADED"}
        /\ a.score # NoScore => (level \in {"fresh", "degraded"} <=> t < f.expires_at)
        /\ level \in {"fresh", "degraded"} =>
             (level = IF t < f.fresh_until THEN "fresh" ELSE "degraded")
    BY <1>4, LevelsAgree
  <2> HIDE DEF r, level, st, a
  <2>4. /\ r.assessment_id = 1 /\ r.freshness_status = level
        /\ r.score = (IF usable THEN a.score ELSE NoScore) /\ r.calculated_at = a.computed_at
        /\ r.fresh_until = f.fresh_until /\ r.expires_at = f.expires_at
        /\ r.unknown_after = f.unknown_after
    BY <1>1, <2>2
  <2>5. Usable(r) <=> usable
    BY <2>2 DEF Usable, Actionable
  <2>6. /\ f.fresh_until \in Int /\ f.expires_at \in Int /\ f.unknown_after \in Int
        /\ (f.fresh_until = NoTime) <=> (f.expires_at = NoTime)
        /\ f.fresh_until # NoTime => f.fresh_until <= f.expires_at
        /\ f.unknown_after # NoTime => f.expires_at # NoTime /\ f.unknown_after >= f.expires_at
    BY <1>1 DEF Dated, Undated, NoTime
  <2>7. r \in Results
    <3>1. /\ r.status \in {"OK", "DEGRADED", "STALE", "UNKNOWN"}
          /\ r.reason \in {"none", "NO_ASSESSMENT", "INCOMPLETE_PUBLICATION",
                           "INVALID_PUBLICATION", "EXPIRED_ASSESSMENT", "ASSESSMENT_UNKNOWN"}
          /\ (IF usable THEN a.score ELSE NoScore) \in Int
          /\ a.id \in {NoId, 1} /\ a.computed_at \in Int
      BY <1>1, <2>2 DEF NoScore
    <3> QED
      BY <2>2, <2>3, <2>6, <3>1 DEF Results
  <2>8. WellFormed(r)
    <3>1. usable => /\ f.fresh_until # NoTime /\ a.computed_at < f.expires_at
      BY <1>1 DEF Dated, Undated, NoTime
    <3> QED
      BY <1>1, <2>2, <2>4, <2>5, <2>6, <3>1 DEF WellFormed, Usable, Actionable, NoId, NoTime
  <2>9. Tracks(r, r, t)
    BY <2>3, <2>4, <2>5 DEF Tracks
  <2> QED
    BY <1>4, <2>3, <2>4, <2>5, <2>7, <2>8, <2>9 DEF AnswersFor, st, r, a
<1> QED
  BY <1>3, <1>4

------------------------------------------------------------------------------
(* The invariant. *)

\* The answer of this request and what the Worker holds go back to the publication;
\* the time of the last check is known up to the edge clock's own error.
Followed ==
  /\ Issued(pub)
  /\ stage # "idle" => AnswersFor(answer, pub, answeredAt) /\ answeredAt <= latest
  /\ stage = "answered" => latest = answeredAt
  /\ stage = "held" => /\ WellFormed(shown) /\ Tracks(shown, answer, latest)
                       /\ edge <= latest /\ checkedAt < edge + Milli + MaxBehind
  /\ stage = "rejected" => edge < pub.assessment.computed_at

DeliveryInvariant == TypeOK /\ Followed

\* A check, of the answer or of what the Worker already holds.
LEMMA CheckFollows ==
  ASSUME DeliveryInvariant, NEW a \in Results, WellFormed(a), Check(a),
         AnswersFor(answer, pub, answeredAt), answeredAt <= latest, Tracks(a, answer, latest)
  PROVE  DeliveryInvariant' /\ (stage' = "held" => Downgrade(a, shown'))
<1>1. PICK k \in EdgeSkews :
        /\ edge' = EdgeTime(clock + k) /\ checkedAt' = clock
        /\ latest' = Later(latest, EdgeTime(clock + k))
        /\ IF Invalid(a, EdgeTime(clock + k))
           THEN stage' = "rejected" /\ shown' = Unavailable("NO_ASSESSMENT")
           ELSE stage' = "held" /\ shown' = ValidateAssessment(a, EdgeTime(clock + k))
        /\ UNCHANGED <<clock, pub, answer, answeredAt>>
  BY DEF Check
<1> DEFINE time == EdgeTime(clock + k)
<1>2. time \in Int /\ clock < time + Milli + MaxBehind
  <2>1. k \in Int /\ k >= -MaxBehind /\ clock \in Nat /\ Milli \in Nat \ {0} /\ MaxBehind \in Nat
    BY ClockAssumption DEF DeliveryInvariant, TypeOK
  <2>2. PICK n : n = clock + k
    OBVIOUS
  <2>3. n \in Int /\ n >= clock - MaxBehind
    BY <2>1, <2>2
  <2>4. PICK q : q = n \div Milli
    OBVIOUS
  <2>5. q \in Int /\ n = q * Milli + (n % Milli) /\ n % Milli < Milli /\ (n % Milli) \in Nat
    BY <2>1, <2>3, <2>4
  <2>6. time = q * Milli
    BY <2>2, <2>4 DEF EdgeTime
  <2>7. q * Milli \in Int
    BY <2>1, <2>5
  <2>8. PICK m : m = q * Milli
    OBVIOUS
  <2>9. PICK rest : rest = (n % Milli)
    OBVIOUS
  <2>10. m \in Int /\ n = m + rest /\ rest < Milli /\ rest \in Nat
    BY <2>5, <2>7, <2>8, <2>9
  <2>11. clock < m + Milli + MaxBehind
    BY <2>1, <2>3, <2>10
  <2> QED
    BY <2>6, <2>8, <2>10, <2>11
<1> HIDE DEF time
<1>3. answeredAt \in Int /\ latest \in Int /\ clock \in Nat /\ answer \in Results
  BY DEF DeliveryInvariant, TypeOK
<1>4. time <= Later(latest, time) /\ latest <= Later(latest, time) /\ Later(latest, time) \in Int
  BY <1>2, <1>3 DEF Later
<1>5. CASE Invalid(a, time)
  <2>1. stage' = "rejected" /\ shown' = Unavailable("NO_ASSESSMENT")
    BY <1>1, <1>5 DEF time
  <2>2. shown' \in Results
    BY <2>1, UnavailableResult
  <2>3. time < pub.assessment.computed_at
    BY <1>2, <1>5, OnlyTheClockRejects DEF AnswersFor, Tracks
  <2> QED
    BY <1>1, <1>2, <1>3, <1>4, <2>1, <2>2, <2>3
    DEF DeliveryInvariant, TypeOK, Followed, time
<1>6. CASE ~Invalid(a, time)
  <2>1. stage' = "held" /\ shown' = ValidateAssessment(a, time)
    BY <1>1, <1>6 DEF time
  <2>2. /\ shown' \in Results /\ WellFormed(shown') /\ Tracks(shown', a, time)
        /\ Downgrade(a, shown')
    BY <1>2, <2>1, CheckedResult
  <2>3. Tracks(shown', answer, Later(latest, time))
    BY <1>2, <1>3, <2>2, TrackedTwice
  <2> QED
    BY <1>1, <1>2, <1>3, <1>4, <2>1, <2>2, <2>3
    DEF DeliveryInvariant, TypeOK, Followed, time
<1> QED
  BY <1>5, <1>6

LEMMA DeliveryInit == Init => DeliveryInvariant
<1> SUFFICES ASSUME Init PROVE DeliveryInvariant
  OBVIOUS
<1>1. Issued(pub)
  BY PublicationIssued DEF Init
<1>2. ValidDeadlines(pub.assessment.freshness)
  BY <1>1, IssuedIsValid
<1>3. Unavailable("NO_ASSESSMENT") \in Results
  BY UnavailableResult
<1>4. clock \in Nat
  BY <1>1 DEF Init, Issued
<1> QED
  BY <1>1, <1>2, <1>3, <1>4 DEF Init, DeliveryInvariant, TypeOK, Followed

LEMMA DeliveryStep == DeliveryInvariant /\ [Next]_vars => DeliveryInvariant' /\ [DowngradeStep]_vars
<1> SUFFICES ASSUME DeliveryInvariant, [Next]_vars
             PROVE  DeliveryInvariant' /\ [DowngradeStep]_vars
  OBVIOUS
<1>0. TypeOK /\ Followed
  BY DEF DeliveryInvariant
<1>1. CASE Tick
  <2>1. DeliveryInvariant'
    BY <1>0, <1>1 DEF Tick, DeliveryInvariant, TypeOK, Followed
  <2>2. stage = "held" => Downgrade(shown, shown)
    <3>1. Severity[shown.freshness_status] \in Int
      BY <1>0 DEF TypeOK, Results, Levels, Severity
    <3> QED
      BY <3>1 DEF Downgrade
  <2> QED
    BY <1>1, <2>1, <2>2 DEF Tick, DowngradeStep
<1>2. CASE Answer
  <2>1. PICK k \in DbSkews : /\ answeredAt' = clock + k /\ latest' = clock + k
                             /\ answer' = DatabaseResult(pub, clock + k)
    BY <1>2 DEF Answer
  <2>2. clock + k \in Int
    BY <1>0, ClockAssumption DEF TypeOK
  <2>3. AnswersFor(answer', pub, clock + k)
    BY <1>0, <2>1, <2>2, DatabaseAnswers DEF Followed
  <2>4. answer' \in Results
    BY <2>3 DEF AnswersFor
  <2>5. DeliveryInvariant'
    BY <1>0, <1>2, <2>1, <2>2, <2>3, <2>4 DEF Answer, DeliveryInvariant, TypeOK, Followed
  <2> QED
    BY <1>2, <2>5 DEF Answer, DowngradeStep
<1>3. CASE Receive
  <2>1. /\ answer \in Results /\ WellFormed(answer) /\ AnswersFor(answer, pub, answeredAt)
        /\ answeredAt <= latest /\ Tracks(answer, answer, latest)
    BY <1>0, <1>3 DEF Receive, TypeOK, Followed, AnswersFor
  <2>2. DeliveryInvariant' /\ (stage' = "held" => Downgrade(answer, shown'))
    BY <1>3, <2>1, CheckFollows DEF Receive
  <2> QED
    BY <1>3, <2>2 DEF Receive, DowngradeStep
<1>4. CASE Recheck
  <2>1. /\ shown \in Results /\ WellFormed(shown) /\ AnswersFor(answer, pub, answeredAt)
        /\ answeredAt <= latest /\ Tracks(shown, answer, latest)
    BY <1>0, <1>4 DEF Recheck, TypeOK, Followed
  <2>2. DeliveryInvariant' /\ (stage' = "held" => Downgrade(shown, shown'))
    BY <1>4, <2>1, CheckFollows DEF Recheck
  <2> QED
    BY <1>4, <2>2 DEF Recheck, DowngradeStep
<1>5. CASE NextRequest
  <2>1. Unavailable("NO_ASSESSMENT") \in Results
    BY UnavailableResult
  <2> QED
    BY <1>0, <1>5, <2>1 DEF NextRequest, DeliveryInvariant, TypeOK, Followed, DowngradeStep
<1>6. CASE UNCHANGED vars
  BY <1>0, <1>6 DEF vars, DeliveryInvariant, TypeOK, Followed
<1> QED
  BY <1>1, <1>2, <1>3, <1>4, <1>5, <1>6 DEF Next

LEMMA DeliveryInvariance == Spec => []DeliveryInvariant
  BY DeliveryInit, DeliveryStep, PTL DEF Spec

------------------------------------------------------------------------------
(* The theorems. *)

\* Every variable keeps its shape, and the stamp of the ingestion meets the contract
\* of class Freshness.
THEOREM TypeCorrect == Spec => []TypeOK
<1>1. DeliveryInvariant => TypeOK
  BY DEF DeliveryInvariant
<1> QED
  BY <1>1, DeliveryInvariance, PTL

\* get_latest_risk_assessment answers by snapshot_freshness and Freshness.status_at,
\* for all age limits, at every statement time from the computation on.
THEOREM TheDatabaseFollowsThePolicy == Spec => []DatabaseFollowsPolicy
<1>1. DeliveryInvariant => DatabaseFollowsPolicy
  BY DEF DeliveryInvariant, Followed, TypeOK, Issued, AnswersFor,
         DatabaseFollowsPolicy, Whole, Policy, Current
<1> QED
  BY <1>1, DeliveryInvariance, PTL

\* After any number of validateAssessment calls at any readings of the edge clock, what
\* the Worker holds is usable exactly when the policy says so at the latest reading.
THEOREM TheWorkerFollowsThePolicy == Spec => []WorkerFollowsPolicy
<1>1. ASSUME DeliveryInvariant PROVE WorkerFollowsPolicy
  <2> SUFFICES ASSUME stage = "held", Whole, answeredAt >= pub.assessment.computed_at
               PROVE  /\ Usable(shown) <=> pub.assessment.score # NoScore /\ Current(latest)
                      /\ Usable(shown) => /\ shown.freshness_status = Lower[Policy(latest)]
                                          /\ shown.score = pub.assessment.score
    BY DEF WorkerFollowsPolicy
  <2> DEFINE a == pub.assessment
             f == a.freshness
  <2>1. /\ Issued(pub) /\ AnswersFor(answer, pub, answeredAt) /\ answeredAt <= latest
        /\ Tracks(shown, answer, latest) /\ answeredAt \in Int /\ latest \in Int
    BY <1>1 DEF DeliveryInvariant, Followed, TypeOK
  <2>2. a.computed_at \in Nat /\ (Dated(a) \/ Undated(a))
    BY <2>1 DEF Issued
  <2>3. a.computed_at <= latest
    BY <2>1, <2>2
  <2>4. /\ Usable(answer) <=> a.score # NoScore /\ StatusAt(f, answeredAt) \in {"FRESH", "DEGRADED"}
        /\ answer.freshness_status = Lower[StatusAt(f, answeredAt)]
        /\ answer.expires_at = f.expires_at /\ answer.fresh_until = f.fresh_until
        /\ Usable(answer) => answer.score = a.score
    BY <2>1, <2>2 DEF AnswersFor, Whole
  <2> DEFINE was == StatusAt(f, answeredAt)
             is == StatusAt(f, latest)
  <2>5. /\ is \in {"FRESH", "DEGRADED"} => was \in {"FRESH", "DEGRADED"}
        /\ a.score # NoScore =>
             (is \in {"FRESH", "DEGRADED"} <=>
                was \in {"FRESH", "DEGRADED"} /\ latest < f.expires_at)
        /\ is \in {"FRESH", "DEGRADED"} =>
             is = IF was = "FRESH" /\ latest < f.fresh_until THEN "FRESH" ELSE "DEGRADED"
    <3> HIDE DEF a
    <3> QED
      BY <2>1, <2>2, <2>3 DEF StatusAt, Dated, Undated, NoTime
  <2>6. Lower["FRESH"] = "fresh" /\ Lower["DEGRADED"] = "degraded"
    BY DEF Lower
  <2> HIDE DEF was, is
  <2>7. /\ Usable(shown) <=> a.score # NoScore /\ is \in {"FRESH", "DEGRADED"}
        /\ Usable(shown) => shown.score = a.score /\ shown.freshness_status = Lower[is]
    BY <2>1, <2>4, <2>5, <2>6 DEF Tracks, was
  <2> QED
    BY <2>7 DEF Current, Policy, is
<1> QED
  BY <1>1, DeliveryInvariance, PTL

\* A row without its snapshot row or its evidence batch, or one from the database's
\* future, never becomes usable.
THEOREM PartialIsNeverUsable == Spec => []NothingFromAPartialPublication
<1>1. DeliveryInvariant => NothingFromAPartialPublication
  BY DEF DeliveryInvariant, Followed, TypeOK, Issued, AnswersFor, Tracks,
         NothingFromAPartialPublication, Whole
<1> QED
  BY <1>1, DeliveryInvariance, PTL

\* The checks that throw "Invalid assessment" throw of what the database answers only
\* when the edge clock is behind the computation.
THEOREM OnlyClocksReject == Spec => []WorkerAcceptsDatabaseResults
<1>1. DeliveryInvariant => WorkerAcceptsDatabaseResults
  BY DEF DeliveryInvariant, Followed, WorkerAcceptsDatabaseResults
<1> QED
  BY <1>1, DeliveryInvariance, PTL

\* A clock of milliseconds that is behind by at most MaxBehind lets an assessment pass
\* after its deadline by less than a millisecond more than that.
THEOREM LateUse == Spec => []LateUseIsBounded
<1>1. ASSUME DeliveryInvariant PROVE LateUseIsBounded
  <2> SUFFICES ASSUME stage = "held", Usable(shown)
               PROVE  checkedAt < shown.expires_at + Milli + MaxBehind
    BY DEF LateUseIsBounded
  <2>1. /\ latest < shown.expires_at /\ edge <= latest
        /\ checkedAt < edge + Milli + MaxBehind
    BY <1>1 DEF DeliveryInvariant, Followed, Tracks
  <2>2. /\ latest \in Int /\ edge \in Int /\ checkedAt \in Nat /\ shown.expires_at \in Int
        /\ Milli \in Nat /\ MaxBehind \in Nat
    BY <1>1, ClockAssumption DEF DeliveryInvariant, TypeOK, Results
  <2> QED
    BY <2>1, <2>2
<1> QED
  BY <1>1, DeliveryInvariance, PTL

\* contracts.ts: checks never change stored scores or extend deadlines.
THEOREM ChecksOnlyDowngrade == Spec => NeverUpgraded
  BY DeliveryInvariance, DeliveryStep, PTL DEF Spec, NeverUpgraded
=============================================================================
