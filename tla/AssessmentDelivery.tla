-------------------------- MODULE AssessmentDelivery --------------------------
(***************************************************************************)
(* What happens to one published assessment on its way to a buyer, as the   *)
(* three programs that handle it compute it:                                *)
(*   - Assess: scoring_v01.assess_snapshot stamps it with freshness;        *)
(*   - DatabaseResult: get_latest_risk_assessment projects the newest row;  *)
(*   - ValidateAssessment: the Worker checks and downgrades what it was     *)
(*     given, at every delivery-time check (worker/src/contracts.ts).       *)
(*                                                                         *)
(* "score" stands for the score, risk level, confidence and factors, which  *)
(* are null or present together; NoScore is null.                           *)
(***************************************************************************)
EXTENDS FreshnessPolicy

NoScore == -1
NoId    == 0

\* The assessment scoring_v01 hands to the writer.  No current score is issued
\* for data that is not current, nor when a factor is unknown (complete = FALSE).
Assess(id, observed, at, score, complete) ==
  LET f == SnapshotFreshness(observed, at)
  IN  [id |-> id, computed_at |-> at, freshness |-> f,
       freshness_status |-> Lower[f.status],
       score |-> IF complete /\ f.status \in {"FRESH", "DEGRADED"}
                 THEN score ELSE NoScore]

(***************************************************************************)
(* The database function.  A publication p is the newest assessments row    *)
(* with the answers to "is its snapshot row there" and "is its evidence     *)
(* batch there"; the batch is one statement, so it is there or it is not.   *)
(***************************************************************************)

Unavailable(reason) ==
  [assessment_id |-> NoId, status |-> "UNKNOWN", freshness_status |-> "unknown",
   reason |-> reason, score |-> NoScore, calculated_at |-> NoTime,
   fresh_until |-> NoTime, expires_at |-> NoTime, unknown_after |-> NoTime]

\* The deadline consistency check before any freshness is computed.
InconsistentDeadlines(a) ==
  LET f == a.freshness IN
  \/ a.freshness_status = "unknown" /\ (f.fresh_until # NoTime \/ f.expires_at # NoTime)
  \/ /\ a.freshness_status # "unknown"
     /\ \/ f.fresh_until = NoTime \/ f.expires_at = NoTime
        \/ f.fresh_until > f.expires_at
        \/ a.freshness_status = "fresh" /\ a.computed_at >= f.fresh_until
        \/ a.freshness_status = "degraded" /\ a.computed_at >= f.expires_at
        \/ a.freshness_status = "stale" /\ a.computed_at < f.expires_at
  \/ /\ f.unknown_after # NoTime
     /\ \/ f.expires_at = NoTime \/ f.unknown_after < f.expires_at
        \/ a.computed_at >= f.unknown_after

\* Faulty variant: a deadline is passed only after it.
DeliveredAfterDeadlines(a, t) ==
  LET f == a.freshness
      Passed(deadline) == deadline # NoTime /\ t > deadline
  IN  IF a.freshness_status = "unknown" \/ Passed(f.unknown_after) THEN "unknown"
      ELSE IF a.freshness_status = "stale" \/ Passed(f.expires_at) THEN "stale"
      ELSE IF a.freshness_status = "degraded" \/ Passed(f.fresh_until) THEN "degraded"
      ELSE "fresh"

\* freshness := CASE ...; a comparison with a null deadline is not true.
DeliveredFreshness(a, t) ==
  LET f == a.freshness
      Passed(deadline) == deadline # NoTime /\ t >= deadline
  IN  IF a.freshness_status = "unknown" \/ Passed(f.unknown_after) THEN "unknown"
      ELSE IF a.freshness_status = "stale" \/ Passed(f.expires_at) THEN "stale"
      ELSE IF a.freshness_status = "degraded" \/ Passed(f.fresh_until) THEN "degraded"
      ELSE "fresh"

\* The projection of a complete and consistent row at delivery_time t.
Projection(a, t) ==
  LET level == DeliveredFreshness(a, t)
      usable == level \in {"fresh", "degraded"} /\ a.score # NoScore
  IN  [assessment_id |-> a.id,
       status |-> CASE usable /\ level = "fresh" -> "OK"
                    [] usable /\ level = "degraded" -> "DEGRADED"
                    [] level = "stale" -> "STALE"
                    [] OTHER -> "UNKNOWN",
       freshness_status |-> level,
       reason |-> CASE usable -> "none"
                    [] level \in {"stale", "unknown"} /\ a.freshness_status # "unknown"
                         -> "EXPIRED_ASSESSMENT"
                    [] OTHER -> "ASSESSMENT_UNKNOWN",
       score |-> IF usable THEN a.score ELSE NoScore,
       calculated_at |-> a.computed_at,
       fresh_until |-> a.freshness.fresh_until,
       expires_at |-> a.freshness.expires_at,
       unknown_after |-> a.freshness.unknown_after]

\* Faulty variant: the companions of the row are not asked for.
ResultOfAnyRow(p, t) ==
  IF p.assessment.computed_at > t \/ InconsistentDeadlines(p.assessment)
  THEN Unavailable("INVALID_PUBLICATION")
  ELSE Projection(p.assessment, t)

\* get_latest_risk_assessment for the newest row, at statement time t.
DatabaseResult(p, t) ==
  CASE p.assessment.id = NoId -> Unavailable("NO_ASSESSMENT")
    [] p.assessment.id # NoId /\ ~(p.snapshot /\ p.evidence)
         -> Unavailable("INCOMPLETE_PUBLICATION")
    [] p.assessment.id # NoId /\ p.snapshot /\ p.evidence
         -> IF p.assessment.computed_at > t \/ InconsistentDeadlines(p.assessment)
            THEN Unavailable("INVALID_PUBLICATION")
            ELSE Projection(p.assessment, t)

(***************************************************************************)
(* The Worker's validateAssessment(a, time).                                *)
(***************************************************************************)

Actionable(a) == a.status \in {"OK", "DEGRADED"}
Usable(a) == Actionable(a)

\* Faulty variant: an actionable assessment is required to have been fresh once.
InvalidIfBornDegraded(a, time) ==
  \/ a.calculated_at # NoTime /\ a.calculated_at > time
  \/ Actionable(a) /\ a.fresh_until <= a.calculated_at

\* The checks that throw "Invalid assessment".
Invalid(a, time) ==
  \/ a.calculated_at # NoTime /\ a.calculated_at > time
  \/ (a.fresh_until = NoTime) # (a.expires_at = NoTime)
  \/ a.fresh_until # NoTime /\ a.fresh_until > a.expires_at
  \/ a.unknown_after # NoTime /\ (a.expires_at = NoTime \/ a.unknown_after < a.expires_at)
  \/ /\ Actionable(a)
     /\ \/ a.assessment_id = NoId \/ a.calculated_at = NoTime
        \/ a.fresh_until = NoTime \/ a.expires_at <= a.calculated_at
        \/ a.score = NoScore \/ a.reason # "none"
        \/ a.freshness_status # (IF a.status = "OK" THEN "fresh" ELSE "degraded")
  \/ /\ ~Actionable(a)
     /\ \/ a.score # NoScore \/ a.reason = "none"
        \/ a.status = "STALE" /\ a.freshness_status # "stale"

Mask(a, status, freshness) ==
  [a EXCEPT !.status = status, !.freshness_status = freshness,
            !.reason = "EXPIRED_ASSESSMENT", !.score = NoScore]

\* Faulty variants: the expiry deadline is exclusive; it is not checked at all; the
\* level is computed again from the deadlines alone.
ValidateAfterExpiry(a, time) ==
  IF a.unknown_after # NoTime /\ time > a.unknown_after
  THEN Mask(a, "UNKNOWN", "unknown")
  ELSE IF a.expires_at # NoTime /\ time > a.expires_at
  THEN Mask(a, IF a.status = "UNKNOWN" THEN "UNKNOWN" ELSE "STALE", "stale")
  ELSE a

ValidateWithoutExpiry(a, time) ==
  IF a.freshness_status = "fresh" /\ a.fresh_until # NoTime /\ time >= a.fresh_until
  THEN [a EXCEPT !.status = IF a.status = "OK" THEN "DEGRADED" ELSE a.status,
                 !.freshness_status = "degraded"]
  ELSE a

ValidateAfresh(a, time) ==
  IF a.expires_at # NoTime /\ time >= a.expires_at
  THEN Mask(a, IF a.status = "UNKNOWN" THEN "UNKNOWN" ELSE "STALE", "stale")
  ELSE IF ~Actionable(a) THEN a
  ELSE [a EXCEPT !.status = IF time < a.fresh_until THEN "OK" ELSE "DEGRADED",
                 !.freshness_status = IF time < a.fresh_until THEN "fresh" ELSE "degraded"]

\* Delivery-time downgrades only; meaningful when ~Invalid(a, time).
ValidateAssessment(a, time) ==
  IF a.unknown_after # NoTime /\ time >= a.unknown_after
  THEN Mask(a, "UNKNOWN", "unknown")
  ELSE IF a.expires_at # NoTime /\ time >= a.expires_at
  THEN Mask(a, IF a.status = "UNKNOWN" THEN "UNKNOWN" ELSE "STALE", "stale")
  ELSE IF a.freshness_status = "fresh" /\ a.fresh_until # NoTime /\ time >= a.fresh_until
  THEN [a EXCEPT !.status = IF a.status = "OK" THEN "DEGRADED" ELSE a.status,
                 !.freshness_status = "degraded"]
  ELSE a

\* What a delivery may do to an assessment: leave it, or make it worse.
Downgrade(before, after) ==
  /\ Usable(after) =>
       /\ Usable(before)
       /\ Severity[after.freshness_status] >= Severity[before.freshness_status]
  /\ after.score \in {before.score, NoScore}
  /\ after.fresh_until = before.fresh_until
  /\ after.expires_at = before.expires_at
  /\ after.unknown_after = before.unknown_after
  /\ after.assessment_id = before.assessment_id
=============================================================================
