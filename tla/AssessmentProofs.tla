--------------------------- MODULE AssessmentProofs ---------------------------
(***************************************************************************)
(* What the scorer, the database and the Worker say of one assessment, for   *)
(* every time of observation, computation and delivery and all age limits.   *)
(***************************************************************************)
EXTENDS AssessmentDelivery, TLAPS

\* An assessment by its age at its computation: current, old, or too old to be dated.
LEMMA AssessCurrent ==
  ASSUME NEW id, NEW b \in Nat, NEW at \in Int, b <= at, at - b <= StaleAge, NEW complete \in BOOLEAN
  PROVE  LET a == Assess(id, b, at, 50, complete) IN
         /\ a.id = id /\ a.computed_at = at
         /\ a.score = IF complete THEN 50 ELSE NoScore
         /\ a.freshness_status = IF at - b <= FreshAge THEN "fresh" ELSE "degraded"
         /\ a.freshness.status = IF at - b <= FreshAge THEN "FRESH" ELSE "DEGRADED"
         /\ a.freshness.evaluated_at = at
         /\ a.freshness.fresh_until = b + FreshAge + 1
         /\ a.freshness.expires_at = b + StaleAge + 1
         /\ a.freshness.unknown_after = b + UnknownAge + 1
<1> DEFINE f == SnapshotFreshness(b, at)
           st == AgeStatus(at - b)
<1>1. /\ st = IF at - b <= FreshAge THEN "FRESH" ELSE "DEGRADED"
      /\ st \in {"FRESH", "DEGRADED"}
  BY AgeAssumption DEF AgeStatus
<1>2. /\ f.status = st /\ f.evaluated_at = at /\ f.fresh_until = b + FreshAge + 1
      /\ f.expires_at = b + StaleAge + 1 /\ f.unknown_after = b + UnknownAge + 1
  BY <1>1 DEF SnapshotFreshness, Step
<1>3. Lower[st] = IF at - b <= FreshAge THEN "fresh" ELSE "degraded"
  BY <1>1 DEF Lower
<1> HIDE DEF f, st
<1> QED
  BY <1>1, <1>2, <1>3 DEF Assess, f

LEMMA AssessOld ==
  ASSUME NEW id, NEW b \in Nat, NEW at \in Int, b <= at, at - b > StaleAge, NEW complete \in BOOLEAN
  PROVE  LET a == Assess(id, b, at, 50, complete) IN
         /\ a.id = id /\ a.computed_at = at /\ a.score = NoScore
         /\ a.freshness.evaluated_at = at
         /\ \/ /\ at - b <= UnknownAge /\ a.freshness_status = "stale"
               /\ a.freshness.status = "STALE"
               /\ a.freshness.fresh_until = b + FreshAge + 1
               /\ a.freshness.expires_at = b + StaleAge + 1
               /\ a.freshness.unknown_after = b + UnknownAge + 1
            \/ /\ at - b > UnknownAge /\ a.freshness_status = "unknown"
               /\ a.freshness.status = "UNKNOWN"
               /\ a.freshness.fresh_until = NoTime /\ a.freshness.expires_at = NoTime
               /\ a.freshness.unknown_after = NoTime
<1> DEFINE f == SnapshotFreshness(b, at)
           st == AgeStatus(at - b)
<1>1. \/ st = "STALE" /\ at - b <= UnknownAge
      \/ st = "UNKNOWN" /\ at - b > UnknownAge
  BY AgeAssumption DEF AgeStatus
<1>2. /\ f.status = st /\ f.evaluated_at = at
      /\ st # "UNKNOWN" => /\ f.fresh_until = b + FreshAge + 1
                           /\ f.expires_at = b + StaleAge + 1
                           /\ f.unknown_after = b + UnknownAge + 1
      /\ st = "UNKNOWN" => /\ f.fresh_until = NoTime /\ f.expires_at = NoTime
                           /\ f.unknown_after = NoTime
  BY DEF SnapshotFreshness, Step
<1>3. Lower["STALE"] = "stale" /\ Lower["UNKNOWN"] = "unknown"
  BY DEF Lower
<1> HIDE DEF f, st
<1> QED
  BY <1>1, <1>2, <1>3 DEF Assess, f

\* What assess_snapshot issues, the database's own check of deadlines accepts.
LEMMA AssessConsistent ==
  ASSUME NEW id, NEW b \in Nat, NEW at \in Int, b <= at, NEW complete \in BOOLEAN
  PROVE  ~InconsistentDeadlines(Assess(id, b, at, 50, complete))
<1> DEFINE a == Assess(id, b, at, 50, complete)
<1>1. \/ /\ a.computed_at = at
         /\ a.freshness.fresh_until = b + FreshAge + 1
         /\ a.freshness.expires_at = b + StaleAge + 1
         /\ a.freshness.unknown_after = b + UnknownAge + 1
         /\ \/ a.freshness_status = "fresh" /\ at - b <= FreshAge
            \/ a.freshness_status = "degraded" /\ at - b <= StaleAge
            \/ a.freshness_status = "stale" /\ at - b > StaleAge /\ at - b <= UnknownAge
      \/ /\ a.freshness_status = "unknown"
         /\ a.freshness.fresh_until = NoTime /\ a.freshness.expires_at = NoTime
         /\ a.freshness.unknown_after = NoTime
  <2>1. CASE at - b <= StaleAge
    BY <2>1, AssessCurrent
  <2>2. CASE at - b > StaleAge
    BY <2>2, AssessOld
  <2> QED
    BY <2>1, <2>2, AgeAssumption
<1> HIDE DEF a
<1>2. ~InconsistentDeadlines(a)
  BY <1>1, AgeAssumption DEF InconsistentDeadlines, NoTime
<1> QED
  BY <1>2 DEF a

\* The database offers an assessment exactly while it is whole, scored, not from the
\* future and not expired.
Offers(a, snap, ev, t) ==
  LET r == DatabaseResult([assessment |-> a, snapshot |-> snap, evidence |-> ev], t) IN
  /\ Usable(r) <=> /\ a.id # NoId /\ snap /\ ev /\ a.computed_at <= t
                   /\ a.score # NoScore /\ t < a.freshness.expires_at
  /\ Usable(r) => r.assessment_id = a.id /\ r.calculated_at = a.computed_at

LEMMA OfferedWhile ==
  ASSUME NEW id, NEW b \in Nat, NEW at \in Int, b <= at, NEW complete \in BOOLEAN,
         NEW snap \in BOOLEAN, NEW ev \in BOOLEAN, NEW t \in Int
  PROVE  Offers(Assess(id, b, at, 50, complete), snap, ev, t)
<1> DEFINE a == Assess(id, b, at, 50, complete)
           p == [assessment |-> a, snapshot |-> snap, evidence |-> ev]
           r == DatabaseResult(p, t)
           whole == id # NoId /\ snap /\ ev /\ at <= t
<1>1. a.id = id /\ a.computed_at = at
  BY DEF Assess
<1>2. ~InconsistentDeadlines(a)
  BY AssessConsistent
<1>3. \A reason : ~Usable(Unavailable(reason))
  BY DEF Usable, Actionable, Unavailable
<1>4. r = IF id = NoId THEN Unavailable("NO_ASSESSMENT")
          ELSE IF ~(snap /\ ev) THEN Unavailable("INCOMPLETE_PUBLICATION")
          ELSE IF at > t THEN Unavailable("INVALID_PUBLICATION")
          ELSE Projection(a, t)
  <2>1. p.assessment = a /\ p.snapshot = snap /\ p.evidence = ev
    OBVIOUS
  <2> HIDE DEF a, p
  <2> QED
    BY <1>1, <1>2, <2>1 DEF DatabaseResult
<1>5. /\ Usable(Projection(a, t)) <=> /\ DeliveredFreshness(a, t) \in {"fresh", "degraded"}
                                      /\ a.score # NoScore
      /\ Projection(a, t).assessment_id = id /\ Projection(a, t).calculated_at = at
  <2> HIDE DEF a
  <2> QED
    BY <1>1 DEF Projection, Usable, Actionable
<1>6. a.score # NoScore =>
        (DeliveredFreshness(a, t) \in {"fresh", "degraded"} <=> t < a.freshness.expires_at)
  <2>1. CASE at - b <= StaleAge
    <3>1. /\ a.freshness_status \in {"fresh", "degraded"}
          /\ a.freshness.fresh_until = b + FreshAge + 1
          /\ a.freshness.expires_at = b + StaleAge + 1
          /\ a.freshness.unknown_after = b + UnknownAge + 1
      BY <2>1, AssessCurrent
    <3> HIDE DEF a
    <3> QED
      BY <3>1, AgeAssumption DEF DeliveredFreshness, NoTime
  <2>2. CASE at - b > StaleAge
    BY <2>2, AssessOld
  <2> QED
    BY <2>1, <2>2, AgeAssumption
<1> HIDE DEF a, r
<1>7. (Usable(r) <=> whole /\ a.score # NoScore /\ t < a.freshness.expires_at)
      /\ (Usable(r) => r.assessment_id = id /\ r.calculated_at = at)
  BY <1>3, <1>4, <1>5, <1>6
<1> QED
  BY <1>1, <1>7 DEF Offers, a, r, p
=============================================================================
