--------------------------- MODULE FreshnessPolicy ---------------------------
(***************************************************************************)
(* The snapshot acquisition-age policy of risk_oracle/freshness_policy.py   *)
(* and the deadline contract of risk_oracle/models.py (class Freshness).    *)
(*                                                                         *)
(* Times are integers: one unit is the resolution of the timestamps, one   *)
(* microsecond in the code.  A null timestamp is NoTime.  Reasons are       *)
(* wording and are left out.                                                *)
(***************************************************************************)
EXTENDS Integers

CONSTANTS FreshAge,    \* 25 minutes: the oldest age that is FRESH
          StaleAge,    \* 45 minutes: the oldest age that is DEGRADED
          UnknownAge   \* 90 minutes: the oldest age that is STALE

ASSUME AgeAssumption ==
  /\ FreshAge \in Nat /\ StaleAge \in Nat /\ UnknownAge \in Nat
  /\ FreshAge < StaleAge /\ StaleAge < UnknownAge

NoTime == -1
Step == 1               \* timedelta(microseconds=1)

Statuses == {"FRESH", "DEGRADED", "STALE", "UNKNOWN"}
Levels   == {"fresh", "degraded", "stale", "unknown"}

\* status.value.lower()
Lower == [FRESH |-> "fresh", DEGRADED |-> "degraded",
          STALE |-> "stale", UNKNOWN |-> "unknown"]

\* How bad a freshness level is: a delivery may only move upwards.
Severity == [fresh |-> 0, degraded |-> 1, stale |-> 2, unknown |-> 3]

AgeStatus(age) ==
  IF age <= FreshAge THEN "FRESH"
  ELSE IF age <= StaleAge THEN "DEGRADED"
  ELSE IF age <= UnknownAge THEN "STALE"
  ELSE "UNKNOWN"

\* Faulty variant: the deadlines fall on the last admissible instant, not after it.
FreshnessWithoutStep(observed, at) ==
  LET status == AgeStatus(at - observed)
      Until(age) == IF status = "UNKNOWN" THEN NoTime ELSE observed + age
  IN  [status |-> status, evaluated_at |-> at,
       fresh_until   |-> Until(FreshAge),
       expires_at    |-> Until(StaleAge),
       unknown_after |-> Until(UnknownAge)]

\* snapshot_freshness; its guard (age < 0 raises) is the caller's.
SnapshotFreshness(observed, at) ==
  LET status == AgeStatus(at - observed)
      Until(age) == IF status = "UNKNOWN" THEN NoTime ELSE observed + age + Step
  IN  [status |-> status, evaluated_at |-> at,
       fresh_until   |-> Until(FreshAge),
       expires_at    |-> Until(StaleAge),
       unknown_after |-> Until(UnknownAge)]

\* Freshness.valid_deadlines: the contract every Freshness value is built under.
ValidDeadlines(f) ==
  /\ f.status = "UNKNOWN" => f.fresh_until = NoTime /\ f.expires_at = NoTime
  /\ f.status # "UNKNOWN" =>
       /\ f.fresh_until # NoTime /\ f.expires_at # NoTime
       /\ f.fresh_until <= f.expires_at
       /\ f.status = "STALE" <=> f.evaluated_at >= f.expires_at
       /\ f.status = "FRESH" => f.evaluated_at < f.fresh_until
  /\ f.unknown_after # NoTime =>
       /\ f.expires_at # NoTime /\ f.unknown_after >= f.expires_at
       /\ f.evaluated_at < f.unknown_after

\* Freshness.status_at, for at >= evaluated_at (earlier raises).
StatusAt(f, at) ==
  IF f.status = "UNKNOWN" \/ (f.unknown_after # NoTime /\ at >= f.unknown_after)
  THEN "UNKNOWN"
  ELSE IF at >= f.expires_at THEN "STALE"
  ELSE IF at >= f.fresh_until \/ f.status = "DEGRADED" THEN "DEGRADED"
  ELSE "FRESH"
=============================================================================
