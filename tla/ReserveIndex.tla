----------------------------- MODULE ReserveIndex -----------------------------
(***************************************************************************)
(* The v0.1 reserve-condition index of risk_oracle/scoring_v01.py as        *)
(* operators: four factors in exact rationals, each unknown if an input it   *)
(* reads is; their mean with a critical floor, rounded half up; a level, a   *)
(* confidence, and the contract of risk_oracle/models.py on the result.      *)
(*                                                                           *)
(* A snapshot o holds, by field name, the values of its observations, its    *)
(* block's timestamp and finality and the times of the assessment.  missing  *)
(* names the observations that _Inputs.get refuses: absent, of another       *)
(* state, unit or type, from another block, from the future, or resting on   *)
(* failed evidence.  Rationals are <<numerator, denominator>> with positive  *)
(* denominators.                                                             *)
(***************************************************************************)
EXTENDS FreshnessPolicy, FiniteSets

CONSTANTS
  BPS,          \* 10_000
  Ray,          \* 10^27
  TokenUnit,    \* 10^6
  Cents         \* units of a score point: 100

ASSUME UnitAssumption ==
  /\ BPS \in Nat \ {0} /\ Ray \in Nat \ {0}
  /\ TokenUnit \in Nat \ {0} /\ Cents \in Nat \ {0}

Adapter == "aave_price_cap_adapter_stable"
ChainlinkProxy == "Chainlink EACAggregatorProxy"
ZeroAddress == "0x0"

------------------------------------------------------------------------------
(* Rationals. *)

Whole(n) == <<n, 1>>
Plus(p, q) == <<p[1] * q[2] + q[1] * p[2], p[2] * q[2]>>
Minus(p, q) == <<p[1] * q[2] - q[1] * p[2], p[2] * q[2]>>
Times(p, q) == <<p[1] * q[1], p[2] * q[2]>>
Over(p, q) == <<p[1] * q[2], p[2] * q[1]>>      \* q > 0
AtMost(p, q) == p[1] * q[2] <= q[1] * p[2]
Equal(p, q) == AtMost(p, q) /\ AtMost(q, p)
Greater(p, q) == IF AtMost(p, q) THEN q ELSE p
Lesser(p, q) == IF AtMost(p, q) THEN p ELSE q
Clip(p) == Lesser(Whole(1), Greater(Whole(0), p))

Unknown == <<>>
Hundred == Whole(100)

------------------------------------------------------------------------------
(* The four factors. *)

OracleAddresses ==
  {"aave_price_oracle", "oracle_source", "oracle_upstream_feed",
   "oracle_feed_proxy", "oracle_feed_aggregator"}

OracleInputs == OracleAddresses \cup
  {"oracle_source_interface", "oracle_feed_proxy_type", "oracle_feed_is_chainlink",
   "oracle_feed_decimals", "oracle_source_decimals", "oracle_feed_latest_answer",
   "oracle_source_latest_answer", "oracle_source_price_cap",
   "oracle_feed_updated_at", "oracle_feed_heartbeat"}

MaxDecimals == 255

\* The supported relationship: a verified adapter over a verified Chainlink proxy.
Identity(o) ==
  /\ \A a \in OracleAddresses : o[a] # ZeroAddress
  /\ o.oracle_source_interface = Adapter /\ o.oracle_feed_proxy_type = ChainlinkProxy
  /\ o.oracle_feed_is_chainlink /\ o.oracle_feed_proxy = o.oracle_upstream_feed

\* Faulty variant: answers of different scales are compared as they are.
AdapterMatchesRaw(o) ==
  o.oracle_source_latest_answer =
    (IF o.oracle_feed_latest_answer <= o.oracle_source_price_cap
     THEN o.oracle_feed_latest_answer ELSE o.oracle_source_price_cap)

\* The adapter's answer is min(feed, cap), each at its own scale.
AdapterMatches(o) ==
  LET feed_unit == 10 ^ o.oracle_feed_decimals
      source_unit == 10 ^ o.oracle_source_decimals
  IN  Equal(<<o.oracle_source_latest_answer, source_unit>>,
            Lesser(<<o.oracle_feed_latest_answer, feed_unit>>,
                   <<o.oracle_source_price_cap, source_unit>>))

Oracle(o, missing) ==
  LET heartbeat == o.oracle_feed_heartbeat
      age == o.block_timestamp - o.oracle_feed_updated_at
  IN  IF \/ OracleInputs \cap missing # {}
         \/ ~Identity(o) \/ heartbeat <= 0 \/ o.oracle_source_price_cap < 0
         \/ o.oracle_feed_decimals > MaxDecimals \/ o.oracle_source_decimals > MaxDecimals
         \/ o.oracle_feed_updated_at <= 0 \/ age < 0
      THEN Unknown
      ELSE IF \/ o.oracle_feed_latest_answer <= 0 \/ o.oracle_source_latest_answer <= 0
              \/ ~AdapterMatches(o)
      THEN Hundred
      ELSE Times(Hundred, Clip(<<age - heartbeat, heartbeat>>))

LiquidityInputs ==
  {"total_supplied", "variable_debt", "available_liquidity",
   "virtual_available_liquidity", "optimal_utilization"}

\* Faulty variant: the part above the kink is not measured from it.
UtilizationRampFromZero(e, kink) ==
  IF AtMost(e, kink) THEN Over(Times(Whole(50), e), kink) ELSE Times(Hundred, e)

UtilizationRamp(e, kink) ==
  IF AtMost(e, kink) THEN Over(Times(Whole(50), e), kink)
  ELSE Plus(Whole(50),
            Over(Times(Whole(50), Minus(e, kink)), Minus(Whole(1), kink)))

Liquidity(o, missing) ==
  LET total == o.variable_debt + o.virtual_available_liquidity
      utilization == <<o.variable_debt, total>>
      pressure == Clip(<<o.total_supplied - o.available_liquidity, o.total_supplied>>)
  IN  IF \/ LiquidityInputs \cap missing # {}
         \/ o.total_supplied <= 0 \/ total <= 0
         \/ o.optimal_utilization <= 0 \/ o.optimal_utilization >= Ray
      THEN Unknown
      ELSE UtilizationRamp(Greater(utilization, pressure), <<o.optimal_utilization, Ray>>)

CollateralInputs == {"ltv", "liquidation_threshold", "liquidation_bonus"}

Collateral(o, missing) ==
  LET l == o.ltv
      t == o.liquidation_threshold
      b == o.liquidation_bonus
  IN  IF CollateralInputs \cap missing # {} THEN Unknown
      ELSE IF l = 0 /\ t = 0 /\ b = 0 THEN Whole(0)
      ELSE IF l > t \/ t > BPS \/ b <= BPS \/ t * b >= BPS * BPS THEN Hundred
      ELSE IF l = t /\ t > 0 THEN Whole(50)
      ELSE Whole(0)

\* Faulty variant: what a cap is compared with counts only where it is known.
RestrictionInputsOfFlags(o) ==
  {"reserve_active", "reserve_paused", "reserve_frozen", "borrowing_enabled",
   "supply_cap", "borrow_cap"}

\* The use of a cap is read only where there is a cap.
RestrictionInputs(o) ==
  {"reserve_active", "reserve_paused", "reserve_frozen", "borrowing_enabled",
   "supply_cap", "borrow_cap"}
  \cup (IF o.supply_cap # 0 THEN {"supply_cap_total_supplied"} ELSE {})
  \cup (IF o.borrow_cap # 0 THEN {"variable_debt"} ELSE {})

Restriction(o, missing) ==
  LET Used(name) == IF name \in missing THEN 0 ELSE o[name]
      reached == \/ /\ o.supply_cap > 0
                    /\ Used("supply_cap_total_supplied") >= o.supply_cap * TokenUnit
                 \/ /\ o.borrow_cap > 0
                    /\ Used("variable_debt") >= o.borrow_cap * TokenUnit
  IN  IF RestrictionInputs(o) \cap missing # {} THEN Unknown
      ELSE IF o.reserve_paused \/ ~o.reserve_active THEN Hundred
      ELSE IF o.reserve_frozen THEN Whole(50)
      ELSE IF ~o.borrowing_enabled \/ reached THEN Whole(25)
      ELSE Whole(0)

\* In the order of FACTOR_NAMES; none is known of a block that is not final.
Factors(o, missing) ==
  IF ~o.block_final THEN [i \in 1..4 |-> Unknown]
  ELSE <<Oracle(o, missing), Liquidity(o, missing), Collateral(o, missing),
         Restriction(o, missing)>>

Inputs == OracleInputs \cup LiquidityInputs \cup CollateralInputs \cup
  {"reserve_active", "reserve_paused", "reserve_frozen", "borrowing_enabled",
   "supply_cap", "borrow_cap", "supply_cap_total_supplied"}

Known(factors) == \A i \in 1..4 : factors[i] # Unknown

------------------------------------------------------------------------------
(* The assessment. *)

NoScore == -1

\* Faulty variant: a factor at its worst is averaged with the others.
MeanOnly(factors) ==
  Over(Plus(Plus(factors[1], factors[2]), Plus(factors[3], factors[4])), Whole(4))

\* The index before rounding.  The floor holds as soon as one factor is at its worst.
Exact(factors) ==
  LET mean == Over(Plus(Plus(factors[1], factors[2]), Plus(factors[3], factors[4])), Whole(4))
  IN  IF \E i \in 1..4 : Equal(factors[i], Hundred) THEN Greater(mean, Whole(75)) ELSE mean

\* Faulty variant: what is left of a cent is cut off.
RoundedDown(p) == (p[1] * Cents) \div p[2]

\* Half up, in units of 1/Cents.
Rounded(p) == (2 * p[1] * Cents + p[2]) \div (2 * p[2])

\* Faulty variant: a score on a threshold stays in the band below it.
LevelUpTo(score) ==
  IF score <= 25 * Cents THEN "low" ELSE IF score <= 50 * Cents THEN "moderate"
  ELSE IF score <= 75 * Cents THEN "high" ELSE "critical"

Level(score) ==
  IF score < 25 * Cents THEN "low" ELSE IF score < 50 * Cents THEN "moderate"
  ELSE IF score < 75 * Cents THEN "high" ELSE "critical"

\* risk_engine.risk_level_for_score, the older scorer whose bands the contract keeps.
RiskLevelForScore(score) ==
  CASE score \in 0..(25 * Cents - 1) -> "low"
    [] score \in (25 * Cents)..(50 * Cents - 1) -> "moderate"
    [] score \in (50 * Cents)..(75 * Cents - 1) -> "high"
    [] OTHER -> "critical"

Confidence(factors, status) ==
  IF ~Known(factors) THEN Unknown
  ELSE IF status = "fresh" THEN <<4, 7>>
  ELSE IF status = "degraded" THEN <<3, 7>> ELSE Whole(0)

Raised == [score |-> NoScore, risk_level |-> "raised"]

\* PrecomputedAssessment.consistent_result and the ranges of its fields.
ConsistentResult(a) ==
  /\ a.freshness_status = Lower[a.freshness.status]
  /\ a.score = NoScore <=> a.risk_level = "unknown"
  /\ a.score = NoScore => a.confidence = Unknown
  /\ a.score # NoScore =>
       /\ a.freshness_status # "unknown" /\ a.score \in 0..(100 * Cents)
       /\ a.risk_level = RiskLevelForScore(a.score) /\ Known(a.factors)
  /\ \A i \in 1..4 : a.factors[i] # Unknown =>
       AtMost(Whole(0), a.factors[i]) /\ AtMost(a.factors[i], Hundred)

\* Faulty variant: the age of the acquisition alone.
ObservedWhenCollected(o) == o.collected_at

\* Old chain state does not become current by being read again.
ObservedAt(o) ==
  IF o.collected_at <= o.block_timestamp THEN o.collected_at ELSE o.block_timestamp

\* assess_snapshot
Assess(o, missing) ==
  LET freshness == SnapshotFreshness(ObservedAt(o), o.calculated_at)
      status == Lower[freshness.status]
      factors == Factors(o, missing)
      actionable == Known(factors) /\ status \in {"fresh", "degraded"}
      score == IF actionable THEN Rounded(Exact(factors)) ELSE NoScore
      result == [score |-> score, factors |-> factors, freshness |-> freshness,
                 freshness_status |-> status,
                 risk_level |-> IF actionable THEN Level(score) ELSE "unknown",
                 confidence |-> IF actionable THEN Confidence(factors, status) ELSE Unknown]
  IN  IF \/ o.collected_at > o.calculated_at
         \/ o.canonicality_checked_at > o.calculated_at
         \/ ~ConsistentResult(result)
      THEN Raised ELSE result
=============================================================================
