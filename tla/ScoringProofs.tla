----------------------------- MODULE ScoringProofs -----------------------------
(***************************************************************************)
(* The index of any snapshot: its factors are percentages whatever the       *)
(* values read, so that the result meets its contract and the rounding and   *)
(* the critical floor do what they say; and losing an observation never      *)
(* changes a score, a worse value never lowers the index, and writing an     *)
(* answer with another digit does nothing.  For all units, age limits and    *)
(* values.                                                                   *)
(***************************************************************************)
EXTENDS Scoring, TLAPS

------------------------------------------------------------------------------
(* Rationals. *)

Positive == Nat \ {0}
Rational(p) == p \in Int \X Positive
Bounded(p, b) == Rational(p) /\ 0 <= p[1] /\ p[1] <= b * p[2]

LEMMA Products ==
  /\ \A a, b \in Int : a * b \in Int
  /\ \A a, b \in Nat : a * b \in Nat
  /\ \A a, b \in Positive : a * b \in Positive
  /\ \A a, b \in Int, c \in Nat : a <= b => a * c <= b * c
<1>1. \A a, b \in Int : a * b \in Int
  OBVIOUS
<1>2. \A a, b \in Nat : a * b \in Nat
  OBVIOUS
<1>3. \A a, b \in Positive : a * b \in Positive
  BY DEF Positive
<1>4. \A a, b \in Int, c \in Nat : a <= b => a * c <= b * c
  OBVIOUS
<1> QED
  BY <1>1, <1>2, <1>3, <1>4

\* A sum of bounded quantities is bounded by the sum.
LEMMA PlusBounded ==
  ASSUME NEW p, NEW q, NEW a \in Nat, NEW b \in Nat, Bounded(p, a), Bounded(q, b)
  PROVE  Bounded(Plus(p, q), a + b)
<1>1. PICK n \in Nat, d \in Positive : p = <<n, d>> /\ n <= a * d
  BY DEF Bounded, Rational
<1>2. PICK m \in Nat, e \in Positive : q = <<m, e>> /\ m <= b * e
  BY DEF Bounded, Rational
<1>3. PICK x \in Nat, y \in Nat, z \in Positive : x = n * e /\ y = m * d /\ z = d * e
  BY Products DEF Positive
<1>4. x <= a * z
  <2>1. n * e <= (a * d) * e
    BY <1>1, Products DEF Positive
  <2> QED
    BY <1>3, <2>1 DEF Positive
<1>5. y <= b * z
  <2>1. m * d <= (b * e) * d
    BY <1>2, Products DEF Positive
  <2> QED
    BY <1>3, <2>1 DEF Positive
<1>6. Plus(p, q) = <<x + y, z>>
  BY <1>1, <1>2, <1>3 DEF Plus
<1>7. x + y <= (a + b) * z
  BY <1>4, <1>5 DEF Positive
<1> QED
  BY <1>6, <1>7 DEF Bounded, Rational, Positive

\* The larger and the smaller of two are one of them.
LEMMA OneOfThem ==
  ASSUME NEW p, NEW q
  PROVE  Greater(p, q) \in {p, q} /\ Lesser(p, q) \in {p, q}
  BY DEF Greater, Lesser

\* What is clipped lies between nothing and all.
LEMMA ClipBounded ==
  ASSUME NEW n \in Int, NEW d \in Positive
  PROVE  Bounded(Clip(<<n, d>>), 1)
<1> DEFINE g == Greater(Whole(0), <<n, d>>)
<1>1. Bounded(Whole(0), 1) /\ Bounded(Whole(1), 1)
  BY DEF Bounded, Rational, Whole, Positive
<1>2. g \in {Whole(0), <<n, d>>} /\ (g = <<n, d>> => 0 <= n) /\ Rational(g) /\ 0 <= g[1]
  BY DEF Greater, AtMost, Whole, Rational, Positive
<1> HIDE DEF g
<1>3. Lesser(Whole(1), g) = Whole(1) \/ (Lesser(Whole(1), g) = g /\ ~AtMost(Whole(1), g))
  BY DEF Lesser
<1>4. ~AtMost(Whole(1), g) => g[1] <= 1 * g[2]
  BY <1>2 DEF AtMost, Whole, Rational, Positive
<1>5. Clip(<<n, d>>) = Lesser(Whole(1), g)
  BY DEF Clip, g
<1> QED
  BY <1>1, <1>2, <1>3, <1>4, <1>5 DEF Bounded

LEMMA HundredTimes ==
  ASSUME NEW p, Bounded(p, 1)
  PROVE  Bounded(Times(Hundred, p), 100)
<1>1. PICK n \in Nat, d \in Positive : p = <<n, d>> /\ n <= d
  BY DEF Bounded, Rational, Positive
<1>2. Times(Hundred, p) = <<100 * n, d>>
  BY <1>1 DEF Times, Hundred, Whole, Positive
<1> QED
  BY <1>1, <1>2 DEF Bounded, Rational, Positive

\* On either side of the kink the pressure stays a percentage.
LEMMA RampBounded ==
  ASSUME NEW p, Bounded(p, 1), NEW k \in Positive, NEW d \in Positive, k < d
  PROVE  Bounded(UtilizationRamp(p, <<k, d>>), 100)
<1>1. PICK n \in Nat, m \in Positive : p = <<n, m>> /\ n <= m
  BY DEF Bounded, Rational, Positive
<1>2. PICK x \in Nat, y \in Positive, w \in Positive : x = n * d /\ y = k * m /\ w = m * d
  BY Products DEF Positive
<1>3. x <= w
  BY <1>1, <1>2, Products DEF Positive
<1>4. AtMost(p, <<k, d>>) <=> x <= y
  BY <1>1, <1>2 DEF AtMost, Positive
<1>5. CASE AtMost(p, <<k, d>>)
  <2>1. UtilizationRamp(p, <<k, d>>) = Over(Times(Whole(50), p), <<k, d>>)
    BY <1>5 DEF UtilizationRamp
  <2>2. Over(Times(Whole(50), p), <<k, d>>) = <<(50 * n) * d, (1 * m) * k>>
    BY <1>1 DEF Over, Times, Whole
  <2>3. (50 * n) * d = 50 * x /\ (1 * m) * k = y
    BY <1>2 DEF Positive
  <2> QED
    BY <1>2, <1>4, <1>5, <2>1, <2>2, <2>3 DEF Bounded, Rational, Positive
<1>6. CASE ~AtMost(p, <<k, d>>)
  <2>1. PICK a \in Positive, b \in Positive, c \in Positive :
          a = x - y /\ b = w - y /\ c = d - k /\ b = m * c
    BY <1>2, <1>3, <1>4, <1>6 DEF Positive
  <2>2. PICK N \in Nat, D \in Positive : N = a * d /\ D = w * c
    BY <1>2, <2>1, Products DEF Positive
  <2>3. N <= D
    <3>1. a * d <= b * d
      BY <1>2, <1>3, <2>1, Products DEF Positive
    <3>2. b * d = D
      BY <1>2, <2>1, <2>2 DEF Positive
    <3> QED
      BY <2>2, <3>1, <3>2
  <2>4. UtilizationRamp(p, <<k, d>>) =
          Plus(Whole(50), Over(Times(Whole(50), Minus(p, <<k, d>>)), Minus(Whole(1), <<k, d>>)))
    BY <1>6 DEF UtilizationRamp
  <2>5. Minus(p, <<k, d>>) = <<a, w>>
    BY <1>1, <1>2, <2>1 DEF Minus
  <2>6. Minus(Whole(1), <<k, d>>) = <<c, d>>
    BY <2>1 DEF Minus, Whole, Positive
  <2>7. Over(Times(Whole(50), <<a, w>>), <<c, d>>) = <<(50 * a) * d, (1 * w) * c>>
    BY DEF Over, Times, Whole
  <2>8. (50 * a) * d = 50 * N /\ (1 * w) * c = D
    BY <2>1, <2>2 DEF Positive
  <2>9. Plus(Whole(50), <<50 * N, D>>) = <<50 * D + 50 * N, D>>
    BY <2>2 DEF Plus, Whole, Positive
  <2> QED
    BY <2>2, <2>3, <2>4, <2>5, <2>6, <2>7, <2>8, <2>9 DEF Bounded, Rational, Positive
<1> QED
  BY <1>5, <1>6

------------------------------------------------------------------------------
(* The four factors. *)

\* A snapshot as the models admit it.
Wellformed(o) ==
  /\ o = [field \in DOMAIN o |-> o[field]]
  /\ Inputs \cup NaturalFields \cup IntegerFields \cup BooleanFields \subseteq DOMAIN o
  /\ \A field \in DOMAIN o : Admitted(field, o[field])

LEMMA Fields ==
  ASSUME NEW o, Wellformed(o)
  PROVE  /\ o.total_supplied \in Nat /\ o.variable_debt \in Nat
         /\ o.available_liquidity \in Nat /\ o.virtual_available_liquidity \in Nat
         /\ o.optimal_utilization \in Nat /\ o.block_timestamp \in Nat
         /\ o.oracle_feed_updated_at \in Nat /\ o.oracle_feed_heartbeat \in Nat
         /\ o.collected_at \in Nat /\ o.calculated_at \in Nat
         /\ o.canonicality_checked_at \in Nat
  BY DEF Wellformed, Admitted, NaturalFields, LiquidityInputs

Percentage(f) == f # Unknown => Bounded(f, 100)

LEMMA Constants ==
  Percentage(Unknown) /\ \A n \in 0..100 : Percentage(Whole(n))
  BY DEF Percentage, Bounded, Rational, Whole, Positive

LEMMA OraclePercentage ==
  ASSUME NEW o, NEW missing, Wellformed(o)
  PROVE  Percentage(Oracle(o, missing))
<1> DEFINE heartbeat == o.oracle_feed_heartbeat
           age == o.block_timestamp - o.oracle_feed_updated_at
<1>1. \/ Oracle(o, missing) \in {Unknown, Hundred}
      \/ ~(heartbeat <= 0) /\ Oracle(o, missing) = Times(Hundred, Clip(<<age - heartbeat, heartbeat>>))
  BY Zenon DEF Oracle
<1>2. heartbeat \in Nat /\ age \in Int
  BY Fields
<1> HIDE DEF heartbeat, age
<1>3. ~(heartbeat <= 0) => Bounded(Times(Hundred, Clip(<<age - heartbeat, heartbeat>>)), 100)
  BY <1>2, ClipBounded, HundredTimes DEF Positive
<1>4. Percentage(Unknown) /\ Percentage(Hundred)
  BY Constants DEF Hundred
<1> QED
  BY <1>1, <1>3, <1>4 DEF Percentage

LEMMA LiquidityPercentage ==
  ASSUME NEW o, NEW missing, Wellformed(o)
  PROVE  Percentage(Liquidity(o, missing))
<1> DEFINE supplied == o.total_supplied
           debt == o.variable_debt
           cash == o.available_liquidity
           total == o.variable_debt + o.virtual_available_liquidity
           kink == o.optimal_utilization
           u == <<debt, total>>
           pressure == Clip(<<supplied - cash, supplied>>)
           ramp == UtilizationRamp(Greater(u, pressure), <<kink, Ray>>)
<1>1. \/ Liquidity(o, missing) = Unknown
      \/ /\ ~(supplied <= 0) /\ ~(total <= 0) /\ ~(kink <= 0) /\ ~(kink >= Ray)
         /\ Liquidity(o, missing) = ramp
  BY Zenon DEF Liquidity
<1>2. /\ supplied \in Nat /\ debt \in Nat /\ cash \in Nat /\ total \in Nat /\ kink \in Nat
      /\ debt <= total
  BY Fields
<1>3. ASSUME ~(supplied <= 0), ~(total <= 0), ~(kink <= 0), ~(kink >= Ray)
      PROVE  Bounded(ramp, 100)
  <2> HIDE DEF supplied, debt, cash, total, kink
  <2>1. Bounded(u, 1)
    BY <1>2, <1>3 DEF Bounded, Rational, Positive
  <2>2. Bounded(pressure, 1)
    BY <1>2, <1>3, ClipBounded DEF Positive
  <2> HIDE DEF u, pressure
  <2>3. Bounded(Greater(u, pressure), 1)
    BY <2>1, <2>2, OneOfThem
  <2> QED
    BY <1>2, <1>3, <2>3, RampBounded, UnitAssumption DEF Positive
<1> HIDE DEF supplied, debt, cash, total, kink, u, pressure, ramp
<1> QED
  BY <1>1, <1>3, Constants DEF Percentage

LEMMA ConfigurationPercentage ==
  ASSUME NEW o, NEW missing
  PROVE  Percentage(Collateral(o, missing)) /\ Percentage(Restriction(o, missing))
<1>1. Collateral(o, missing) \in {Unknown, Whole(0), Whole(50), Whole(100)}
  BY Zenon DEF Collateral, Hundred
<1>2. Restriction(o, missing) \in {Unknown, Whole(0), Whole(25), Whole(50), Whole(100)}
  BY Zenon DEF Restriction, Hundred
<1> QED
  BY <1>1, <1>2, Constants

\* The factors are the four, or none of a block that is not final.
LEMMA FourFactors ==
  ASSUME NEW o, NEW missing
  PROVE  \/ Factors(o, missing) = [i \in 1..4 |-> Unknown]
         \/ Factors(o, missing) = <<Oracle(o, missing), Liquidity(o, missing),
                                    Collateral(o, missing), Restriction(o, missing)>>
  BY Zenon DEF Factors

LEMMA FactorsPercentages ==
  ASSUME NEW o, NEW missing, Wellformed(o)
  PROVE  \A i \in 1..4 : Percentage(Factors(o, missing)[i])
<1>1. PICK a, b, c, d : /\ a = Oracle(o, missing) /\ b = Liquidity(o, missing)
                        /\ c = Collateral(o, missing) /\ d = Restriction(o, missing)
  OBVIOUS
<1>2. Percentage(a) /\ Percentage(b) /\ Percentage(c) /\ Percentage(d) /\ Percentage(Unknown)
  BY <1>1, OraclePercentage, LiquidityPercentage, ConfigurationPercentage, Constants
<1>3. Factors(o, missing) = [i \in 1..4 |-> Unknown] \/ Factors(o, missing) = <<a, b, c, d>>
  BY <1>1, FourFactors
<1> QED
  BY <1>2, <1>3

------------------------------------------------------------------------------
(* The mean, the floor and the rounding. *)

LEMMA ExactBounded ==
  ASSUME NEW f, \A i \in 1..4 : Bounded(f[i], 100)
  PROVE  /\ Bounded(Exact(f), 100)
         /\ (\E i \in 1..4 : Equal(f[i], Hundred)) => 75 * Exact(f)[2] <= Exact(f)[1]
<1> DEFINE s == Plus(Plus(f[1], f[2]), Plus(f[3], f[4]))
           mean == Over(s, Whole(4))
<1>1. Bounded(s, 400)
  <2>1. Bounded(Plus(f[1], f[2]), 200) /\ Bounded(Plus(f[3], f[4]), 200)
    BY PlusBounded
  <2> QED
    BY <2>1, PlusBounded
<1> HIDE DEF s
<1>2. Bounded(mean, 100)
  <2>1. PICK n \in Nat, d \in Positive : s = <<n, d>> /\ n <= 400 * d
    BY <1>1 DEF Bounded, Rational
  <2>2. mean = <<n, d * 4>>
    BY <2>1 DEF Over, Whole, Positive
  <2> HIDE DEF mean
  <2> QED
    BY <2>1, <2>2 DEF Bounded, Rational, Positive
<1>3. Exact(f) = IF \E i \in 1..4 : Equal(f[i], Hundred) THEN Greater(mean, Whole(75)) ELSE mean
  BY DEF Exact, s
<1> HIDE DEF mean
<1>4. Bounded(Greater(mean, Whole(75)), 100)
  BY <1>2, OneOfThem DEF Bounded, Rational, Whole, Positive
<1>5. 75 * Greater(mean, Whole(75))[2] <= Greater(mean, Whole(75))[1]
  BY <1>2 DEF Greater, AtMost, Whole, Bounded, Rational, Positive
<1> QED
  BY <1>2, <1>3, <1>4, <1>5

\* Half up: twice the exact score, in cents, is less than one above twice the score.
LEMMA RoundedIsNear ==
  ASSUME NEW n \in Nat, NEW d \in Positive
  PROVE  LET r == Rounded(<<n, d>>) IN
         /\ r \in Int
         /\ (2 * r - 1) * d <= 2 * Cents * n /\ 2 * Cents * n < (2 * r + 1) * d
<1>1. PICK x \in Nat : x = 2 * n * Cents
  BY UnitAssumption
<1>2. PICK e \in Positive : e = 2 * d
  BY DEF Positive
<1>3. PICK r \in Int : r = (x + d) \div e
  BY <1>1, <1>2 DEF Positive
<1>4. e * r <= x + d /\ x + d < e * r + e
  BY <1>1, <1>2, <1>3 DEF Positive
<1>5. Rounded(<<n, d>>) = r
  BY <1>1, <1>2, <1>3 DEF Rounded
<1>6. PICK z \in Int : z = r * d
  BY <1>3 DEF Positive
<1>7. e * r = 2 * z /\ (2 * r - 1) * d = 2 * z - d /\ (2 * r + 1) * d = 2 * z + d
  BY <1>2, <1>3, <1>6 DEF Positive
<1>8. 2 * Cents * n = x
  BY <1>1, UnitAssumption
<1> QED
  BY <1>1, <1>2, <1>4, <1>5, <1>7, <1>8 DEF Positive

\* Bounds of the exact score are bounds of the rounded one.
LEMMA RoundedBetween ==
  ASSUME NEW p, Bounded(p, 100)
  PROVE  /\ Rounded(p) \in 0..(100 * Cents)
         /\ 75 * p[2] <= p[1] => 75 * Cents <= Rounded(p)
<1>1. PICK n \in Nat, d \in Positive : p = <<n, d>> /\ n <= 100 * d
  BY DEF Bounded, Rational
<1>2. PICK r : r = Rounded(<<n, d>>)
  OBVIOUS
<1>3. r \in Int /\ (2 * r - 1) * d <= 2 * Cents * n /\ 2 * Cents * n < (2 * r + 1) * d
  BY <1>2, RoundedIsNear
<1>4. PICK x \in Nat, c \in Nat \ {0} : c = Cents /\ x = 2 * Cents * n
  BY UnitAssumption
<1>5. x <= (200 * c) * d
  <2>1. n * (2 * c) <= (100 * d) * (2 * c)
    BY <1>1, <1>4, Products DEF Positive
  <2> QED
    BY <1>4, <2>1 DEF Positive
<1>6. 0 <= r
  <2> SUFFICES ASSUME r + 1 <= 0
               PROVE  FALSE
    BY <1>3
  <2>1. (2 * r + 1) * d <= 0 * d
    BY <1>3, Products DEF Positive
  <2> QED
    BY <1>3, <1>4, <2>1 DEF Positive
<1>7. r <= 100 * c
  <2> SUFFICES ASSUME 100 * c + 1 <= r
               PROVE  FALSE
    BY <1>3, <1>4
  <2>1. (200 * c + 1) * d <= (2 * r - 1) * d
    BY <1>3, <1>4, Products DEF Positive
  <2>2. (200 * c + 1) * d = (200 * c) * d + d
    BY <1>4 DEF Positive
  <2> QED
    BY <1>3, <1>4, <1>5, <2>1, <2>2 DEF Positive
<1>8. ASSUME 75 * d <= n
      PROVE  75 * c <= r
  <2> SUFFICES ASSUME r + 1 <= 75 * c
               PROVE  FALSE
    BY <1>3, <1>4
  <2>1. (75 * d) * (2 * c) <= n * (2 * c)
    BY <1>4, <1>8, Products DEF Positive
  <2>2. (2 * r + 1) * d <= (150 * c) * d
    BY <1>3, <1>4, Products DEF Positive
  <2> QED
    BY <1>3, <1>4, <2>1, <2>2 DEF Positive
<1> QED
  BY <1>1, <1>2, <1>3, <1>4, <1>6, <1>7, <1>8

------------------------------------------------------------------------------
(* The assessment. *)

Freshness(o) == SnapshotFreshness(ObservedAt(o), o.calculated_at)
Actionable(o, missing) ==
  Known(Factors(o, missing)) /\ Lower[Freshness(o).status] \in {"fresh", "degraded"}
Index(o, missing) ==
  IF Actionable(o, missing) THEN Rounded(Exact(Factors(o, missing))) ELSE NoScore
RiskLevel(o, missing) ==
  IF Actionable(o, missing) THEN Level(Index(o, missing)) ELSE "unknown"
Certainty(o, missing) ==
  IF Actionable(o, missing)
  THEN Confidence(Factors(o, missing), Lower[Freshness(o).status]) ELSE Unknown
Result(o, missing) ==
  [score |-> Index(o, missing), factors |-> Factors(o, missing), freshness |-> Freshness(o),
   freshness_status |-> Lower[Freshness(o).status], risk_level |-> RiskLevel(o, missing),
   confidence |-> Certainty(o, missing)]

LEMMA Assessment ==
  ASSUME NEW o, NEW missing
  PROVE  Assess(o, missing) =
           IF \/ o.collected_at > o.calculated_at
              \/ o.canonicality_checked_at > o.calculated_at
              \/ ~ConsistentResult(Result(o, missing))
           THEN Raised ELSE Result(o, missing)
  BY Zenon DEF Assess, Result, Index, RiskLevel, Certainty, Actionable, Freshness

\* An actionable index is a percentage in cents.
LEMMA IndexRange ==
  ASSUME NEW o, NEW missing, Wellformed(o), Actionable(o, missing)
  PROVE  /\ Index(o, missing) = Rounded(Exact(Factors(o, missing)))
         /\ Bounded(Exact(Factors(o, missing)), 100)
         /\ Index(o, missing) \in 0..(100 * Cents)
<1>1. \A i \in 1..4 : Bounded(Factors(o, missing)[i], 100)
  BY FactorsPercentages DEF Percentage, Actionable, Known
<1>2. PICK f : f = Factors(o, missing)
  OBVIOUS
<1>3. Bounded(Exact(f), 100)
  BY <1>1, <1>2, ExactBounded
<1>4. Rounded(Exact(f)) \in 0..(100 * Cents)
  BY <1>3, RoundedBetween
<1>5. Index(o, missing) = Rounded(Exact(f))
  BY <1>2 DEF Index
<1> QED
  BY <1>2, <1>3, <1>4, <1>5

LEMMA BandsAgree ==
  ASSUME NEW s \in 0..(100 * Cents)
  PROVE  Level(s) = RiskLevelForScore(s) /\ Level(s) # "unknown"
<1>1. PICK a \in Nat, b \in Nat, c \in Nat :
        a = 25 * Cents /\ b = 50 * Cents /\ c = 75 * Cents /\ a <= b /\ b <= c
  BY UnitAssumption
<1>2. s \in Nat
  BY UnitAssumption
<1>3. Level(s) = IF s < a THEN "low" ELSE IF s < b THEN "moderate"
                 ELSE IF s < c THEN "high" ELSE "critical"
  BY <1>1 DEF Level
<1>4. CASE s < a
  <2>1. s \in 0..(25 * Cents - 1) /\ Level(s) = "low"
    BY <1>1, <1>2, <1>3, <1>4
  <2>2. s \notin (25 * Cents)..(50 * Cents - 1) /\ s \notin (50 * Cents)..(75 * Cents - 1)
    BY <1>1, <1>2, <1>4
  <2> QED
    BY <2>1, <2>2 DEF RiskLevelForScore
<1>5. CASE ~(s < a) /\ s < b
  <2>1. s \in (25 * Cents)..(50 * Cents - 1) /\ Level(s) = "moderate"
    BY <1>1, <1>2, <1>3, <1>5
  <2>2. s \notin 0..(25 * Cents - 1) /\ s \notin (50 * Cents)..(75 * Cents - 1)
    BY <1>1, <1>2, <1>5
  <2> QED
    BY <2>1, <2>2 DEF RiskLevelForScore
<1>6. CASE ~(s < b) /\ s < c
  <2>1. s \in (50 * Cents)..(75 * Cents - 1) /\ Level(s) = "high"
    BY <1>1, <1>2, <1>3, <1>6
  <2>2. s \notin 0..(25 * Cents - 1) /\ s \notin (25 * Cents)..(50 * Cents - 1)
    BY <1>1, <1>2, <1>6
  <2> QED
    BY <2>1, <2>2 DEF RiskLevelForScore
<1>7. CASE ~(s < c)
  <2>1. /\ s \notin 0..(25 * Cents - 1) /\ s \notin (25 * Cents)..(50 * Cents - 1)
        /\ s \notin (50 * Cents)..(75 * Cents - 1) /\ Level(s) = "critical"
    BY <1>1, <1>2, <1>3, <1>7
  <2> QED
    BY <2>1 DEF RiskLevelForScore
<1> QED
  BY <1>1, <1>2, <1>4, <1>5, <1>6, <1>7

\* The result meets the shared contract, whatever was read.
LEMMA ResultIsConsistent ==
  ASSUME NEW o, NEW missing, Wellformed(o)
  PROVE  ConsistentResult(Result(o, missing))
<1>1. PICK r : r = Result(o, missing)
  OBVIOUS
<1>2. /\ r.score = Index(o, missing) /\ r.factors = Factors(o, missing)
      /\ r.freshness_status = Lower[r.freshness.status] /\ r.freshness = Freshness(o)
      /\ r.risk_level = RiskLevel(o, missing) /\ r.confidence = Certainty(o, missing)
  BY <1>1 DEF Result
<1>3. \A i \in 1..4 : r.factors[i] # Unknown =>
        AtMost(Whole(0), r.factors[i]) /\ AtMost(r.factors[i], Hundred)
  <2> SUFFICES ASSUME NEW i \in 1..4, NEW f, f = Factors(o, missing)[i], f # Unknown
               PROVE  AtMost(Whole(0), f) /\ AtMost(f, Hundred)
    BY <1>2
  <2>1. Bounded(f, 100)
    BY FactorsPercentages DEF Percentage
  <2> QED
    BY <2>1 DEF Bounded, Rational, AtMost, Whole, Hundred, Positive
<1>4. CASE Actionable(o, missing)
  <2>1. r.score \in 0..(100 * Cents) /\ r.score # NoScore
    BY <1>2, <1>4, IndexRange, UnitAssumption DEF NoScore
  <2>2. r.risk_level = Level(r.score)
    BY <1>2, <1>4 DEF RiskLevel
  <2>3. r.risk_level = RiskLevelForScore(r.score) /\ r.risk_level # "unknown"
    BY <2>1, <2>2, BandsAgree
  <2>4. Known(r.factors) /\ r.freshness_status # "unknown"
    BY <1>2, <1>4 DEF Actionable
  <2> QED
    BY <1>1, <1>2, <1>3, <2>1, <2>3, <2>4 DEF ConsistentResult
<1>5. CASE ~Actionable(o, missing)
  <2>1. r.score = NoScore /\ r.risk_level = "unknown" /\ r.confidence = Unknown
    BY <1>2, <1>5 DEF Index, RiskLevel, Certainty
  <2> QED
    BY <1>1, <1>2, <1>3, <2>1 DEF ConsistentResult
<1> QED
  BY <1>4, <1>5

\* Either the call raises for a time of the future, or this is its result.
LEMMA Outcome ==
  ASSUME NEW o, NEW missing, Wellformed(o)
  PROVE  \/ /\ Assess(o, missing) = Raised
            /\ o.collected_at > o.calculated_at \/ o.canonicality_checked_at > o.calculated_at
         \/ Assess(o, missing) = Result(o, missing)
  BY Assessment, ResultIsConsistent, Zenon

\* What is scored is actionable.
LEMMA ScoredResult ==
  ASSUME NEW o, NEW missing, Wellformed(o), Assess(o, missing).score # NoScore
  PROVE  /\ Actionable(o, missing) /\ Assess(o, missing) = Result(o, missing)
         /\ Assess(o, missing).score = Index(o, missing)
<1>1. PICK a : a = Assess(o, missing)
  OBVIOUS
<1>2. a = Raised \/ a = Result(o, missing)
  BY <1>1, Outcome
<1>3. Raised.score = NoScore
  BY DEF Raised
<1>4. Result(o, missing).score = Index(o, missing)
  BY DEF Result
<1>5. ~Actionable(o, missing) => Index(o, missing) = NoScore
  BY DEF Index
<1> QED
  BY <1>1, <1>2, <1>3, <1>4, <1>5

------------------------------------------------------------------------------
(* Losing an observation. *)

\* A factor of fewer observations is unknown or the same.
LossOnly(f, g) == g = Unknown \/ g = f

LEMMA RestrictionOfLess ==
  ASSUME NEW o, NEW m, NEW n, m \subseteq n, Wellformed(o)
  PROVE  LossOnly(Restriction(o, m), Restriction(o, n))
<1>1. CASE RestrictionInputs(o) \cap n # {}
  BY <1>1 DEF Restriction, LossOnly
<1>2. CASE RestrictionInputs(o) \cap n = {}
  <2> DEFINE Used(name, x) == IF name \in x THEN 0 ELSE o[name]
             reached(x) == \/ /\ o.supply_cap > 0
                              /\ Used("supply_cap_total_supplied", x) >= o.supply_cap * TokenUnit
                           \/ /\ o.borrow_cap > 0
                              /\ Used("variable_debt", x) >= o.borrow_cap * TokenUnit
  <2>1. o.supply_cap \in Nat /\ o.borrow_cap \in Nat
    BY DEF Wellformed, Admitted, NaturalFields
  <2>2. o.supply_cap > 0 => "supply_cap_total_supplied" \notin n
    BY <1>2, <2>1 DEF RestrictionInputs
  <2>3. o.borrow_cap > 0 => "variable_debt" \notin n
    BY <1>2, <2>1 DEF RestrictionInputs
  <2>4. reached(m) <=> reached(n)
    BY <2>2, <2>3
  <2>5. RestrictionInputs(o) \cap m = {}
    BY <1>2
  <2>6. \A x : RestrictionInputs(o) \cap x = {} =>
          Restriction(o, x) = IF o.reserve_paused \/ ~o.reserve_active THEN Hundred
                              ELSE IF o.reserve_frozen THEN Whole(50)
                              ELSE IF ~o.borrowing_enabled \/ reached(x) THEN Whole(25)
                              ELSE Whole(0)
    BY Zenon DEF Restriction
  <2> HIDE DEF reached
  <2> QED
    BY <1>2, <2>4, <2>5, <2>6, Zenon DEF LossOnly
<1> QED
  BY <1>1, <1>2

LEMMA ReadingsOfLess ==
  ASSUME NEW o, NEW m, NEW n, m \subseteq n
  PROVE  /\ LossOnly(Oracle(o, m), Oracle(o, n))
         /\ LossOnly(Liquidity(o, m), Liquidity(o, n))
         /\ LossOnly(Collateral(o, m), Collateral(o, n))
<1>1. LossOnly(Oracle(o, m), Oracle(o, n))
  <2>1. CASE OracleInputs \cap n # {}
    BY <2>1, Zenon DEF Oracle, LossOnly
  <2>2. CASE OracleInputs \cap n = {}
    <3>1. OracleInputs \cap m = {}
      BY <2>2
    <3> QED
      BY <2>2, <3>1, Zenon DEF Oracle, LossOnly
  <2> QED
    BY <2>1, <2>2
<1>2. LossOnly(Liquidity(o, m), Liquidity(o, n))
  <2>1. CASE LiquidityInputs \cap n # {}
    BY <2>1, Zenon DEF Liquidity, LossOnly
  <2>2. CASE LiquidityInputs \cap n = {}
    <3>1. LiquidityInputs \cap m = {}
      BY <2>2
    <3> QED
      BY <2>2, <3>1, Zenon DEF Liquidity, LossOnly
  <2> QED
    BY <2>1, <2>2
<1>3. LossOnly(Collateral(o, m), Collateral(o, n))
  <2>1. CASE CollateralInputs \cap n # {}
    BY <2>1, Zenon DEF Collateral, LossOnly
  <2>2. CASE CollateralInputs \cap n = {}
    <3>1. CollateralInputs \cap m = {}
      BY <2>2
    <3> QED
      BY <2>2, <3>1, Zenon DEF Collateral, LossOnly
  <2> QED
    BY <2>1, <2>2
<1> QED
  BY <1>1, <1>2, <1>3

\* Four factors that are all known are the four that were known before.
LEMMA FactorsOfLess ==
  ASSUME NEW o, NEW m, NEW n, m \subseteq n, Wellformed(o), Known(Factors(o, n))
  PROVE  Factors(o, m) = Factors(o, n)
<1>1. PICK a, b, c, d : /\ a = Oracle(o, m) /\ b = Liquidity(o, m)
                        /\ c = Collateral(o, m) /\ d = Restriction(o, m)
  OBVIOUS
<1>2. PICK e, f, g, h : /\ e = Oracle(o, n) /\ f = Liquidity(o, n)
                        /\ g = Collateral(o, n) /\ h = Restriction(o, n)
  OBVIOUS
<1>3. LossOnly(a, e) /\ LossOnly(b, f) /\ LossOnly(c, g) /\ LossOnly(d, h)
  BY <1>1, <1>2, RestrictionOfLess, ReadingsOfLess
<1>4. ~(Factors(o, n) = [i \in 1..4 |-> Unknown])
  BY DEF Known
<1>5. Factors(o, n) = <<e, f, g, h>>
  BY <1>2, <1>4, FourFactors
<1>6. e # Unknown /\ f # Unknown /\ g # Unknown /\ h # Unknown
  <2>1. /\ Factors(o, n)[1] # Unknown /\ Factors(o, n)[2] # Unknown
        /\ Factors(o, n)[3] # Unknown /\ Factors(o, n)[4] # Unknown
    BY DEF Known
  <2> QED
    BY <1>5, <2>1
<1>7. Factors(o, m) = <<a, b, c, d>>
  <2>1. ~~o.block_final
    BY <1>4, Zenon DEF Factors
  <2> QED
    BY <1>1, <2>1, Zenon DEF Factors
<1> QED
  BY <1>3, <1>5, <1>6, <1>7 DEF LossOnly

LEMMA ScoreOfLess ==
  ASSUME NEW o, NEW m, NEW n, m \subseteq n, Wellformed(o)
  PROVE  Assess(o, n).score \in {Assess(o, m).score, NoScore}
<1> SUFFICES ASSUME Assess(o, n).score # NoScore
             PROVE  Assess(o, n) = Assess(o, m)
  OBVIOUS
<1>1. Actionable(o, n)
  BY ScoredResult
<1>2. Factors(o, m) = Factors(o, n)
  BY <1>1, FactorsOfLess DEF Actionable
<1>3. Result(o, m) = Result(o, n)
  <2>1. Actionable(o, m) <=> Actionable(o, n)
    BY <1>2 DEF Actionable
  <2>2. Index(o, m) = Index(o, n)
    BY <1>2, <2>1 DEF Index
  <2>3. RiskLevel(o, m) = RiskLevel(o, n) /\ Certainty(o, m) = Certainty(o, n)
    BY <1>2, <2>1, <2>2 DEF RiskLevel, Certainty
  <2> QED
    BY <1>2, <2>2, <2>3 DEF Result
<1> QED
  BY <1>3, Assessment

------------------------------------------------------------------------------
(* Every state of the specification. *)

Assessed == Wellformed(snapshot) /\ assessment = Assess(snapshot, unavailable)

LEMMA InitAssessed == Init => Assessed
  BY ChangeAssumption DEF Init, Assessed, Wellformed

LEMMA ChangeIsAdmitted ==
  ASSUME NEW o, Wellformed(o), NEW field \in DOMAIN Values, NEW v \in Values[field]
  PROVE  Wellformed([o EXCEPT ![field] = v])
<1> DEFINE p == [o EXCEPT ![field] = v]
<1>1. /\ DOMAIN p = DOMAIN o /\ p = [g \in DOMAIN p |-> p[g]]
      /\ \A g \in DOMAIN o : p[g] = IF g = field THEN v ELSE o[g]
  BY DEF Wellformed
<1>2. Admitted(field, v)
  BY ChangeAssumption
<1> HIDE DEF p
<1>3. Wellformed(p)
  BY <1>1, <1>2 DEF Wellformed
<1> QED
  BY <1>3 DEF p

LEMMA StepAssessed == Assessed /\ [Next]_vars => Assessed'
<1> SUFFICES ASSUME Assessed, [Next]_vars
             PROVE  Assessed'
  OBVIOUS
<1>1. ASSUME NEW field \in DOMAIN Values, Change(field)
      PROVE  Assessed'
  <2>1. PICK v \in Values[field] : Submit([snapshot EXCEPT ![field] = v], unavailable, field)
    BY <1>1 DEF Change
  <2>2. PICK s : s = snapshot
    OBVIOUS
  <2>3. Wellformed(s)
    BY <2>2 DEF Assessed
  <2>4. Wellformed([s EXCEPT ![field] = v])
    BY <2>3, ChangeIsAdmitted
  <2>5. snapshot' = [s EXCEPT ![field] = v] /\ assessment' = Assess(snapshot', unavailable')
    BY <2>1, <2>2 DEF Submit
  <2> QED
    BY <2>4, <2>5 DEF Assessed
<1>2. ASSUME NEW field \in Inputs, Lose(field)
      PROVE  Assessed'
  BY <1>2 DEF Lose, Submit, Assessed
<1>3. CASE UNCHANGED vars
  BY <1>3 DEF vars, Assessed
<1> QED
  BY <1>1, <1>2, <1>3 DEF Next

\* In every reachable state the snapshot is one the models admit, and the assessment is
\* what assess_snapshot makes of it.
THEOREM AlwaysAssessed == Spec => []Assessed
  BY InitAssessed, StepAssessed, PTL DEF Spec

\* RaisesOnlyForTheFuture: no value of a snapshot makes the scorer build a result that
\* its own contract refuses.
THEOREM ScorerRaisesOnlyForTheFuture == Spec => []RaisesOnlyForTheFuture
<1>1. Assessed => RaisesOnlyForTheFuture
  <2> SUFFICES ASSUME Assessed, assessment = Raised
               PROVE  \/ snapshot.collected_at > snapshot.calculated_at
                      \/ snapshot.canonicality_checked_at > snapshot.calculated_at
    BY DEF RaisesOnlyForTheFuture
  <2>1. PICK o, m : o = snapshot /\ m = unavailable
    OBVIOUS
  <2>2. Wellformed(o) /\ Assess(o, m) = Raised
    BY <2>1 DEF Assessed
  <2>3. Result(o, m) # Raised
    <3>1. RiskLevel(o, m) # "raised"
      BY DEF RiskLevel, Level
    <3>2. Result(o, m).risk_level = RiskLevel(o, m) /\ Raised.risk_level = "raised"
      BY DEF Result, Raised
    <3> QED
      BY <3>1, <3>2
  <2>4. o.collected_at > o.calculated_at \/ o.canonicality_checked_at > o.calculated_at
    BY <2>2, <2>3, Outcome
  <2> QED
    BY <2>1, <2>4
<1> QED
  BY <1>1, AlwaysAssessed, PTL

\* The exact score of what is scored, and its rounding.
LEMMA ScoreIsRounded ==
  ASSUME NEW o, NEW m, NEW a, Wellformed(o), a = Assess(o, m), a.score # NoScore
  PROVE  /\ Bounded(Exact(a.factors), 100) /\ a.score = Rounded(Exact(a.factors))
         /\ \A i \in 1..4 : Bounded(a.factors[i], 100)
         /\ a.risk_level = Level(a.score) /\ Actionable(o, m)
<1>1. Actionable(o, m) /\ a = Result(o, m)
  BY ScoredResult
<1>2. a.factors = Factors(o, m) /\ a.score = Index(o, m) /\ a.risk_level = RiskLevel(o, m)
  BY <1>1 DEF Result
<1>3. \A i \in 1..4 : Bounded(a.factors[i], 100)
  BY <1>1, <1>2, FactorsPercentages DEF Percentage, Actionable, Known
<1> QED
  BY <1>1, <1>2, <1>3, IndexRange DEF RiskLevel

\* RoundedHalfUp, for all values of all observations.
THEOREM ScoresAreRoundedHalfUp == Spec => []RoundedHalfUp
<1>1. Assessed => RoundedHalfUp
  <2> SUFFICES ASSUME Assessed, Scored
               PROVE  RoundedHalfUp
    BY DEF RoundedHalfUp
  <2>1. PICK o, m, a, p : /\ o = snapshot /\ m = unavailable /\ a = assessment
                          /\ p = Exact(a.factors)
    OBVIOUS
  <2>2. Bounded(p, 100) /\ a.score = Rounded(p)
    BY <2>1, ScoreIsRounded DEF Assessed, Scored
  <2>3. PICK n \in Nat, d \in Positive : p = <<n, d>>
    BY <2>2 DEF Bounded, Rational
  <2>4. PICK r \in Int : r = a.score /\ (2 * r - 1) * d <= 2 * Cents * n /\ 2 * Cents * n < (2 * r + 1) * d
    BY <2>2, <2>3, RoundedIsNear
  <2>5. Times(Whole(2 * Cents), p) = <<2 * Cents * n, d>>
    BY <2>3, UnitAssumption DEF Times, Whole, Positive
  <2>6. PICK x \in Int : x = 2 * Cents * n
    BY <2>3, UnitAssumption
  <2>7. AtMost(Whole(2 * r - 1), <<x, d>>) /\ ~AtMost(Whole(2 * r + 1), <<x, d>>)
    BY <2>4, <2>6, <2>3 DEF AtMost, Whole, Positive
  <2> QED
    BY <2>1, <2>4, <2>5, <2>6, <2>7 DEF RoundedHalfUp
<1> QED
  BY <1>1, AlwaysAssessed, PTL

\* NoFailureIsAveragedAway: the floor is above every mean, and rounding keeps it.
THEOREM FailuresAreNotAveragedAway == Spec => []NoFailureIsAveragedAway
<1>1. Assessed => NoFailureIsAveragedAway
  <2> SUFFICES ASSUME Assessed, Scored, \E i \in 1..4 : Equal(Factor(i), Hundred)
               PROVE  assessment.score >= 75 * Cents /\ assessment.risk_level = "critical"
    BY DEF NoFailureIsAveragedAway
  <2>1. PICK o, m, a, f : /\ o = snapshot /\ m = unavailable /\ a = assessment
                          /\ f = a.factors
    OBVIOUS
  <2>2. /\ Bounded(Exact(f), 100) /\ a.score = Rounded(Exact(f))
        /\ \A i \in 1..4 : Bounded(f[i], 100) /\ a.risk_level = Level(a.score)
    BY <2>1, ScoreIsRounded DEF Assessed, Scored
  <2>3. \E i \in 1..4 : Equal(f[i], Hundred)
    BY <2>1 DEF Factor
  <2>4. 75 * Exact(f)[2] <= Exact(f)[1]
    BY <2>2, <2>3, ExactBounded
  <2>5. a.score \in 0..(100 * Cents) /\ 75 * Cents <= a.score
    BY <2>2, <2>4, RoundedBetween
  <2>6. Level(a.score) = "critical"
    BY <2>5, UnitAssumption DEF Level
  <2> QED
    BY <2>1, <2>2, <2>5, <2>6, UnitAssumption
<1> QED
  BY <1>1, AlwaysAssessed, PTL

\* NothingScoredOfOldState, for all age limits and all times.
THEOREM OldStateIsNotScored == Spec => []NothingScoredOfOldState
<1>1. Assessed => NothingScoredOfOldState
  <2> SUFFICES ASSUME Assessed, Scored
               PROVE  /\ snapshot.calculated_at - snapshot.block_timestamp <= StaleAge
                      /\ snapshot.calculated_at - snapshot.collected_at <= StaleAge
    BY DEF NothingScoredOfOldState
  <2>1. PICK o, m, a : o = snapshot /\ m = unavailable /\ a = assessment
    OBVIOUS
  <2>2. Wellformed(o) /\ Actionable(o, m)
    BY <2>1, ScoreIsRounded DEF Assessed, Scored
  <2>3. PICK b \in Nat, c \in Nat, t \in Nat :
          b = o.block_timestamp /\ c = o.collected_at /\ t = o.calculated_at
    BY <2>2, Fields
  <2>4. PICK w \in Int : w = ObservedAt(o) /\ w <= b /\ w <= c
    BY <2>3 DEF ObservedAt
  <2>5. Lower[AgeStatus(t - w)] \in {"fresh", "degraded"}
    BY <2>2, <2>3, <2>4 DEF Actionable, Freshness, SnapshotFreshness
  <2>6. t - w <= StaleAge
    BY <2>3, <2>4, <2>5, AgeAssumption DEF AgeStatus, Lower
  <2>7. t - b <= StaleAge /\ t - c <= StaleAge
    BY <2>3, <2>4, <2>6, AgeAssumption
  <2> QED
    BY <2>1, <2>3, <2>7
<1> QED
  BY <1>1, AlwaysAssessed, PTL

\* LosingInputsNeverImproves: the factors left are the same, or there is no score.
THEOREM LossesOnlyTakeScoresAway == Spec => LosingInputsNeverImproves
<1> DEFINE Loses == unavailable' # unavailable => assessment'.score \in {assessment.score, NoScore}
<1>1. Assessed /\ [Next]_vars => [Loses]_vars
  <2> SUFFICES ASSUME Assessed, Next, unavailable' # unavailable
               PROVE  assessment'.score \in {assessment.score, NoScore}
    BY DEF Loses
  <2>1. PICK field \in Inputs : Lose(field)
    BY DEF Next, Change, Submit
  <2>2. PICK o, m, n : o = snapshot /\ m = unavailable /\ n = unavailable \cup {field}
    OBVIOUS
  <2>3. assessment' = Assess(o, n) /\ assessment = Assess(o, m) /\ Wellformed(o)
    BY <2>1, <2>2 DEF Lose, Submit, Assessed
  <2>4. m \subseteq n
    BY <2>2
  <2> QED
    BY <2>3, <2>4, ScoreOfLess
<1> QED
  BY <1>1, AlwaysAssessed, PTL DEF Spec, LosingInputsNeverImproves, Loses

------------------------------------------------------------------------------
(* The order of rationals. *)

LEMMA Cancel ==
  ASSUME NEW a \in Int, NEW b \in Int, NEW c \in Positive, a * c <= b * c
  PROVE  a <= b
<1> SUFFICES ASSUME b + 1 <= a
             PROVE  FALSE
  OBVIOUS
<1>1. (b + 1) * c <= a * c
  BY Products DEF Positive
<1>2. (b + 1) * c = b * c + c
  BY DEF Positive
<1>3. PICK x \in Int, y \in Int : x = a * c /\ y = b * c
  BY DEF Positive
<1> QED
  BY <1>1, <1>2, <1>3 DEF Positive

LEMMA AtMostTransitive ==
  ASSUME NEW p, NEW q, NEW r, Rational(p), Rational(q), Rational(r), AtMost(p, q), AtMost(q, r)
  PROVE  AtMost(p, r)
<1>1. PICK a \in Int, b \in Positive : p = <<a, b>>
  BY DEF Rational
<1>2. PICK c \in Int, d \in Positive : q = <<c, d>>
  BY DEF Rational
<1>3. PICK e \in Int, f \in Positive : r = <<e, f>>
  BY DEF Rational
<1>4. a * d <= c * b /\ c * f <= e * d
  BY <1>1, <1>2, <1>3 DEF AtMost
<1>5. (a * d) * f <= (c * b) * f /\ (c * f) * b <= (e * d) * b
  BY <1>4, Products DEF Positive
<1>6. (a * d) * f = (a * f) * d /\ (c * b) * f = (c * f) * b /\ (e * d) * b = (e * b) * d
  BY DEF Positive
<1>7. (a * f) * d <= (e * b) * d
  <2>1. PICK x \in Int, y \in Int, z \in Int :
          x = (a * f) * d /\ y = (c * f) * b /\ z = (e * b) * d
    BY DEF Positive
  <2> QED
    BY <1>5, <1>6, <2>1
<1>8. a * f \in Int /\ e * b \in Int
  BY DEF Positive
<1>9. a * f <= e * b
  BY <1>7, <1>8, Cancel
<1> QED
  BY <1>1, <1>3, <1>9 DEF AtMost

LEMMA AtMostTotal ==
  ASSUME NEW p, NEW q, Rational(p), Rational(q)
  PROVE  AtMost(p, p) /\ (AtMost(p, q) \/ AtMost(q, p))
<1>1. PICK a \in Int, b \in Positive, c \in Int, d \in Positive : p = <<a, b>> /\ q = <<c, d>>
  BY DEF Rational
<1>2. PICK x \in Int, y \in Int, z \in Int : x = a * d /\ y = c * b /\ z = a * b
  BY <1>1 DEF Positive
<1> QED
  BY <1>1, <1>2 DEF AtMost

LEMMA RationalsClosed ==
  ASSUME NEW p, NEW q, Rational(p), Rational(q)
  PROVE  /\ Rational(Plus(p, q)) /\ Rational(Times(p, q))
         /\ Rational(Greater(p, q)) /\ Rational(Lesser(p, q))
<1>1. PICK a \in Int, b \in Positive, c \in Int, d \in Positive : p = <<a, b>> /\ q = <<c, d>>
  BY DEF Rational
<1>2. PICK x \in Int, y \in Int, z \in Positive, v \in Int :
        x = a * d /\ y = c * b /\ z = b * d /\ v = a * c
  BY <1>1, Products DEF Positive
<1>3. Plus(p, q) = <<x + y, z>> /\ Times(p, q) = <<v, z>>
  BY <1>1, <1>2 DEF Plus, Times
<1> QED
  BY <1>2, <1>3 DEF Rational, Greater, Lesser

LEMMA WholeRational == \A n \in Int : Rational(Whole(n))
  BY DEF Rational, Whole, Positive

LEMMA PlusMonotone ==
  ASSUME NEW p, NEW q, NEW r, NEW s, Rational(p), Rational(q), Rational(r), Rational(s),
         AtMost(p, q), AtMost(r, s)
  PROVE  AtMost(Plus(p, r), Plus(q, s))
<1>1. PICK a \in Int, b \in Positive, c \in Int, d \in Positive : p = <<a, b>> /\ q = <<c, d>>
  BY DEF Rational
<1>2. PICK e \in Int, f \in Positive, g \in Int, h \in Positive : r = <<e, f>> /\ s = <<g, h>>
  BY DEF Rational
<1>3. a * d <= c * b /\ e * h <= g * f
  BY <1>1, <1>2 DEF AtMost
<1>4. f * h \in Nat /\ b * d \in Nat
  BY DEF Positive
<1>5. (a * d) * (f * h) <= (c * b) * (f * h) /\ (e * h) * (b * d) <= (g * f) * (b * d)
  BY <1>3, <1>4, Products DEF Positive
<1>6. /\ (a * f + e * b) * (d * h) = (a * d) * (f * h) + (e * h) * (b * d)
      /\ (c * h + g * d) * (b * f) = (c * b) * (f * h) + (g * f) * (b * d)
  BY DEF Positive
<1>7. Plus(p, r) = <<a * f + e * b, b * f>> /\ Plus(q, s) = <<c * h + g * d, d * h>>
  BY <1>1, <1>2 DEF Plus
<1>8. (a * f + e * b) * (d * h) <= (c * h + g * d) * (b * f)
  <2>1. PICK x \in Int, y \in Int, z \in Int, w \in Int :
          /\ x = (a * d) * (f * h) /\ y = (e * h) * (b * d)
          /\ z = (c * b) * (f * h) /\ w = (g * f) * (b * d)
    BY DEF Positive
  <2>2. x + y <= z + w
    BY <1>5, <2>1
  <2> QED
    BY <1>6, <2>1, <2>2
<1> QED
  BY <1>7, <1>8 DEF AtMost

LEMMA GreaterMonotone ==
  ASSUME NEW p, NEW q, NEW r, NEW s, Rational(p), Rational(q), Rational(r), Rational(s),
         AtMost(p, q), AtMost(r, s)
  PROVE  AtMost(Greater(p, r), Greater(q, s))
<1>1. AtMost(q, Greater(q, s)) /\ AtMost(s, Greater(q, s))
  BY AtMostTotal DEF Greater
<1>2. AtMost(p, Greater(q, s)) /\ AtMost(r, Greater(q, s))
  BY <1>1, AtMostTransitive, RationalsClosed
<1> QED
  BY <1>2 DEF Greater

LEMMA LesserMonotone ==
  ASSUME NEW p, NEW q, NEW r, Rational(p), Rational(q), Rational(r), AtMost(p, q)
  PROVE  AtMost(Lesser(r, p), Lesser(r, q))
<1>1. AtMost(Lesser(r, p), r) /\ AtMost(Lesser(r, p), p)
  BY AtMostTotal DEF Lesser
<1>2. AtMost(Lesser(r, p), q)
  BY <1>1, AtMostTransitive, RationalsClosed
<1> QED
  BY <1>1, <1>2 DEF Lesser

LEMMA ClipMonotone ==
  ASSUME NEW p, NEW q, Rational(p), Rational(q), AtMost(p, q)
  PROVE  AtMost(Clip(p), Clip(q)) /\ Rational(Clip(p))
<1>1. Rational(Whole(0)) /\ Rational(Whole(1)) /\ AtMost(Whole(0), Whole(0))
  BY WholeRational, AtMostTotal
<1>2. AtMost(Greater(Whole(0), p), Greater(Whole(0), q))
  BY <1>1, GreaterMonotone
<1>3. Rational(Greater(Whole(0), p)) /\ Rational(Greater(Whole(0), q))
  BY <1>1, RationalsClosed
<1> QED
  BY <1>1, <1>2, <1>3, LesserMonotone, RationalsClosed DEF Clip

LEMMA HundredTimesMonotone ==
  ASSUME NEW p, NEW q, Rational(p), Rational(q), AtMost(p, q)
  PROVE  AtMost(Times(Hundred, p), Times(Hundred, q))
<1>1. PICK a \in Int, b \in Positive, c \in Int, d \in Positive : p = <<a, b>> /\ q = <<c, d>>
  BY DEF Rational
<1>2. Times(Hundred, p) = <<100 * a, b>> /\ Times(Hundred, q) = <<100 * c, d>>
  BY <1>1 DEF Times, Hundred, Whole, Positive
<1>3. PICK x \in Int, y \in Int : x = a * d /\ y = c * b /\ x <= y
  BY <1>1 DEF AtMost, Positive
<1>4. (100 * a) * d = 100 * x /\ (100 * c) * b = 100 * y
  BY <1>3 DEF Positive
<1> QED
  BY <1>2, <1>3, <1>4 DEF AtMost

LEMMA RoundedMonotone ==
  ASSUME NEW p, NEW q, Bounded(p, 100), Bounded(q, 100), AtMost(p, q)
  PROVE  Rounded(p) <= Rounded(q)
<1>1. PICK n \in Nat, d \in Positive, m \in Nat, e \in Positive : p = <<n, d>> /\ q = <<m, e>>
  BY DEF Bounded, Rational
<1>2. PICK r \in Int, s \in Int :
        /\ r = Rounded(p) /\ (2 * r - 1) * d <= 2 * Cents * n
        /\ s = Rounded(q) /\ 2 * Cents * m < (2 * s + 1) * e
  BY <1>1, RoundedIsNear
<1> SUFFICES ASSUME s + 1 <= r
             PROVE  FALSE
  BY <1>2
<1>3. (2 * s + 1) * d <= (2 * r - 1) * d
  BY Products DEF Positive
<1>4. PICK C \in Nat \ {0} : C = 2 * Cents
  BY UnitAssumption
<1>5. n * e <= m * d
  BY <1>1 DEF AtMost
<1>6. (2 * s + 1) * d <= C * n
  <2>1. PICK x \in Int, y \in Int : x = (2 * s + 1) * d /\ y = (2 * r - 1) * d
    BY DEF Positive
  <2>2. 2 * Cents * n = C * n /\ C * n \in Int
    BY <1>4
  <2> QED
    BY <1>2, <1>3, <2>1, <2>2
<1>7. C * m < (2 * s + 1) * e
  BY <1>2, <1>4
<1>8. ((2 * s + 1) * d) * e <= (C * n) * e
  <2>1. (2 * s + 1) * d \in Int /\ C * n \in Int /\ e \in Nat
    BY <1>4 DEF Positive
  <2> QED
    BY <1>6, <2>1, Products
<1>9. (C * m) * d + d <= ((2 * s + 1) * e) * d
  <2>1. C * m + 1 \in Int /\ (2 * s + 1) * e \in Int /\ d \in Nat /\ C * m + 1 <= (2 * s + 1) * e
    BY <1>4, <1>7 DEF Positive
  <2>2. (C * m + 1) * d <= ((2 * s + 1) * e) * d
    BY <2>1, Products
  <2>3. (C * m + 1) * d = (C * m) * d + d
    BY <1>4 DEF Positive
  <2> QED
    BY <2>2, <2>3
<1>10. (n * e) * C <= (m * d) * C
  BY <1>4, <1>5, Products DEF Positive
<1>11. /\ (n * e) * C = (C * n) * e /\ (m * d) * C = (C * m) * d
       /\ ((2 * s + 1) * d) * e = ((2 * s + 1) * e) * d
  BY <1>4 DEF Positive
<1>12. PICK x \in Int, y \in Int, z \in Int :
         x = (C * n) * e /\ y = (C * m) * d /\ z = ((2 * s + 1) * e) * d
  BY <1>4 DEF Positive
<1> QED
  BY <1>8, <1>9, <1>10, <1>11, <1>12 DEF Positive

\* One factor worse and none better, the index is not lower.
LEMMA ExactMonotone ==
  ASSUME NEW f, NEW g, \A i \in 1..4 : Bounded(f[i], 100) /\ Bounded(g[i], 100) /\ AtMost(f[i], g[i])
  PROVE  AtMost(Exact(f), Exact(g))
<1> DEFINE mean(h) == Over(Plus(Plus(h[1], h[2]), Plus(h[3], h[4])), Whole(4))
<1>1. \A i \in 1..4 : Rational(f[i]) /\ Rational(g[i])
  BY DEF Bounded
<1>2. /\ Rational(mean(f)) /\ Rational(mean(g)) /\ AtMost(mean(f), mean(g))
  <2> DEFINE s == Plus(Plus(f[1], f[2]), Plus(f[3], f[4]))
             t == Plus(Plus(g[1], g[2]), Plus(g[3], g[4]))
  <2>1. /\ Rational(Plus(f[1], f[2])) /\ Rational(Plus(f[3], f[4]))
        /\ Rational(Plus(g[1], g[2])) /\ Rational(Plus(g[3], g[4]))
    BY <1>1, RationalsClosed
  <2>2. AtMost(Plus(f[1], f[2]), Plus(g[1], g[2])) /\ AtMost(Plus(f[3], f[4]), Plus(g[3], g[4]))
    BY <1>1, PlusMonotone
  <2>3. Rational(s) /\ Rational(t) /\ AtMost(s, t)
    BY <2>1, <2>2, PlusMonotone, RationalsClosed
  <2> HIDE DEF s, t
  <2>4. PICK a \in Int, b \in Positive, c \in Int, d \in Positive : s = <<a, b>> /\ t = <<c, d>>
    BY <2>3 DEF Rational
  <2>5. Over(s, Whole(4)) = <<a, b * 4>> /\ Over(t, Whole(4)) = <<c, d * 4>>
    BY <2>4 DEF Over, Whole, Positive
  <2>6. PICK x \in Int, y \in Int : x = a * d /\ y = c * b /\ x <= y
    BY <2>3, <2>4 DEF AtMost, Positive
  <2>7. a * (d * 4) = 4 * x /\ c * (b * 4) = 4 * y /\ b * 4 \in Positive /\ d * 4 \in Positive
    BY <2>6 DEF Positive
  <2>8. mean(f) = <<a, b * 4>> /\ mean(g) = <<c, d * 4>>
    BY <2>5 DEF s, t
  <2> HIDE DEF mean
  <2> QED
    BY <2>6, <2>7, <2>8 DEF AtMost, Rational
<1>3. \A h : Exact(h) = IF \E i \in 1..4 : Equal(h[i], Hundred) THEN Greater(mean(h), Whole(75)) ELSE mean(h)
  BY DEF Exact
<1>4. (\E i \in 1..4 : Equal(f[i], Hundred)) => \E i \in 1..4 : Equal(g[i], Hundred)
  <2> SUFFICES ASSUME NEW i \in 1..4, Equal(f[i], Hundred)
               PROVE  Equal(g[i], Hundred)
    OBVIOUS
  <2>1. Rational(Hundred) /\ AtMost(Hundred, f[i])
    BY WholeRational DEF Hundred, Equal
  <2>2. AtMost(Hundred, g[i])
    BY <1>1, <2>1, AtMostTransitive
  <2>3. PICK p : p = g[i]
    OBVIOUS
  <2>4. AtMost(p, Hundred)
    BY <2>3 DEF Bounded, Rational, AtMost, Hundred, Whole, Positive
  <2> QED
    BY <2>2, <2>3, <2>4 DEF Equal
<1> HIDE DEF mean
<1>5. Rational(Whole(75)) /\ AtMost(Whole(75), Whole(75))
  BY WholeRational, AtMostTotal
<1>6. AtMost(Greater(mean(f), Whole(75)), Greater(mean(g), Whole(75)))
  BY <1>2, <1>5, GreaterMonotone
<1>7. AtMost(mean(g), Greater(mean(g), Whole(75))) /\ Rational(Greater(mean(g), Whole(75)))
  BY <1>2, <1>5, AtMostTotal, RationalsClosed DEF Greater
<1>8. AtMost(mean(f), Greater(mean(g), Whole(75)))
  BY <1>2, <1>7, AtMostTransitive
<1> QED
  BY <1>2, <1>3, <1>4, <1>6, <1>8

------------------------------------------------------------------------------
(* The utilization ramp rises with the utilization and falls with the kink. *)

\* Below the kink the ramp is half of a hundred times e / kink; above it, the other half
\* of (e - kink) / (1 - kink) on top.
LEMMA RampValue ==
  ASSUME NEW n \in Nat, NEW m \in Positive, NEW k \in Positive, NEW d \in Positive, k < d
  PROVE  LET p == <<n, m>>
             kink == <<k, d>>
             N == (n * d - k * m) * d
             D == (m * d) * (d - k)
         IN  /\ AtMost(p, kink) <=> n * d <= k * m
             /\ AtMost(p, kink) => UtilizationRamp(p, kink) = <<50 * (n * d), m * k>>
             /\ ~AtMost(p, kink) => UtilizationRamp(p, kink) = <<50 * D + 50 * N, D>>
             /\ N \in Int /\ D \in Positive /\ m * k \in Positive /\ n * d \in Nat
             /\ ~AtMost(p, kink) => N >= 0
<1> DEFINE p == <<n, m>>
           kink == <<k, d>>
           N == (n * d - k * m) * d
           D == (m * d) * (d - k)
<1>1. AtMost(p, kink) <=> n * d <= k * m
  BY DEF AtMost
<1>2. PICK a \in Int, c \in Positive, w \in Positive, x \in Nat, y \in Positive :
        a = n * d - k * m /\ c = d - k /\ w = m * d /\ x = n * d /\ y = m * k
  BY Products DEF Positive
<1>3. N = a * d /\ D = w * c /\ N \in Int /\ D \in Positive
  BY <1>2, Products DEF Positive
<1>4. ~AtMost(p, kink) => N >= 0
  <2> SUFFICES ASSUME ~AtMost(p, kink) PROVE N >= 0
    OBVIOUS
  <2>1. a \in Nat
    BY <1>1, <1>2 DEF Positive
  <2>2. a * d \in Nat
    BY <2>1, Products DEF Positive
  <2> QED
    BY <1>3, <2>2
<1>5. AtMost(p, kink) => UtilizationRamp(p, kink) = <<50 * (n * d), m * k>>
  <2> SUFFICES ASSUME AtMost(p, kink) PROVE UtilizationRamp(p, kink) = <<50 * (n * d), m * k>>
    OBVIOUS
  <2>1. UtilizationRamp(p, kink) = Over(Times(Whole(50), p), kink)
    BY DEF UtilizationRamp
  <2>2. Over(Times(Whole(50), p), kink) = <<(50 * n) * d, (1 * m) * k>>
    BY DEF Over, Times, Whole
  <2>3. (50 * n) * d = 50 * (n * d) /\ (1 * m) * k = m * k
    BY DEF Positive
  <2> QED
    BY <2>1, <2>2, <2>3
<1>6. ~AtMost(p, kink) => UtilizationRamp(p, kink) = <<50 * D + 50 * N, D>>
  <2> SUFFICES ASSUME ~AtMost(p, kink) PROVE UtilizationRamp(p, kink) = <<50 * D + 50 * N, D>>
    OBVIOUS
  <2>1. UtilizationRamp(p, kink) =
          Plus(Whole(50), Over(Times(Whole(50), Minus(p, kink)), Minus(Whole(1), kink)))
    BY DEF UtilizationRamp
  <2>2. Minus(p, kink) = <<a, w>> /\ Minus(Whole(1), kink) = <<c, d>>
    BY <1>2 DEF Minus, Whole, Positive
  <2>3. Over(Times(Whole(50), <<a, w>>), <<c, d>>) = <<(50 * a) * d, (1 * w) * c>>
    BY DEF Over, Times, Whole
  <2> HIDE DEF N, D
  <2>4. (50 * a) * d = 50 * N /\ (1 * w) * c = D
    BY <1>2, <1>3 DEF Positive
  <2>5. Plus(Whole(50), <<50 * N, D>>) = <<50 * D + 50 * N, D>>
    BY <1>3 DEF Plus, Whole, Positive
  <2> QED
    BY <2>1, <2>2, <2>3, <2>4, <2>5
<1> HIDE DEF N, D, p, kink
<1>7. m * k \in Positive /\ n * d \in Nat
  BY Products DEF Positive
<1> QED
  BY <1>1, <1>3, <1>4, <1>5, <1>6, <1>7 DEF N, D, p, kink

\* The two halves meet at the kink.
LEMMA RampHalves ==
  ASSUME NEW p, Bounded(p, 1), NEW k \in Positive, NEW d \in Positive, k < d
  PROVE  /\ Rational(UtilizationRamp(p, <<k, d>>))
         /\ AtMost(p, <<k, d>>) => AtMost(UtilizationRamp(p, <<k, d>>), Whole(50))
         /\ ~AtMost(p, <<k, d>>) => AtMost(Whole(50), UtilizationRamp(p, <<k, d>>))
<1>1. PICK n \in Nat, m \in Positive : p = <<n, m>>
  BY DEF Bounded, Rational, Positive
<1>2. Rational(UtilizationRamp(p, <<k, d>>))
  BY RampBounded DEF Bounded
<1>3. ASSUME AtMost(p, <<k, d>>)
      PROVE  AtMost(UtilizationRamp(p, <<k, d>>), Whole(50))
  <2>1. /\ UtilizationRamp(p, <<k, d>>) = <<50 * (n * d), m * k>> /\ n * d <= k * m
        /\ n * d \in Nat /\ m * k \in Positive
    BY <1>1, <1>3, RampValue
  <2>2. PICK x \in Nat, y \in Positive : x = n * d /\ y = m * k /\ x <= y
    BY <2>1 DEF Positive
  <2> QED
    BY <2>1, <2>2 DEF AtMost, Whole, Positive
<1>4. ASSUME ~AtMost(p, <<k, d>>)
      PROVE  AtMost(Whole(50), UtilizationRamp(p, <<k, d>>))
  <2>1. PICK N \in Int, D \in Positive : UtilizationRamp(p, <<k, d>>) = <<50 * D + 50 * N, D>> /\ N >= 0
    BY <1>1, <1>4, RampValue
  <2> QED
    BY <2>1 DEF AtMost, Whole, Positive
<1> QED
  BY <1>2, <1>3, <1>4

LEMMA RampMonotone ==
  ASSUME NEW p, NEW q, Bounded(p, 1), Bounded(q, 1), AtMost(p, q),
         NEW k \in Positive, NEW d \in Positive, k < d
  PROVE  AtMost(UtilizationRamp(p, <<k, d>>), UtilizationRamp(q, <<k, d>>))
<1> DEFINE kink == <<k, d>>
<1>1. PICK n \in Nat, m \in Positive, i \in Nat, j \in Positive : p = <<n, m>> /\ q = <<i, j>>
  BY DEF Bounded, Rational, Positive
<1>2. n * j <= i * m
  BY <1>1 DEF AtMost
<1>3. Rational(p) /\ Rational(q) /\ Rational(kink) /\ Rational(Whole(50))
  BY WholeRational DEF Bounded, Rational, Positive
<1>4. CASE AtMost(p, kink) /\ AtMost(q, kink)
  <2>1. /\ UtilizationRamp(p, kink) = <<50 * (n * d), m * k>>
        /\ UtilizationRamp(q, kink) = <<50 * (i * d), j * k>>
    BY <1>1, <1>4, RampValue
  <2>2. d * k \in Nat /\ n * j \in Nat /\ i * m \in Nat
    BY DEF Positive
  <2>3. (n * j) * (d * k) <= (i * m) * (d * k)
    BY <1>2, <2>2, Products
  <2>4. PICK x \in Int, y \in Int : x = (n * j) * (d * k) /\ y = (i * m) * (d * k)
    BY DEF Positive
  <2>5. (50 * (n * d)) * (j * k) = 50 * x /\ (50 * (i * d)) * (m * k) = 50 * y
    BY <2>4 DEF Positive
  <2> QED
    BY <2>1, <2>3, <2>4, <2>5 DEF AtMost
<1>5. CASE AtMost(p, kink) /\ ~AtMost(q, kink)
  BY <1>3, <1>5, RampHalves, AtMostTransitive
<1>6. CASE ~AtMost(p, kink)
  <2>1. ~AtMost(q, kink)
    BY <1>3, <1>6, AtMostTransitive
  <2> DEFINE N == (n * d - k * m) * d
             D == (m * d) * (d - k)
             M == (i * d - k * j) * d
             E == (j * d) * (d - k)
  <2>2. /\ UtilizationRamp(p, kink) = <<50 * D + 50 * N, D>>
        /\ UtilizationRamp(q, kink) = <<50 * E + 50 * M, E>>
        /\ N \in Int /\ D \in Positive /\ M \in Int /\ E \in Positive
    BY <1>1, <1>6, <2>1, RampValue
  <2>3. PICK c \in Positive, z \in Nat : c = d - k /\ z = (d * d) * (c * d)
    BY Products DEF Positive
  <2>4. n * j \in Int /\ i * m \in Int /\ z \in Nat
    BY DEF Positive
  <2>5. (n * j) * z <= (i * m) * z
    BY <1>2, <2>4, Products
  <2>6. PICK r \in Int : r = ((k * m) * j) * ((d * d) * c)
    BY <2>3 DEF Positive
  <2>7. N * E = (n * j) * z - r /\ M * D = (i * m) * z - r
    BY <2>3, <2>6 DEF Positive
  <2>8. PICK x \in Int, y \in Int, v \in Int : x = N * E /\ y = M * D /\ v = D * E /\ x <= y
    <3>1. (n * j) * z \in Int /\ (i * m) * z \in Int
      BY <2>4
    <3> HIDE DEF N, D, M, E
    <3> QED
      BY <2>2, <2>5, <2>6, <2>7, <3>1 DEF Positive
  <2> HIDE DEF N, D, M, E
  <2>9. (50 * D + 50 * N) * E = 50 * v + 50 * x /\ (50 * E + 50 * M) * D = 50 * v + 50 * y
    BY <2>2, <2>8 DEF Positive
  <2>10. (50 * D + 50 * N) * E <= (50 * E + 50 * M) * D
    BY <2>8, <2>9
  <2> QED
    BY <2>2, <2>10 DEF AtMost
<1> QED
  BY <1>4, <1>5, <1>6

LEMMA RampOfLowerKink ==
  ASSUME NEW p, Bounded(p, 1), NEW k \in Positive, NEW l \in Positive, NEW d \in Positive,
         l < k, k < d
  PROVE  AtMost(UtilizationRamp(p, <<k, d>>), UtilizationRamp(p, <<l, d>>))
<1>1. PICK n \in Nat, m \in Positive : p = <<n, m>> /\ n <= m
  BY DEF Bounded, Rational, Positive
<1>2. Rational(p) /\ Rational(<<k, d>>) /\ Rational(<<l, d>>) /\ Rational(Whole(50))
  BY WholeRational DEF Bounded, Rational, Positive
<1>3. AtMost(<<l, d>>, <<k, d>>) /\ l < d
  BY Products DEF AtMost, Positive
<1>4. CASE AtMost(p, <<l, d>>)
  <2>1. AtMost(p, <<k, d>>)
    BY <1>2, <1>3, <1>4, AtMostTransitive
  <2>2. /\ UtilizationRamp(p, <<k, d>>) = <<50 * (n * d), m * k>>
        /\ UtilizationRamp(p, <<l, d>>) = <<50 * (n * d), m * l>>
    BY <1>1, <1>3, <1>4, <2>1, RampValue
  <2>3. PICK x \in Nat : x = 50 * (n * d)
    BY DEF Positive
  <2>4. m * l <= m * k /\ m * l \in Int /\ m * k \in Int
    <3>1. l * m <= k * m
      BY Products DEF Positive
    <3> QED
      BY <3>1 DEF Positive
  <2>5. (m * l) * x <= (m * k) * x
    BY <2>3, <2>4, Products
  <2>6. x * (m * l) <= x * (m * k)
    BY <2>3, <2>4, <2>5
  <2> QED
    BY <2>2, <2>3, <2>6 DEF AtMost
<1>5. CASE AtMost(p, <<k, d>>) /\ ~AtMost(p, <<l, d>>)
  BY <1>2, <1>3, <1>5, RampHalves, AtMostTransitive
<1>6. CASE ~AtMost(p, <<k, d>>)
  <2>1. ~AtMost(p, <<l, d>>)
    BY <1>2, <1>3, <1>6, AtMostTransitive
  <2> DEFINE N == (n * d - k * m) * d
             D == (m * d) * (d - k)
             M == (n * d - l * m) * d
             E == (m * d) * (d - l)
  <2>2. /\ UtilizationRamp(p, <<k, d>>) = <<50 * D + 50 * N, D>>
        /\ UtilizationRamp(p, <<l, d>>) = <<50 * E + 50 * M, E>>
        /\ N \in Int /\ D \in Positive /\ M \in Int /\ E \in Positive
    BY <1>1, <1>3, <1>6, <2>1, RampValue
  <2>3. PICK c \in Positive, z \in Nat : c = k - l /\ z = ((d * d) * (m * d)) * c
    BY Products DEF Positive
  <2>4. n * z <= m * z
    BY <1>1, <2>3, Products DEF Positive
  <2>5. M * D - N * E = m * z - n * z
    BY <2>3 DEF Positive
  <2>6. PICK x \in Int, y \in Int, v \in Int : x = N * E /\ y = M * D /\ v = D * E /\ x <= y
    <3>1. n * z \in Int /\ m * z \in Int
      BY <2>3 DEF Positive
    <3> HIDE DEF N, D, M, E
    <3>2. M * D \in Int /\ N * E \in Int /\ D * E \in Int
      BY <2>2 DEF Positive
    <3> QED
      BY <2>4, <2>5, <3>1, <3>2
  <2> HIDE DEF N, D, M, E
  <2>7. (50 * D + 50 * N) * E = 50 * v + 50 * x /\ (50 * E + 50 * M) * D = 50 * v + 50 * y
    BY <2>2, <2>6 DEF Positive
  <2>8. (50 * D + 50 * N) * E <= (50 * E + 50 * M) * D
    BY <2>6, <2>7
  <2> QED
    BY <2>2, <2>8 DEF AtMost
<1> QED
  BY <1>4, <1>5, <1>6

------------------------------------------------------------------------------
(* Factor by factor: a reserve that gets worse. *)

LEMMA FieldTypes ==
  ASSUME NEW o, Wellformed(o)
  PROVE  /\ \A g \in NaturalFields : g \in DOMAIN o /\ o[g] \in Nat
         /\ \A g \in IntegerFields : g \in DOMAIN o /\ o[g] \in Int
         /\ \A g \in BooleanFields : g \in DOMAIN o /\ o[g] \in BOOLEAN
         /\ Inputs \subseteq DOMAIN o
  BY DEF Wellformed, Admitted

\* An older answer, or one due more often.
LEMMA OracleWorse ==
  ASSUME NEW o, NEW p, NEW m, Wellformed(o), Wellformed(p),
         \A g \in OracleInputs \ {"oracle_feed_updated_at", "oracle_feed_heartbeat"} : p[g] = o[g],
         p.block_timestamp = o.block_timestamp,
         p.oracle_feed_updated_at <= o.oracle_feed_updated_at,
         p.oracle_feed_heartbeat <= o.oracle_feed_heartbeat,
         Oracle(o, m) # Unknown, Oracle(p, m) # Unknown
  PROVE  AtMost(Oracle(o, m), Oracle(p, m))
<1> DEFINE worst(x) == \/ x.oracle_feed_latest_answer <= 0 \/ x.oracle_source_latest_answer <= 0
                       \/ ~AdapterMatches(x)
           h(x) == x.oracle_feed_heartbeat
           a(x) == x.block_timestamp - x.oracle_feed_updated_at
<1>1. \A x : Oracle(x, m) # Unknown =>
        /\ ~(h(x) <= 0) /\ ~(a(x) < 0)
        /\ Oracle(x, m) = IF worst(x) THEN Hundred ELSE Times(Hundred, Clip(<<a(x) - h(x), h(x)>>))
  BY Zenon DEF Oracle
<1>2. worst(o) <=> worst(p)
  <2>1. /\ p.oracle_feed_latest_answer = o.oracle_feed_latest_answer
        /\ p.oracle_source_latest_answer = o.oracle_source_latest_answer
        /\ p.oracle_source_price_cap = o.oracle_source_price_cap
        /\ p.oracle_feed_decimals = o.oracle_feed_decimals
        /\ p.oracle_source_decimals = o.oracle_source_decimals
    BY DEF OracleInputs
  <2> QED
    BY <2>1, Zenon DEF AdapterMatches
<1> HIDE DEF worst
<1>3. PICK i \in Positive, j \in Positive, c \in Nat, d \in Nat :
        i = h(o) /\ j = h(p) /\ c = a(o) /\ d = a(p) /\ j <= i /\ c <= d
  <2>1. ~(h(o) <= 0) /\ ~(h(p) <= 0) /\ ~(a(o) < 0) /\ ~(a(p) < 0)
    BY <1>1
  <2>2. h(o) \in Positive /\ h(p) \in Positive /\ a(o) \in Nat /\ a(p) \in Nat
    BY <2>1, Fields DEF Positive
  <2>3. h(p) <= h(o) /\ a(o) <= a(p)
    BY Fields
  <2> QED
    BY <2>2, <2>3
<1> HIDE DEF h, a
<1>4. CASE worst(o)
  <2>1. Oracle(o, m) = Hundred /\ Oracle(p, m) = Hundred
    BY <1>1, <1>2, <1>4
  <2> QED
    BY <2>1, AtMostTotal, WholeRational DEF Hundred
<1>5. CASE ~worst(o)
  <2>1. /\ Oracle(o, m) = Times(Hundred, Clip(<<c - i, i>>))
        /\ Oracle(p, m) = Times(Hundred, Clip(<<d - j, j>>))
    BY <1>1, <1>2, <1>3, <1>5
  <2>2. Rational(<<c - i, i>>) /\ Rational(<<d - j, j>>)
    BY DEF Rational, Positive
  <2>3. AtMost(<<c - i, i>>, <<d - j, j>>)
    <3>1. c * j <= d * j /\ j * d <= i * d
      BY <1>3, Products DEF Positive
    <3>2. (c - i) * j = c * j - i * j /\ (d - j) * i = i * d - i * j /\ d * j = j * d
      BY DEF Positive
    <3>3. PICK x \in Int, y \in Int, z \in Int, w \in Int :
            x = c * j /\ y = d * j /\ z = i * d /\ w = i * j
      BY DEF Positive
    <3>4. (c - i) * j <= (d - j) * i
      BY <3>1, <3>2, <3>3
    <3> QED
      BY <3>4 DEF AtMost
  <2>4. AtMost(Clip(<<c - i, i>>), Clip(<<d - j, j>>))
    BY <2>2, <2>3, ClipMonotone
  <2>5. Rational(Clip(<<c - i, i>>)) /\ Rational(Clip(<<d - j, j>>))
    BY ClipBounded DEF Bounded, Positive
  <2> QED
    BY <2>1, <2>4, <2>5, HundredTimesMonotone
<1> QED
  BY <1>4, <1>5

\* More debt or less cash, more supplied or less of it there, an earlier kink.
LEMMA LiquidityWorse ==
  ASSUME NEW o, NEW p, NEW m, Wellformed(o), Wellformed(p),
         o.variable_debt <= p.variable_debt, o.total_supplied <= p.total_supplied,
         p.available_liquidity <= o.available_liquidity,
         p.virtual_available_liquidity <= o.virtual_available_liquidity,
         p.optimal_utilization <= o.optimal_utilization,
         Liquidity(o, m) # Unknown, Liquidity(p, m) # Unknown
  PROVE  AtMost(Liquidity(o, m), Liquidity(p, m))
<1> DEFINE s(x) == x.total_supplied
           b(x) == x.variable_debt
           v(x) == x.virtual_available_liquidity
           c(x) == x.available_liquidity
           k(x) == x.optimal_utilization
           u(x) == <<b(x), b(x) + v(x)>>
           r(x) == <<s(x) - c(x), s(x)>>
           e(x) == Greater(u(x), Clip(r(x)))
<1>1. \A x : Liquidity(x, m) # Unknown =>
        /\ ~(s(x) <= 0) /\ ~(b(x) + v(x) <= 0) /\ ~(k(x) <= 0) /\ ~(k(x) >= Ray)
        /\ Liquidity(x, m) = UtilizationRamp(e(x), <<k(x), Ray>>)
  BY Zenon DEF Liquidity
<1>2. \A x \in {o, p} : s(x) \in Nat /\ b(x) \in Nat /\ v(x) \in Nat /\ c(x) \in Nat /\ k(x) \in Nat
  BY Fields
<1>3. \A x \in {o, p} :
        s(x) \in Positive /\ b(x) + v(x) \in Positive /\ k(x) \in Positive /\ k(x) < Ray
  <2>1. \A x \in {o, p} : ~(s(x) <= 0) /\ ~(b(x) + v(x) <= 0) /\ ~(k(x) <= 0) /\ ~(k(x) >= Ray)
    BY <1>1
  <2> HIDE DEF s, b, v, k
  <2> QED
    BY <1>2, <2>1, UnitAssumption DEF Positive
<1>4. b(o) <= b(p) /\ s(o) <= s(p) /\ c(p) <= c(o) /\ v(p) <= v(o) /\ k(p) <= k(o)
  OBVIOUS
<1> HIDE DEF s, b, v, c, k
<1>5. AtMost(u(o), u(p))
  <2>1. PICK b0 \in Nat, v0 \in Nat, b1 \in Nat, v1 \in Nat :
          b0 = b(o) /\ v0 = v(o) /\ b1 = b(p) /\ v1 = v(p)
    BY <1>2
  <2>2. v1 * b0 <= v0 * b0 /\ b0 * v0 <= b1 * v0
    BY <1>4, <2>1, Products
  <2>3. b0 * (b1 + v1) = b0 * b1 + v1 * b0 /\ b1 * (b0 + v0) = b0 * b1 + b1 * v0 /\ v0 * b0 = b0 * v0
    OBVIOUS
  <2>4. PICK x \in Int, y \in Int, z \in Int, w \in Int :
          x = v1 * b0 /\ y = v0 * b0 /\ z = b1 * v0 /\ w = b0 * b1
    OBVIOUS
  <2>5. b0 * (b1 + v1) <= b1 * (b0 + v0)
    BY <2>2, <2>3, <2>4
  <2> QED
    BY <2>1, <2>5 DEF AtMost
<1>6. AtMost(r(o), r(p))
  <2>1. PICK s0 \in Nat, c0 \in Nat, s1 \in Nat, c1 \in Nat :
          s0 = s(o) /\ c0 = c(o) /\ s1 = s(p) /\ c1 = c(p)
    BY <1>2
  <2>2. c1 * s0 <= c0 * s0 /\ s0 * c0 <= s1 * c0
    BY <1>4, <2>1, Products
  <2>3. (s0 - c0) * s1 = s0 * s1 - s1 * c0 /\ (s1 - c1) * s0 = s0 * s1 - c1 * s0 /\ c0 * s0 = s0 * c0
    OBVIOUS
  <2>4. PICK x \in Int, y \in Int, z \in Int, w \in Int :
          x = c1 * s0 /\ y = c0 * s0 /\ z = s1 * c0 /\ w = s0 * s1
    OBVIOUS
  <2>5. (s0 - c0) * s1 <= (s1 - c1) * s0
    BY <2>2, <2>3, <2>4
  <2> QED
    BY <2>1, <2>5 DEF AtMost
<1>7. \A x \in {o, p} : Bounded(u(x), 1) /\ Rational(r(x)) /\ Bounded(Clip(r(x)), 1)
  BY <1>2, <1>3, ClipBounded DEF Bounded, Rational, Positive
<1> HIDE DEF u, r
<1>8. AtMost(Clip(r(o)), Clip(r(p)))
  BY <1>6, <1>7, ClipMonotone
<1>9. Bounded(e(o), 1) /\ Bounded(e(p), 1) /\ AtMost(e(o), e(p))
  BY <1>5, <1>7, <1>8, OneOfThem, GreaterMonotone DEF Bounded
<1> HIDE DEF e
<1> PICK f, g : f = e(o) /\ g = e(p)
  OBVIOUS
<1>10. PICK i \in Positive, j \in Positive :
         /\ f = e(o) /\ g = e(p) /\ i = k(o) /\ j = k(p) /\ i < Ray /\ j < Ray /\ j <= i
  BY <1>3, <1>4
<1>11. Ray \in Positive
  BY UnitAssumption DEF Positive
<1>12. AtMost(UtilizationRamp(f, <<i, Ray>>), UtilizationRamp(g, <<i, Ray>>))
  BY <1>9, <1>10, <1>11, RampMonotone
<1>13. AtMost(UtilizationRamp(g, <<i, Ray>>), UtilizationRamp(g, <<j, Ray>>))
  <2>1. CASE j = i
    BY <1>9, <1>10, <1>11, <2>1, RampHalves, AtMostTotal
  <2>2. CASE j < i
    BY <1>9, <1>10, <1>11, <2>2, RampOfLowerKink
  <2> QED
    BY <1>10, <2>1, <2>2 DEF Positive
<1>14. /\ Rational(UtilizationRamp(f, <<i, Ray>>)) /\ Rational(UtilizationRamp(g, <<i, Ray>>))
       /\ Rational(UtilizationRamp(g, <<j, Ray>>))
  BY <1>9, <1>10, <1>11, RampHalves
<1>15. AtMost(UtilizationRamp(f, <<i, Ray>>), UtilizationRamp(g, <<j, Ray>>))
  BY <1>12, <1>13, <1>14, AtMostTransitive
<1> QED
  BY <1>1, <1>10, <1>15

\* More credit against the same collateral.
LEMMA CollateralWorse ==
  ASSUME NEW o, NEW p, NEW m, Wellformed(o), Wellformed(p), o.ltv <= p.ltv,
         p.liquidation_threshold = o.liquidation_threshold,
         p.liquidation_bonus = o.liquidation_bonus,
         Collateral(o, m) # Unknown, Collateral(p, m) # Unknown
  PROVE  AtMost(Collateral(o, m), Collateral(p, m))
<1> PICK l, k, t, b : l = o.ltv /\ k = p.ltv /\ t = o.liquidation_threshold /\ b = o.liquidation_bonus
  OBVIOUS
<1>1. l \in Nat /\ k \in Nat /\ t \in Nat /\ b \in Nat /\ l <= k
  BY FieldTypes DEF NaturalFields, CollateralInputs
<1> DEFINE bad(x) == x > t \/ t > BPS \/ b <= BPS \/ t * b >= BPS * BPS
           value(x) == IF x = 0 /\ t = 0 /\ b = 0 THEN Whole(0)
                       ELSE IF bad(x) THEN Hundred
                       ELSE IF x = t /\ t > 0 THEN Whole(50) ELSE Whole(0)
<1>2. Collateral(o, m) = value(l) /\ Collateral(p, m) = value(k)
  BY Zenon DEF Collateral
<1>3. bad(l) => bad(k)
  BY <1>1
<1>4. k # l => (l = t => bad(k))
  BY <1>1
<1>5. AtMost(value(l), value(k))
  <2>1. CASE k = l
    BY <2>1 DEF AtMost, Whole, Hundred
  <2>2. CASE k # l
    <3>1. k # 0 /\ (l = t => bad(k)) /\ (l = 0 /\ t = 0 /\ b = 0 => bad(k))
      BY <1>1, <1>4, <2>2
    <3> HIDE DEF bad
    <3>2. value(k) \in {Hundred, Whole(50), Whole(0)} /\ (bad(k) => value(k) = Hundred)
      BY <3>1
    <3>3. \/ value(l) = Whole(0)
          \/ value(l) \in {Hundred, Whole(50)} /\ value(k) = Hundred
      BY <1>3, <3>1
    <3> HIDE DEF value
    <3> QED
      BY <3>2, <3>3 DEF AtMost, Whole, Hundred
  <2> QED
    BY <2>1, <2>2
<1> QED
  BY <1>2, <1>5

\* What a restriction says of the flags and of the caps that are reached.
LEMMA RestrictionValue ==
  ASSUME NEW o, NEW m, Wellformed(o), Restriction(o, m) # Unknown
  PROVE  LET reached == \/ /\ o.supply_cap > 0
                           /\ o.supply_cap_total_supplied >= o.supply_cap * TokenUnit
                        \/ /\ o.borrow_cap > 0
                           /\ o.variable_debt >= o.borrow_cap * TokenUnit
         IN  Restriction(o, m) =
               IF o.reserve_paused \/ ~o.reserve_active THEN Hundred
               ELSE IF o.reserve_frozen THEN Whole(50)
               ELSE IF ~o.borrowing_enabled \/ reached THEN Whole(25) ELSE Whole(0)
<1>1. RestrictionInputs(o) \cap m = {}
  BY Zenon DEF Restriction
<1> DEFINE Used(name) == IF name \in m THEN 0 ELSE o[name]
           reached == \/ /\ o.supply_cap > 0
                         /\ o.supply_cap_total_supplied >= o.supply_cap * TokenUnit
                      \/ /\ o.borrow_cap > 0
                         /\ o.variable_debt >= o.borrow_cap * TokenUnit
           used == \/ /\ o.supply_cap > 0
                      /\ Used("supply_cap_total_supplied") >= o.supply_cap * TokenUnit
                   \/ /\ o.borrow_cap > 0
                      /\ Used("variable_debt") >= o.borrow_cap * TokenUnit
<1>2. o.supply_cap \in Nat /\ o.borrow_cap \in Nat
  BY FieldTypes DEF NaturalFields
<1>3. /\ o.supply_cap > 0 => Used("supply_cap_total_supplied") = o.supply_cap_total_supplied
      /\ o.borrow_cap > 0 => Used("variable_debt") = o.variable_debt
  BY <1>1, <1>2 DEF RestrictionInputs
<1>4. Restriction(o, m) =
        IF o.reserve_paused \/ ~o.reserve_active THEN Hundred
        ELSE IF o.reserve_frozen THEN Whole(50)
        ELSE IF ~o.borrowing_enabled \/ used THEN Whole(25) ELSE Whole(0)
  BY <1>1, Zenon DEF Restriction
<1>5. used <=> reached
  BY <1>3, Zenon
<1> HIDE DEF used, reached
<1>6. Restriction(o, m) =
        IF o.reserve_paused \/ ~o.reserve_active THEN Hundred
        ELSE IF o.reserve_frozen THEN Whole(50)
        ELSE IF ~o.borrowing_enabled \/ reached THEN Whole(25) ELSE Whole(0)
  BY <1>4, <1>5, Zenon
<1> QED
  BY <1>6 DEF reached

\* A restriction imposed, a cap tightened, a cap filled.
Tighter(a, b) == a \in Nat /\ b \in Nat /\ (a > 0 => b > 0 /\ b <= a)

LEMMA RestrictionWorse ==
  ASSUME NEW o, NEW p, NEW m, Wellformed(o), Wellformed(p),
         Tighter(o.supply_cap, p.supply_cap), Tighter(o.borrow_cap, p.borrow_cap),
         o.supply_cap_total_supplied <= p.supply_cap_total_supplied,
         o.variable_debt <= p.variable_debt,
         o.reserve_paused => p.reserve_paused, o.reserve_frozen => p.reserve_frozen,
         p.reserve_active => o.reserve_active, p.borrowing_enabled => o.borrowing_enabled,
         Restriction(o, m) # Unknown, Restriction(p, m) # Unknown
  PROVE  AtMost(Restriction(o, m), Restriction(p, m))
<1> DEFINE full(x) == \/ /\ x.supply_cap > 0
                         /\ x.supply_cap_total_supplied >= x.supply_cap * TokenUnit
                      \/ /\ x.borrow_cap > 0
                         /\ x.variable_debt >= x.borrow_cap * TokenUnit
           value(x) == IF x.reserve_paused \/ ~x.reserve_active THEN Hundred
                       ELSE IF x.reserve_frozen THEN Whole(50)
                       ELSE IF ~x.borrowing_enabled \/ full(x) THEN Whole(25) ELSE Whole(0)
<1>1. Restriction(o, m) = value(o) /\ Restriction(p, m) = value(p)
  BY RestrictionValue
<1>2. ASSUME NEW a, NEW b, NEW c, NEW d, Tighter(a, b), c \in Nat, d \in Nat, c <= d,
             a > 0, c >= a * TokenUnit
      PROVE  b > 0 /\ d >= b * TokenUnit
  <2>1. b * TokenUnit <= a * TokenUnit
    BY <1>2, UnitAssumption, Products DEF Tighter
  <2>2. b * TokenUnit \in Int /\ a * TokenUnit \in Int
    BY <1>2, UnitAssumption DEF Tighter
  <2> QED
    BY <1>2, <2>1, <2>2 DEF Tighter
<1>3. full(o) => full(p)
  <2>1. \A x \in {o, p} : x.supply_cap_total_supplied \in Nat /\ x.variable_debt \in Nat
    BY FieldTypes DEF NaturalFields, LiquidityInputs
  <2> QED
    BY <1>2, <2>1
<1> HIDE DEF full
<1>4. \/ value(o) = Whole(0)
      \/ value(o) = Whole(25) /\ value(p) \in {Whole(25), Whole(50), Hundred}
      \/ value(o) = Whole(50) /\ value(p) \in {Whole(50), Hundred}
      \/ value(o) = Hundred /\ value(p) = Hundred
  BY <1>3, Zenon
<1>5. value(p) \in {Whole(0), Whole(25), Whole(50), Hundred}
  BY Zenon
<1> HIDE DEF value
<1>6. AtMost(value(o), value(p))
  BY <1>4, <1>5 DEF AtMost, Whole, Hundred
<1> QED
  BY <1>1, <1>6

\* All that may get worse at once, and all that stays.
Flags == {"reserve_paused", "reserve_frozen", "reserve_active", "borrowing_enabled"}
GetsWorse(o, p) ==
  /\ \A g \in HigherIsWorse : o[g] <= p[g]
  /\ \A g \in LowerIsWorse : p[g] <= o[g]
  /\ \A g \in {"reserve_paused", "reserve_frozen"} : o[g] => p[g]
  /\ \A g \in {"reserve_active", "borrowing_enabled"} : p[g] => o[g]
  /\ \A g \in {"supply_cap", "borrow_cap"} : Tighter(o[g], p[g])
  /\ \A g \in (Inputs \cup {"block_timestamp", "block_final"})
                \ (HigherIsWorse \cup LowerIsWorse \cup Flags \cup {"supply_cap", "borrow_cap"}) :
       p[g] = o[g]

\* One field may get worse in these ways (Worse, of two snapshots).
WorseIn(o, p, f) ==
  \/ f \in HigherIsWorse /\ p[f] > o[f]
  \/ f \in LowerIsWorse /\ p[f] < o[f]
  \/ f \in {"reserve_paused", "reserve_frozen"} /\ p[f]
  \/ f \in {"reserve_active", "borrowing_enabled"} /\ ~p[f]
  \/ f \in {"supply_cap", "borrow_cap"} /\ p[f] \in 1..(o[f] - 1)

LEMMA OneFieldWorse ==
  ASSUME NEW o, NEW p, NEW f, Wellformed(o), Wellformed(p), p = [o EXCEPT ![f] = p[f]],
         WorseIn(o, p, f)
  PROVE  GetsWorse(o, p)
<1> DEFINE Ordered == HigherIsWorse \cup LowerIsWorse
           Caps == {"supply_cap", "borrow_cap"}
<1>1. \A g \in DOMAIN o : g # f => p[g] = o[g]
  <2> SUFFICES ASSUME NEW g \in DOMAIN o, g # f
               PROVE  [o EXCEPT ![f] = p[f]][g] = o[g]
    OBVIOUS
  <2>1. o = [field \in DOMAIN o |-> o[field]]
    BY DEF Wellformed
  <2> QED
    BY <2>1
<1>2. /\ \A g \in Ordered \cup Caps : g \in DOMAIN o /\ o[g] \in Nat /\ p[g] \in Nat
      /\ \A g \in Flags : g \in DOMAIN o /\ o[g] \in BOOLEAN /\ p[g] \in BOOLEAN
  <2>1. Ordered \cup Caps \subseteq NaturalFields /\ Flags \subseteq BooleanFields
    BY DEF HigherIsWorse, LowerIsWorse, Flags, NaturalFields, BooleanFields, LiquidityInputs,
           CollateralInputs
  <2> QED
    BY <2>1, FieldTypes
<1>3. (Inputs \cup {"block_timestamp", "block_final"}) \subseteq DOMAIN o
  BY FieldTypes DEF NaturalFields, BooleanFields
<1>4. \A g \in HigherIsWorse : g \notin LowerIsWorse /\ g \notin Flags /\ g \notin Caps
  BY DEF HigherIsWorse, LowerIsWorse, Flags
<1>5. \A g \in LowerIsWorse : g \notin HigherIsWorse /\ g \notin Flags /\ g \notin Caps
  BY DEF HigherIsWorse, LowerIsWorse, Flags
<1>6. \A g \in Flags : g \notin Caps
  BY DEF Flags
<1>7. f \in HigherIsWorse \cup LowerIsWorse \cup Flags \cup Caps
  BY DEF WorseIn, Flags
<1>8. \A g \in HigherIsWorse : o[g] <= p[g]
  BY <1>1, <1>2, <1>4 DEF WorseIn, Flags
<1>9. \A g \in LowerIsWorse : p[g] <= o[g]
  BY <1>1, <1>2, <1>5 DEF WorseIn, Flags
<1>10. \A g \in {"reserve_paused", "reserve_frozen"} : o[g] => p[g]
  <2> SUFFICES ASSUME NEW g \in {"reserve_paused", "reserve_frozen"}
               PROVE  o[g] => p[g]
    OBVIOUS
  <2>1. CASE g = f
    <3>1. p[g]
      BY <1>4, <1>5, <1>6, <2>1 DEF WorseIn, Flags
    <3> QED
      BY <3>1
  <2>2. CASE g # f
    BY <1>1, <1>2, <2>2 DEF Flags
  <2> QED
    BY <2>1, <2>2
<1>11. \A g \in {"reserve_active", "borrowing_enabled"} : p[g] => o[g]
  <2> SUFFICES ASSUME NEW g \in {"reserve_active", "borrowing_enabled"}
               PROVE  p[g] => o[g]
    OBVIOUS
  <2>1. CASE g = f
    <3>1. ~p[g]
      BY <1>4, <1>5, <1>6, <2>1 DEF WorseIn, Flags
    <3> QED
      BY <3>1
  <2>2. CASE g # f
    BY <1>1, <1>2, <2>2 DEF Flags
  <2> QED
    BY <2>1, <2>2
<1>12. \A g \in Caps : Tighter(o[g], p[g])
  <2> SUFFICES ASSUME NEW g \in Caps
               PROVE  Tighter(o[g], p[g])
    OBVIOUS
  <2>1. CASE g = f
    <3>1. p[g] \in 1..(o[g] - 1)
      BY <1>4, <1>5, <1>6, <2>1 DEF WorseIn, Flags
    <3> QED
      BY <1>2, <3>1 DEF Tighter
  <2>2. CASE g # f
    BY <1>1, <1>2, <2>2 DEF Tighter
  <2> QED
    BY <2>1, <2>2
<1> QED
  BY <1>1, <1>3, <1>7, <1>8, <1>9, <1>10, <1>11, <1>12 DEF GetsWorse

\* Of an actionable snapshot all four factors are known.
LEMMA FactorsKnown ==
  ASSUME NEW o, NEW m, Wellformed(o), Actionable(o, m)
  PROVE  /\ Factors(o, m) = <<Oracle(o, m), Liquidity(o, m), Collateral(o, m), Restriction(o, m)>>
         /\ Oracle(o, m) # Unknown /\ Liquidity(o, m) # Unknown
         /\ Collateral(o, m) # Unknown /\ Restriction(o, m) # Unknown
         /\ \A i \in 1..4 : Bounded(Factors(o, m)[i], 100)
<1>1. PICK a, b, c, d : /\ a = Oracle(o, m) /\ b = Liquidity(o, m)
                        /\ c = Collateral(o, m) /\ d = Restriction(o, m)
  OBVIOUS
<1>2. PICK f : f = Factors(o, m)
  OBVIOUS
<1>3. f = [i \in 1..4 |-> Unknown] \/ f = <<a, b, c, d>>
  BY <1>1, <1>2, FourFactors
<1>4. \A i \in 1..4 : f[i] # Unknown
  BY <1>2 DEF Actionable, Known
<1>5. f = <<a, b, c, d>>
  BY <1>3, <1>4
<1>6. a # Unknown /\ b # Unknown /\ c # Unknown /\ d # Unknown
  <2>1. f[1] # Unknown /\ f[2] # Unknown /\ f[3] # Unknown /\ f[4] # Unknown
    BY <1>4
  <2> QED
    BY <1>5, <2>1
<1>7. \A i \in 1..4 : Bounded(f[i], 100)
  BY <1>2, <1>4, FactorsPercentages DEF Percentage
<1> QED
  BY <1>1, <1>2, <1>5, <1>6, <1>7

LEMMA WorseFactors ==
  ASSUME NEW o, NEW p, NEW m, Wellformed(o), Wellformed(p), GetsWorse(o, p),
         Oracle(o, m) # Unknown, Liquidity(o, m) # Unknown,
         Collateral(o, m) # Unknown, Restriction(o, m) # Unknown,
         Oracle(p, m) # Unknown, Liquidity(p, m) # Unknown,
         Collateral(p, m) # Unknown, Restriction(p, m) # Unknown
  PROVE  /\ AtMost(Oracle(o, m), Oracle(p, m)) /\ AtMost(Liquidity(o, m), Liquidity(p, m))
         /\ AtMost(Collateral(o, m), Collateral(p, m))
         /\ AtMost(Restriction(o, m), Restriction(p, m))
<1>1. AtMost(Oracle(o, m), Oracle(p, m))
  <2>1. \A g \in OracleInputs \ {"oracle_feed_updated_at", "oracle_feed_heartbeat"} : p[g] = o[g]
    BY DEF GetsWorse, Inputs, OracleInputs, OracleAddresses, HigherIsWorse, LowerIsWorse, Flags
  <2>2. /\ p.block_timestamp = o.block_timestamp
        /\ p.oracle_feed_updated_at <= o.oracle_feed_updated_at
        /\ p.oracle_feed_heartbeat <= o.oracle_feed_heartbeat
    BY DEF GetsWorse, HigherIsWorse, LowerIsWorse, Flags
  <2> QED
    BY <2>1, <2>2, OracleWorse
<1>2. AtMost(Liquidity(o, m), Liquidity(p, m))
  <2>1. /\ o.variable_debt <= p.variable_debt /\ o.total_supplied <= p.total_supplied
        /\ p.available_liquidity <= o.available_liquidity
        /\ p.virtual_available_liquidity <= o.virtual_available_liquidity
        /\ p.optimal_utilization <= o.optimal_utilization
    BY DEF GetsWorse, HigherIsWorse, LowerIsWorse
  <2> QED
    BY <2>1, LiquidityWorse
<1>3. AtMost(Collateral(o, m), Collateral(p, m))
  <2>1. /\ o.ltv <= p.ltv /\ p.liquidation_threshold = o.liquidation_threshold
        /\ p.liquidation_bonus = o.liquidation_bonus
    BY DEF GetsWorse, HigherIsWorse, LowerIsWorse, Flags, Inputs, CollateralInputs
  <2> QED
    BY <2>1, CollateralWorse
<1>4. AtMost(Restriction(o, m), Restriction(p, m))
  <2>1. /\ Tighter(o.supply_cap, p.supply_cap) /\ Tighter(o.borrow_cap, p.borrow_cap)
        /\ o.supply_cap_total_supplied <= p.supply_cap_total_supplied
        /\ o.variable_debt <= p.variable_debt
    BY DEF GetsWorse, HigherIsWorse
  <2>2. /\ o.reserve_paused => p.reserve_paused
        /\ o.reserve_frozen => p.reserve_frozen
        /\ p.reserve_active => o.reserve_active
        /\ p.borrowing_enabled => o.borrowing_enabled
    BY Zenon DEF GetsWorse
  <2> QED
    BY <2>1, <2>2, RestrictionWorse
<1> QED
  BY <1>1, <1>2, <1>3, <1>4

LEMMA WorseScoresNoLower ==
  ASSUME NEW o, NEW p, NEW m, Wellformed(o), Wellformed(p), GetsWorse(o, p),
         Assess(o, m).score # NoScore, Assess(p, m).score # NoScore
  PROVE  Assess(o, m).score <= Assess(p, m).score
<1>1. /\ Actionable(o, m) /\ Assess(o, m).score = Index(o, m)
      /\ Actionable(p, m) /\ Assess(p, m).score = Index(p, m)
  BY ScoredResult
<1>2. PICK f, g : f = Factors(o, m) /\ g = Factors(p, m)
  OBVIOUS
<1>3. PICK a, b, c, d : /\ a = Oracle(o, m) /\ b = Liquidity(o, m)
                        /\ c = Collateral(o, m) /\ d = Restriction(o, m)
  OBVIOUS
<1>4. PICK s, t, u, v : /\ s = Oracle(p, m) /\ t = Liquidity(p, m)
                        /\ u = Collateral(p, m) /\ v = Restriction(p, m)
  OBVIOUS
<1>5. /\ f = <<a, b, c, d>> /\ \A i \in 1..4 : Bounded(f[i], 100)
      /\ a # Unknown /\ b # Unknown /\ c # Unknown /\ d # Unknown
  BY <1>1, <1>2, <1>3, FactorsKnown
<1>6. /\ g = <<s, t, u, v>> /\ \A i \in 1..4 : Bounded(g[i], 100)
      /\ s # Unknown /\ t # Unknown /\ u # Unknown /\ v # Unknown
  BY <1>1, <1>2, <1>4, FactorsKnown
<1>7. AtMost(a, s) /\ AtMost(b, t) /\ AtMost(c, u) /\ AtMost(d, v)
  BY <1>3, <1>4, <1>5, <1>6, WorseFactors
<1>8. \A i \in 1..4 : AtMost(f[i], g[i])
  BY <1>5, <1>6, <1>7
<1>9. AtMost(Exact(f), Exact(g)) /\ Bounded(Exact(f), 100) /\ Bounded(Exact(g), 100)
  BY <1>5, <1>6, <1>8, ExactMonotone, ExactBounded
<1>10. Rounded(Exact(f)) <= Rounded(Exact(g))
  BY <1>9, RoundedMonotone
<1> QED
  BY <1>1, <1>2, <1>10, IndexRange

\* WorseNeverScoresLower, for all values: across the kink, the clips, the thresholds, the
\* critical floor and the rounding, what makes a reserve worse never makes its index lower.
THEOREM WorseIsNeverScoredLower == Spec => WorseNeverScoresLower
<1> DEFINE NoLower == \A f \in DOMAIN Values :
             /\ snapshot' = [snapshot EXCEPT ![f] = snapshot'[f]] /\ Worse(f)
             /\ Scored /\ Scored'
             => assessment.score <= assessment'.score
<1>1. Assessed /\ Assessed' /\ [Next]_vars => [NoLower]_vars
  <2> SUFFICES ASSUME Assessed, Assessed', Next, NEW f \in DOMAIN Values,
                      snapshot' = [snapshot EXCEPT ![f] = snapshot'[f]], Worse(f),
                      Scored, Scored'
               PROVE  assessment.score <= assessment'.score
    BY DEF NoLower
  <2>1. PICK o, p, m, n, a, b : /\ o = snapshot /\ p = snapshot' /\ m = unavailable
                                /\ n = unavailable' /\ a = assessment /\ b = assessment'
    OBVIOUS
  <2>2. /\ Wellformed(o) /\ Wellformed(p) /\ a = Assess(o, m) /\ b = Assess(p, n)
        /\ a.score # NoScore /\ b.score # NoScore
    BY <2>1 DEF Assessed, Scored
  <2>3. CASE \E field \in DOMAIN Values : Change(field)
    <3>1. n = m
      BY <2>1, <2>3 DEF Change, Submit
    <3>2. p = [o EXCEPT ![f] = p[f]] /\ WorseIn(o, p, f)
      BY <2>1, Zenon DEF Worse, WorseIn
    <3>3. GetsWorse(o, p)
      BY <2>2, <3>2, OneFieldWorse
    <3> QED
      BY <2>1, <2>2, <3>1, <3>3, WorseScoresNoLower
  <2>4. CASE \E field \in Inputs : Lose(field)
    <3>1. p = o /\ m \subseteq n
      BY <2>1, <2>4 DEF Lose, Submit
    <3>2. b.score = a.score
      BY <2>2, <3>1, ScoreOfLess
    <3>3. a.score \in Nat
      <4>1. Actionable(o, m) /\ a.score = Index(o, m)
        BY <2>2, ScoredResult
      <4>2. Index(o, m) \in 0..(100 * Cents)
        BY <2>2, <4>1, IndexRange
      <4> QED
        BY <4>1, <4>2, UnitAssumption
    <3> QED
      BY <2>1, <3>2, <3>3
  <2> QED
    BY <2>3, <2>4 DEF Next
<1> QED
  BY <1>1, AlwaysAssessed, PTL DEF Spec, WorseNeverScoresLower, NoLower

------------------------------------------------------------------------------
(* The scale of an answer. *)

\* A numerator and a denominator with one more digit each.
LEMMA OneMoreDigit ==
  ASSUME NEW a \in Int, NEW w \in Positive, NEW q, Rational(q)
  PROVE  /\ AtMost(<<10 * a, 10 * w>>, q) <=> AtMost(<<a, w>>, q)
         /\ AtMost(q, <<10 * a, 10 * w>>) <=> AtMost(q, <<a, w>>)
<1>1. PICK c \in Int, d \in Positive : q = <<c, d>>
  BY DEF Rational
<1>2. PICK x \in Int, y \in Int : x = a * d /\ y = c * w
  BY DEF Positive
<1>3. (10 * a) * d = 10 * x /\ c * (10 * w) = 10 * y
  BY <1>2 DEF Positive
<1> QED
  BY <1>1, <1>2, <1>3 DEF AtMost

LEMMA FeedWithADigit ==
  ASSUME NEW s \in Int, NEW a \in Int, NEW c \in Int, NEW u \in Positive, NEW w \in Positive
  PROVE  Equal(<<s, u>>, Lesser(<<10 * a, 10 * w>>, <<c, u>>))
           <=> Equal(<<s, u>>, Lesser(<<a, w>>, <<c, u>>))
<1>1. Rational(<<s, u>>) /\ Rational(<<c, u>>)
  BY DEF Rational
<1>2. AtMost(<<10 * a, 10 * w>>, <<c, u>>) <=> AtMost(<<a, w>>, <<c, u>>)
  BY <1>1, OneMoreDigit
<1>3. Equal(<<s, u>>, <<10 * a, 10 * w>>) <=> Equal(<<s, u>>, <<a, w>>)
  BY <1>1, OneMoreDigit DEF Equal
<1> QED
  BY <1>2, <1>3 DEF Lesser

LEMMA SourceWithADigit ==
  ASSUME NEW s \in Int, NEW a \in Int, NEW c \in Int, NEW u \in Positive, NEW w \in Positive
  PROVE  Equal(<<10 * s, 10 * u>>, Lesser(<<a, w>>, <<10 * c, 10 * u>>))
           <=> Equal(<<s, u>>, Lesser(<<a, w>>, <<c, u>>))
<1>1. /\ Rational(<<s, u>>) /\ Rational(<<c, u>>) /\ Rational(<<a, w>>)
      /\ Rational(<<10 * c, 10 * u>>)
  BY Products DEF Rational, Positive
<1>2. AtMost(<<a, w>>, <<10 * c, 10 * u>>) <=> AtMost(<<a, w>>, <<c, u>>)
  BY <1>1, OneMoreDigit
<1>3. \A q : Rational(q) => (Equal(<<10 * s, 10 * u>>, q) <=> Equal(<<s, u>>, q))
  BY OneMoreDigit DEF Equal
<1>4. Equal(<<10 * s, 10 * u>>, <<10 * c, 10 * u>>) <=> Equal(<<s, u>>, <<c, u>>)
  BY <1>1, <1>3, OneMoreDigit DEF Equal
<1> QED
  BY <1>1, <1>2, <1>3, <1>4 DEF Lesser

Powered(o) == \A field \in DecimalFields : HasPowers(o[field])

\* The two rewritings of a snapshot.
FeedRewritten(o) ==
  [o EXCEPT !.oracle_feed_decimals = @ + 1, !.oracle_feed_latest_answer = 10 * @]
SourceRewritten(o) ==
  [o EXCEPT !.oracle_source_decimals = @ + 1, !.oracle_source_latest_answer = 10 * @,
            !.oracle_source_price_cap = 10 * @]

\* All fields but the answers and their scales are the same, and the answers have the
\* same signs and the same relation.
SameAnswers(o, p) ==
  /\ \A field \in DOMAIN o \ (DecimalFields \cup IntegerFields) : p[field] = o[field]
  /\ p.oracle_feed_latest_answer <= 0 <=> o.oracle_feed_latest_answer <= 0
  /\ p.oracle_source_latest_answer <= 0 <=> o.oracle_source_latest_answer <= 0
  /\ p.oracle_source_price_cap < 0 <=> o.oracle_source_price_cap < 0
  /\ AdapterMatches(p) <=> AdapterMatches(o)
  /\ \A field \in DecimalFields : o[field] \in Nat /\ p[field] \in Nat /\ o[field] <= p[field]

LEMMA AnswersAreIntegers ==
  ASSUME NEW o, Wellformed(o), Powered(o)
  PROVE  /\ o.oracle_feed_latest_answer \in Int /\ o.oracle_source_latest_answer \in Int
         /\ o.oracle_source_price_cap \in Int
         /\ o.oracle_feed_decimals \in Nat /\ o.oracle_source_decimals \in Nat
         /\ \A d \in {o.oracle_feed_decimals, o.oracle_source_decimals} :
              10 ^ d \in Positive /\ 10 ^ (d + 1) = 10 * 10 ^ d
<1>1. \A field \in IntegerFields : o[field] \in Int
  BY DEF Wellformed, Admitted
<1>2. \A field \in DecimalFields : 10 ^ o[field] \in Positive /\ 10 ^ (o[field] + 1) = 10 * 10 ^ o[field]
  BY DEF Powered, HasPowers, Positive
<1>3. \A field \in DecimalFields : o[field] \in Nat
  BY DEF Wellformed, Admitted, NaturalFields
<1> QED
  BY <1>1, <1>2, <1>3 DEF IntegerFields, DecimalFields

LEMMA FeedRewrittenSame ==
  ASSUME NEW o, Wellformed(o), Powered(o)
  PROVE  SameAnswers(o, FeedRewritten(o))
<1> DEFINE p == FeedRewritten(o)
<1>1. /\ \A field \in DOMAIN o \ {"oracle_feed_decimals", "oracle_feed_latest_answer"} :
           p[field] = o[field]
      /\ p.oracle_feed_decimals = o.oracle_feed_decimals + 1
      /\ p.oracle_feed_latest_answer = 10 * o.oracle_feed_latest_answer
      /\ DecimalFields \cup IntegerFields \subseteq DOMAIN o
  BY DEF Wellformed, FeedRewritten, NaturalFields, DecimalFields, IntegerFields
<1> HIDE DEF p
<1>2. PICK s, a, c \in Int, u, w \in Positive :
        /\ s = o.oracle_source_latest_answer /\ a = o.oracle_feed_latest_answer
        /\ c = o.oracle_source_price_cap /\ u = 10 ^ o.oracle_source_decimals
        /\ w = 10 ^ o.oracle_feed_decimals /\ 10 ^ (o.oracle_feed_decimals + 1) = 10 * w
  BY AnswersAreIntegers
<1>3. /\ p.oracle_source_latest_answer = s /\ p.oracle_source_price_cap = c
      /\ p.oracle_source_decimals = o.oracle_source_decimals
  BY <1>1, <1>2 DEF DecimalFields, IntegerFields
<1>4. AdapterMatches(p) <=> Equal(<<s, u>>, Lesser(<<10 * a, 10 * w>>, <<c, u>>))
  BY <1>1, <1>2, <1>3 DEF AdapterMatches
<1>5. AdapterMatches(o) <=> Equal(<<s, u>>, Lesser(<<a, w>>, <<c, u>>))
  BY <1>2 DEF AdapterMatches
<1>6. AdapterMatches(p) <=> AdapterMatches(o)
  BY <1>4, <1>5, FeedWithADigit
<1>7. p.oracle_feed_latest_answer <= 0 <=> o.oracle_feed_latest_answer <= 0
  BY <1>1, <1>2
<1>8. \A field \in DecimalFields : o[field] \in Nat /\ p[field] \in Nat /\ o[field] <= p[field]
  BY <1>1, <1>3, AnswersAreIntegers DEF DecimalFields
<1>9. SameAnswers(o, p)
  BY <1>1, <1>2, <1>3, <1>6, <1>7, <1>8 DEF SameAnswers, DecimalFields, IntegerFields
<1> QED
  BY <1>9 DEF p

LEMMA SourceRewrittenSame ==
  ASSUME NEW o, Wellformed(o), Powered(o)
  PROVE  SameAnswers(o, SourceRewritten(o))
<1> DEFINE p == SourceRewritten(o)
<1>1. /\ \A field \in DOMAIN o \ {"oracle_source_decimals", "oracle_source_latest_answer",
                                  "oracle_source_price_cap"} : p[field] = o[field]
      /\ p.oracle_source_decimals = o.oracle_source_decimals + 1
      /\ p.oracle_source_latest_answer = 10 * o.oracle_source_latest_answer
      /\ p.oracle_source_price_cap = 10 * o.oracle_source_price_cap
      /\ DecimalFields \cup IntegerFields \subseteq DOMAIN o
  BY DEF Wellformed, SourceRewritten, NaturalFields, DecimalFields, IntegerFields
<1> HIDE DEF p
<1>2. PICK s, a, c \in Int, u, w \in Positive :
        /\ s = o.oracle_source_latest_answer /\ a = o.oracle_feed_latest_answer
        /\ c = o.oracle_source_price_cap /\ w = 10 ^ o.oracle_feed_decimals
        /\ u = 10 ^ o.oracle_source_decimals /\ 10 ^ (o.oracle_source_decimals + 1) = 10 * u
  BY AnswersAreIntegers
<1>3. p.oracle_feed_latest_answer = a /\ p.oracle_feed_decimals = o.oracle_feed_decimals
  BY <1>1, <1>2 DEF DecimalFields, IntegerFields
<1>4. AdapterMatches(p) <=> Equal(<<10 * s, 10 * u>>, Lesser(<<a, w>>, <<10 * c, 10 * u>>))
  BY <1>1, <1>2, <1>3 DEF AdapterMatches
<1>5. AdapterMatches(o) <=> Equal(<<s, u>>, Lesser(<<a, w>>, <<c, u>>))
  BY <1>2 DEF AdapterMatches
<1>6. AdapterMatches(p) <=> AdapterMatches(o)
  BY <1>4, <1>5, SourceWithADigit
<1>7. /\ p.oracle_source_latest_answer <= 0 <=> o.oracle_source_latest_answer <= 0
      /\ p.oracle_source_price_cap < 0 <=> o.oracle_source_price_cap < 0
  BY <1>1, <1>2
<1>8. \A field \in DecimalFields : o[field] \in Nat /\ p[field] \in Nat /\ o[field] <= p[field]
  BY <1>1, <1>3, AnswersAreIntegers DEF DecimalFields
<1>9. SameAnswers(o, p)
  BY <1>1, <1>2, <1>3, <1>6, <1>7, <1>8 DEF SameAnswers, DecimalFields, IntegerFields
<1> QED
  BY <1>9 DEF p

LEMMA SameAnswersSameAssessment ==
  ASSUME NEW o, NEW p, NEW m, Wellformed(o), SameAnswers(o, p),
         \A field \in DecimalFields : p[field] <= MaxDecimals
  PROVE  Assess(p, m) = Assess(o, m)
<1>1. \A field \in (Inputs \cup NaturalFields \cup BooleanFields) \ (DecimalFields \cup IntegerFields) :
        p[field] = o[field]
  BY DEF Wellformed, SameAnswers
<1>2. Oracle(p, m) = Oracle(o, m)
  <2>1. \A a \in OracleAddresses : p[a] = o[a]
    BY <1>1 DEF Inputs, OracleInputs, OracleAddresses, DecimalFields, IntegerFields
  <2>2. /\ p.oracle_source_interface = o.oracle_source_interface
        /\ p.oracle_feed_proxy_type = o.oracle_feed_proxy_type
        /\ p.oracle_feed_is_chainlink = o.oracle_feed_is_chainlink
        /\ p.oracle_feed_proxy = o.oracle_feed_proxy
        /\ p.oracle_upstream_feed = o.oracle_upstream_feed
        /\ p.oracle_feed_heartbeat = o.oracle_feed_heartbeat
        /\ p.oracle_feed_updated_at = o.oracle_feed_updated_at
    BY <1>1 DEF Inputs, OracleInputs, OracleAddresses, DecimalFields, IntegerFields
  <2>3. p.block_timestamp = o.block_timestamp
    BY <1>1 DEF NaturalFields, DecimalFields, IntegerFields
  <2>4. Identity(p) <=> Identity(o)
    BY <2>1, <2>2 DEF Identity
  <2>5. /\ p.oracle_feed_latest_answer <= 0 <=> o.oracle_feed_latest_answer <= 0
        /\ p.oracle_source_latest_answer <= 0 <=> o.oracle_source_latest_answer <= 0
        /\ p.oracle_source_price_cap < 0 <=> o.oracle_source_price_cap < 0
        /\ AdapterMatches(p) <=> AdapterMatches(o)
    BY DEF SameAnswers
  <2>6. \A field \in DecimalFields :
          /\ p[field] \in Nat /\ p[field] <= MaxDecimals
          /\ o[field] \in Nat /\ o[field] <= MaxDecimals
    BY DEF SameAnswers, MaxDecimals
  <2>7. /\ ~(p.oracle_feed_decimals > MaxDecimals) /\ ~(p.oracle_source_decimals > MaxDecimals)
        /\ ~(o.oracle_feed_decimals > MaxDecimals) /\ ~(o.oracle_source_decimals > MaxDecimals)
    BY <2>6 DEF DecimalFields, MaxDecimals
  <2> QED
    BY <2>2, <2>3, <2>4, <2>5, <2>7 DEF Oracle
<1>3. Liquidity(p, m) = Liquidity(o, m)
  <2>1. \A field \in LiquidityInputs : p[field] = o[field]
    BY <1>1 DEF Inputs, LiquidityInputs, DecimalFields, IntegerFields
  <2> QED
    BY <2>1 DEF Liquidity, LiquidityInputs
<1>4. Collateral(p, m) = Collateral(o, m)
  <2>1. \A field \in CollateralInputs : p[field] = o[field]
    BY <1>1 DEF Inputs, CollateralInputs, DecimalFields, IntegerFields
  <2> QED
    BY <2>1 DEF Collateral, CollateralInputs
<1>5. Restriction(p, m) = Restriction(o, m)
  <2>1. /\ p.reserve_active = o.reserve_active /\ p.reserve_paused = o.reserve_paused
        /\ p.reserve_frozen = o.reserve_frozen /\ p.borrowing_enabled = o.borrowing_enabled
        /\ p.supply_cap = o.supply_cap /\ p.borrow_cap = o.borrow_cap
        /\ p.supply_cap_total_supplied = o.supply_cap_total_supplied
        /\ p.variable_debt = o.variable_debt
    BY <1>1 DEF Inputs, LiquidityInputs, DecimalFields, IntegerFields
  <2> QED
    BY <2>1 DEF Restriction, RestrictionInputs
<1>6. /\ p.block_final = o.block_final /\ p.block_timestamp = o.block_timestamp
      /\ p.collected_at = o.collected_at /\ p.calculated_at = o.calculated_at
      /\ p.canonicality_checked_at = o.canonicality_checked_at
  BY <1>1 DEF NaturalFields, BooleanFields, DecimalFields, IntegerFields
<1>7. Factors(p, m) = Factors(o, m)
  BY <1>2, <1>3, <1>4, <1>5, <1>6 DEF Factors
<1>8. ObservedAt(p) = ObservedAt(o)
  BY <1>6 DEF ObservedAt
<1> QED
  BY <1>6, <1>7, <1>8 DEF Assess

LEMMA AlwaysPowered == Spec => []Powered(snapshot)
<1>1. Init => Powered(snapshot)
  BY PowerAssumption DEF Init, Powered
<1>2. Assessed /\ Powered(snapshot) /\ [Next]_vars => Powered(snapshot)'
  <2> SUFFICES ASSUME Assessed, Powered(snapshot), [Next]_vars
               PROVE  Powered(snapshot)'
    OBVIOUS
  <2>1. ASSUME NEW field \in DOMAIN Values, Change(field)
        PROVE  Powered(snapshot)'
    <3>1. PICK v \in Values[field] : snapshot' = [snapshot EXCEPT ![field] = v]
      BY <2>1 DEF Change, Submit
    <3>2. PICK s : s = snapshot
      OBVIOUS
    <3>3. Wellformed(s) /\ Powered(s)
      BY <3>2 DEF Assessed
    <3>4. \A f \in DecimalFields : [s EXCEPT ![field] = v][f] = IF f = field THEN v ELSE s[f]
      BY <3>3 DEF Wellformed, NaturalFields
    <3>5. Powered([s EXCEPT ![field] = v])
      BY <3>3, <3>4, PowerAssumption DEF Powered
    <3> QED
      BY <3>1, <3>2, <3>5
  <2>2. ASSUME NEW field \in Inputs, Lose(field)
        PROVE  Powered(snapshot)'
    BY <2>2 DEF Lose, Submit
  <2>3. CASE UNCHANGED vars
    BY <2>3 DEF vars
  <2> QED
    BY <2>1, <2>2, <2>3 DEF Next
<1> QED
  BY <1>1, <1>2, AlwaysAssessed, PTL DEF Spec

\* TheScaleOfAnAnswerIsNoRisk, for all answers and decimals: cross multiplication sees
\* quantities, so the oracle factor, and with it the assessment, is the same.
THEOREM ScaleIsNoRisk == Spec => []TheScaleOfAnAnswerIsNoRisk
<1>1. Assessed /\ Powered(snapshot) => TheScaleOfAnAnswerIsNoRisk
  <2> SUFFICES ASSUME Assessed, Powered(snapshot)
               PROVE  TheScaleOfAnAnswerIsNoRisk
    OBVIOUS
  <2>1. PICK o, m : o = snapshot /\ m = unavailable
    OBVIOUS
  <2>2. Wellformed(o) /\ Powered(o) /\ assessment = Assess(o, m)
    BY <2>1 DEF Assessed
  <2>3. \A p \in {FeedRewritten(o), SourceRewritten(o)} :
          (\A field \in DecimalFields : p[field] <= MaxDecimals) => Assess(p, m) = Assess(o, m)
    BY <2>2, FeedRewrittenSame, SourceRewrittenSame, SameAnswersSameAssessment
  <2> QED
    BY <2>1, <2>2, <2>3
    DEF TheScaleOfAnAnswerIsNoRisk, FeedRewritten, SourceRewritten
<1> QED
  BY <1>1, AlwaysAssessed, AlwaysPowered, PTL
=============================================================================
