-------------------------------- MODULE Scoring --------------------------------
(***************************************************************************)
(* Assessments of one snapshot after another that differ in a value or in    *)
(* what could be read: what a change of the reserve does to its index.       *)
(***************************************************************************)
EXTENDS ReserveIndex

CONSTANTS
  Snapshots,    \* the snapshots a behaviour may begin with
  Values,       \* field -> the values it may change to
  MaxChanges    \* bound on the fields that change or are lost

\* What models.py admits of a type: uint256 and times are natural, int256 is an integer,
\* flags are Boolean.
DecimalFields == {"oracle_feed_decimals", "oracle_source_decimals"}
NaturalFields ==
  LiquidityInputs \cup CollateralInputs \cup DecimalFields \cup
  {"oracle_feed_updated_at", "oracle_feed_heartbeat", "supply_cap", "borrow_cap",
   "supply_cap_total_supplied", "block_timestamp", "canonicality_checked_at",
   "collected_at", "calculated_at"}
IntegerFields ==
  {"oracle_feed_latest_answer", "oracle_source_latest_answer", "oracle_source_price_cap"}
BooleanFields ==
  {"oracle_feed_is_chainlink", "reserve_active", "reserve_paused", "reserve_frozen",
   "borrowing_enabled", "block_final"}
Admitted(field, v) ==
  /\ field \in NaturalFields => v \in Nat
  /\ field \in IntegerFields => v \in Int
  /\ field \in BooleanFields => v \in BOOLEAN

ASSUME ChangeAssumption ==
  /\ MaxChanges \in Nat
  /\ \A o \in Snapshots :
       /\ o = [field \in DOMAIN o |-> o[field]]
       /\ Inputs \cup NaturalFields \cup IntegerFields \cup BooleanFields \subseteq DOMAIN o
       /\ \A field \in DOMAIN o : Admitted(field, o[field])
  /\ \A field \in DOMAIN Values : \A v \in Values[field] : Admitted(field, v)

\* What exponentiation does for the decimals of a behaviour.  It says nothing of the code:
\* the provers have no definition of the operator.
HasPowers(d) == 10 ^ d \in Nat \ {0} /\ 10 ^ (d + 1) = 10 * 10 ^ d
ASSUME PowerAssumption ==
  \A field \in DecimalFields :
    /\ \A o \in Snapshots : HasPowers(o[field])
    /\ field \in DOMAIN Values => \A v \in Values[field] : HasPowers(v)

VARIABLES
  snapshot,     \* the values and times of the snapshot to assess
  unavailable,  \* the observations the scorer refuses
  touched,      \* the fields that changed or were lost
  assessment    \* what assess_snapshot returns
vars == <<snapshot, unavailable, touched, assessment>>

\* BlockRef.time_order
Legal(o) == o.canonicality_checked_at >= o.block_timestamp

Init ==
  /\ snapshot \in Snapshots /\ unavailable = {} /\ touched = {}
  /\ assessment = Assess(snapshot, unavailable)

Submit(o, missing, field) ==
  /\ snapshot' = o /\ unavailable' = missing
  /\ touched' = touched \cup {field} /\ Cardinality(touched \cup {field}) <= MaxChanges
  /\ assessment' = Assess(o, missing)

\* The next snapshot differs in one value.
Change(field) ==
  \E v \in Values[field] \ {snapshot[field]} :
    LET o == [snapshot EXCEPT ![field] = v]
    IN  Legal(o) /\ Submit(o, unavailable, field)

\* The next snapshot lacks an observation.
Lose(field) ==
  field \notin unavailable /\ Submit(snapshot, unavailable \cup {field}, field)

Next ==
  \/ \E field \in DOMAIN Values : Change(field)
  \/ \E field \in Inputs : Lose(field)

Spec == Init /\ [][Next]_vars

------------------------------------------------------------------------------
(* Properties. *)

Scored == assessment.score # NoScore
Factor(i) == assessment.factors[i]

\* assess_snapshot never builds a result the shared contract refuses: the bands of its
\* rounded score agree with the older scorer's, no factor leaves its range, and a raise
\* means a timestamp from the future.
RaisesOnlyForTheFuture ==
  assessment = Raised =>
    \/ snapshot.collected_at > snapshot.calculated_at
    \/ snapshot.canonicality_checked_at > snapshot.calculated_at

\* The score is the half-up rounding of an exact quotient: no other multiple of a cent
\* is closer, and of two equally close it is the higher.
RoundedHalfUp ==
  Scored =>
    LET twice == 2 * assessment.score
        exact == Times(Whole(2 * Cents), Exact(assessment.factors))
    IN  AtMost(Whole(twice - 1), exact) /\ ~AtMost(Whole(twice + 1), exact)

\* The mean does not average a failure away: with one factor at its worst the index is
\* critical, whatever the other three say.
NoFailureIsAveragedAway ==
  Scored /\ (\E i \in 1..4 : Equal(Factor(i), Hundred)) =>
    assessment.score >= 75 * Cents /\ assessment.risk_level = "critical"

\* Reading old chain state again does not make it current: nothing is scored of a block
\* or an acquisition older than the degraded limit.
NothingScoredOfOldState ==
  Scored =>
    /\ snapshot.calculated_at - snapshot.block_timestamp <= StaleAge
    /\ snapshot.calculated_at - snapshot.collected_at <= StaleAge

\* Answers are quantities, not digits: a feed that reports the same price with another
\* digit, or the adapter and its cap both with one, scores the same, up to the scale the
\* scorer accepts.
TheScaleOfAnAnswerIsNoRisk ==
  LET feed == [snapshot EXCEPT !.oracle_feed_decimals = @ + 1,
                               !.oracle_feed_latest_answer = 10 * @]
      source == [snapshot EXCEPT !.oracle_source_decimals = @ + 1,
                                 !.oracle_source_latest_answer = 10 * @,
                                 !.oracle_source_price_cap = 10 * @]
  IN  \A o \in {feed, source} :
        (\A field \in DecimalFields : o[field] <= MaxDecimals) =>
          Assess(o, unavailable).score = assessment.score

\* What a change makes worse for those who hold claims on the reserve: less cash, more
\* debt, an older answer, a restriction.
HigherIsWorse == {"variable_debt", "total_supplied", "supply_cap_total_supplied", "ltv"}
LowerIsWorse == {"available_liquidity", "virtual_available_liquidity",
                 "optimal_utilization", "oracle_feed_updated_at", "oracle_feed_heartbeat"}
Worse(f) ==
  \/ f \in HigherIsWorse /\ snapshot'[f] > snapshot[f]
  \/ f \in LowerIsWorse /\ snapshot'[f] < snapshot[f]
  \/ f \in {"reserve_paused", "reserve_frozen"} /\ snapshot'[f]
  \/ f \in {"reserve_active", "borrowing_enabled"} /\ ~snapshot'[f]
  \/ f \in {"supply_cap", "borrow_cap"} /\ snapshot'[f] \in 1..(snapshot[f] - 1)

\* A reserve that gets worse in one respect never scores lower, across the kink, the
\* clips, the critical floor and the rounding.
WorseNeverScoresLower ==
  [][ \A f \in DOMAIN Values :
        /\ snapshot' = [snapshot EXCEPT ![f] = snapshot'[f]] /\ Worse(f)
        /\ Scored /\ Scored'
        => assessment.score <= assessment'.score ]_vars

\* An observation that could not be read never changes the score; it only takes it away.
LosingInputsNeverImproves ==
  [][ unavailable' # unavailable => assessment'.score \in {assessment.score, NoScore} ]_vars
=============================================================================
