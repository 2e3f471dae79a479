------------------------------- MODULE Collector -------------------------------
(***************************************************************************)
(* risk_oracle/providers/aave_v3_base.py: one snapshot of the reserve, read  *)
(* call by call through risk_oracle/providers/alchemy.py from one block      *)
(* pinned by its hash, while calls fail and the block may be orphaned; then  *)
(* its assessment.                                                           *)
(*                                                                           *)
(* chain is the state of the pinned block: what each call returns, of the    *)
(* oracle's contracts by contract, with no entry where a contract reverts.   *)
(* Evidence is the calls an observation cites.  Observations that are there  *)
(* whatever happens and that nothing reads are left out.                     *)
(***************************************************************************)
EXTENDS ReserveIndex

CONSTANTS
  Chains,          \* the states the pinned block may have
  Registry,        \* reviewed metadata: feed -> [decimals, heartbeat]
  AdapterAddress,  \* reviewed metadata: where the verified adapter is
  ProxyAddress,    \* and the verified proxy
  Words,           \* 2^256
  MaxFailures,     \* bound on the calls that fail although the block is canonical
  Failed,          \* the answer of a call that failed
  NoValue          \* the value of an observation that has none

ASSUME CollectorAssumption ==
  /\ Words \in Nat \ {0} /\ MaxFailures \in Nat
  /\ AdapterAddress # ZeroAddress /\ ProxyAddress # ZeroAddress
  /\ AdapterAddress # ProxyAddress
  /\ \A b \in Chains :
       /\ DOMAIN b.times =
            {"block_timestamp", "canonicality_checked_at", "collected_at", "calculated_at"}
       /\ DOMAIN b.config =
            {"decimals", "ltv", "liquidation_threshold", "liquidation_bonus",
             "borrowing_enabled", "reserve_active", "reserve_frozen"}
       /\ DOMAIN b.caps = {"supply_cap", "borrow_cap"}

VARIABLES
  chain,      \* the pinned block
  orphaned,   \* it is no longer on the canonical chain
  answers,    \* call -> what it returned, or Failed
  late,       \* the calls made after it was orphaned
  snapshot    \* Reading, Refused, or the snapshot and its assessment

vars == <<chain, orphaned, answers, late, snapshot>>

\* As in module TLC, where the provers do not see what they are.
f @@ g == [x \in DOMAIN f \cup DOMAIN g |-> IF x \in DOMAIN f THEN f[x] ELSE g[x]]
d :> e == [x \in {d} |-> e]

Reading == [outcome |-> "reading"]
Refused == [outcome |-> "raised"]
AdapterCode == "adapter_code"
ProxyCode == "proxy_code"

StateReads ==
  {"total_supplied", "variable_debt", "available_liquidity",
   "virtual_available_liquidity", "scaled_total_supplied", "liquidity_index"}

Required ==
  {"config", "caps", "debt_ceiling", "debt_ceiling_decimals", "reserve_paused",
   "reserve", "emodes", "aave_price_oracle", "oracle_source"}

\* The calls in the order they are made.
Calls ==
  <<"config", "caps", "debt_ceiling", "debt_ceiling_decimals", "reserve_paused", "reserve",
    "total_supplied", "variable_debt", "available_liquidity", "virtual_available_liquidity",
    "scaled_total_supplied", "liquidity_index", "interest_rate_strategy",
    "optimal_utilization", "emodes", "emode_isolated", "aave_price_oracle",
    "oracle_source", "oracle_upstream_feed", "oracle_feed_aggregator",
    "oracle_feed_type_and_version", "adapter_code", "oracle_feed_decimals", "feed_round",
    "oracle_source_decimals", "oracle_source_latest_answer", "oracle_source_price_cap",
    "proxy_code">>

Got(call) == call \in DOMAIN answers /\ answers[call] # Failed
Address(call) == Got(call) /\ answers[call] # ZeroAddress
Source == answers.oracle_source
Target == IF Address("oracle_upstream_feed") THEN answers.oracle_upstream_feed ELSE Source

\* Faulty variant: any code at the address will do.
VerifiedByAnyCode == Got("adapter_code")

VerifiedAdapter == Got("adapter_code") /\ answers.adapter_code = AdapterCode
VerifiedProxy == Got("proxy_code") /\ answers.proxy_code = ProxyCode

\* The live feed is the one the registry documents, at its scale.
Matched ==
  /\ Got("oracle_feed_decimals") /\ Target \in DOMAIN Registry
  /\ Registry[Target].decimals = answers.oracle_feed_decimals

\* Which calls the earlier answers lead to.
When(call) ==
  /\ call = "optimal_utilization" => Address("interest_rate_strategy")
  /\ call = "emode_isolated" => Got("emodes") /\ answers.emodes.member
  /\ call \in {"oracle_upstream_feed", "oracle_feed_aggregator", "oracle_feed_decimals",
               "feed_round", "oracle_source_decimals", "oracle_source_latest_answer"}
       => Address("oracle_source")
  /\ call = "oracle_feed_type_and_version" => Address("oracle_feed_aggregator")
  /\ call = "adapter_code" => Got("oracle_source") /\ Source = AdapterAddress
  /\ call = "oracle_source_price_cap" => VerifiedAdapter
  /\ call = "proxy_code" => Address("oracle_source") /\ Matched /\ Target = ProxyAddress

\* Values of required reads that end the collection.
Invalid(call, value) ==
  \/ call = "config" /\ value.decimals # 6
  \/ call = "debt_ceiling_decimals" /\ value > 255
  \/ call = "reserve" /\ ZeroAddress \in {value.a_token, value.variable_debt_token}
  \/ call = "emodes" /\ (~value.valid \/ answers.reserve.id >= 128)
  \/ call = "aave_price_oracle" /\ value = ZeroAddress

\* The methods of the oracle's contracts, and the contract each is called on.
Methods ==
  [oracle_upstream_feed |-> "upstream", oracle_feed_aggregator |-> "aggregator",
   oracle_feed_type_and_version |-> "version", adapter_code |-> "code", proxy_code |-> "code",
   oracle_feed_decimals |-> "decimals", oracle_source_decimals |-> "decimals",
   feed_round |-> "round", oracle_source_latest_answer |-> "answer",
   oracle_source_price_cap |-> "cap"]

Contract(call) ==
  IF call = "oracle_feed_type_and_version" THEN answers.oracle_feed_aggregator
  ELSE IF call \in {"oracle_feed_aggregator", "oracle_feed_decimals", "feed_round", "proxy_code"}
  THEN Target ELSE Source

Asks(call) ==
  IF call \in DOMAIN Methods THEN <<Contract(call), Methods[call]>> ELSE <<"reserve", call>>

Returned(call) ==
  IF call \notin DOMAIN Methods THEN chain[call]
  ELSE LET results == chain[Methods[call]]
       IN  IF Contract(call) \in DOMAIN results THEN results[Contract(call)] ELSE Failed

------------------------------------------------------------------------------
(* Observations: a state, a value, and the calls cited. *)

Given(value, calls) == [state |-> "present", value |-> value, reads |-> calls]
Lacking(state, calls) == [state |-> state, value |-> NoValue, reads |-> calls]
Optional(call) ==
  IF Got(call) THEN Given(answers[call], {call}) ELSE Lacking("missing", {call})
Usable(call, cited) ==
  IF Address(call) THEN Given(answers[call], {call}) ELSE Lacking("missing", cited)

\* A failed dependency leaves a derived observation missing, never inferred.
Derive(observed, names, value, state) ==
  LET reads == UNION {observed[name].reads : name \in names}
  IN  IF \E name \in names : observed[name].state # "present" THEN Lacking("missing", reads)
      ELSE IF state # "present" THEN Lacking(state, reads)
      ELSE IF value \notin 0..(Words - 1) THEN Lacking("invalid", reads)
      ELSE Given(value, reads)

Ratio(n, d) == (n * Ray + d \div 2) \div d

Configuration ==
  [f \in DOMAIN answers.config \ {"decimals"} |-> Given(answers.config[f], {"config"})]
  @@ [f \in {"supply_cap", "borrow_cap"} |-> Given(answers.caps[f], {"caps"})]
  @@ ("reserve_paused" :> Given(answers.reserve_paused, {"reserve_paused"}))

ReserveState ==
  [f \in StateReads |-> Optional(f)]
  @@ ("interest_rate_strategy" :> Usable("interest_rate_strategy", {"interest_rate_strategy"}))
  @@ ("optimal_utilization" :>
        IF Address("interest_rate_strategy") THEN Optional("optimal_utilization")
        ELSE Lacking("missing", {"interest_rate_strategy"}))
  @@ ("scaled_accrued_to_treasury" :> Given(answers.reserve.treasury, {"reserve"}))
  @@ (IF answers.emodes.member THEN "emode_isolated" :> Optional("emode_isolated") ELSE <<>>)

\* Faulty variant: what has accrued to the treasury does not count towards the cap.
SuppliedWithoutTreasury(o) ==
  (o["scaled_total_supplied"].value * o["liquidity_index"].value) \div Ray

SuppliedUnderCap(o) ==
  ((o["scaled_total_supplied"].value + o["scaled_accrued_to_treasury"].value)
     * o["liquidity_index"].value) \div Ray

CapUse(o, total, cap) ==
  LET limit == o[cap].value * TokenUnit
  IN  Derive(o, {total, cap}, Ratio(o[total].value, limit),
             IF limit = 0 THEN "not_applicable" ELSE "present")

Derived(o) ==
  LET debt == o["variable_debt"].value
      total == debt + o["virtual_available_liquidity"].value
      supplied == "supply_cap_total_supplied" :>
        Derive(o, {"scaled_total_supplied", "scaled_accrued_to_treasury", "liquidity_index"},
               SuppliedUnderCap(o),
               IF o["liquidity_index"].value >= Ray THEN "present" ELSE "invalid")
  IN  supplied
      @@ ("total_borrowed" :> Derive(o, {"variable_debt"}, debt, "present"))
      @@ ("utilization_rate" :>
            Derive(o, {"variable_debt", "virtual_available_liquidity"}, Ratio(debt, total),
                   IF total = 0 THEN "invalid" ELSE "present"))
      @@ ("supply_cap_utilization" :>
            CapUse(o @@ supplied, "supply_cap_total_supplied", "supply_cap"))
      @@ ("borrow_cap_utilization" :> CapUse(o, "variable_debt", "borrow_cap"))

\* The last classification of the source that the answers allow.
Interface ==
  IF VerifiedAdapter THEN Given(Adapter, {"adapter_code"})
  ELSE IF Address("oracle_upstream_feed")
  THEN Given("unverified adapter", {"oracle_upstream_feed"})
  ELSE IF Address("oracle_feed_aggregator")
  THEN Given("unverified proxy", {"oracle_feed_aggregator"})
  ELSE IF Source = ZeroAddress THEN Lacking("not_applicable", {"oracle_source"})
  ELSE Lacking("unsupported", {"oracle_feed_aggregator"})

OracleSource ==
  ("aave_price_oracle" :> Optional("aave_price_oracle"))
  @@ ("oracle_source" :> Optional("oracle_source"))
  @@ ("oracle_source_interface" :> Interface)
  @@ ("oracle_source_is_chainlink" :>
        IF VerifiedAdapter THEN Given(FALSE, {"adapter_code"})
        ELSE Lacking("unsupported", {"oracle_source"}))
  @@ (IF Address("oracle_upstream_feed")
      THEN "oracle_upstream_feed" :> Optional("oracle_upstream_feed") ELSE <<>>)
  @@ (IF Address("oracle_feed_aggregator")
      THEN [f \in {"oracle_feed_aggregator", "oracle_feed_type_and_version"} |-> Optional(f)]
           @@ ("oracle_feed_proxy" :> Given(Target, {"oracle_feed_aggregator"}))
      ELSE <<>>)

PriceCapScaled == Got("oracle_source_price_cap") /\ Got("oracle_source_decimals")

Registered ==
  IF Matched
  THEN ("oracle_feed_is_chainlink" :> Given(TRUE, {"oracle_feed_decimals"}))
       @@ ("oracle_feed_heartbeat" :> Given(Registry[Target].heartbeat, {}))
       @@ (IF VerifiedProxy
           THEN "oracle_feed_proxy_type" :> Given(ChainlinkProxy, {"proxy_code"}) ELSE <<>>)
  ELSE [f \in {"oracle_feed_is_chainlink", "oracle_feed_heartbeat"} |->
          Lacking("unsupported", {"oracle_feed_decimals"})]

\* An answer is present only with its scale.
Feed ==
  LET scaled(call, decimals, ok, value) ==
        IF ok THEN Given(value, {call, decimals}) ELSE Lacking("missing", {call, decimals})
  IN  [f \in {"oracle_feed_decimals", "oracle_source_decimals"} |-> Optional(f)]
      @@ ("oracle_feed_updated_at" :>
            IF Got("feed_round") THEN Given(answers.feed_round.updated, {"feed_round"})
            ELSE Lacking("missing", {"feed_round"}))
      @@ ("oracle_feed_latest_answer" :>
            scaled("feed_round", "oracle_feed_decimals",
                   Got("feed_round") /\ Got("oracle_feed_decimals"), answers.feed_round.answer))
      @@ ("oracle_source_latest_answer" :>
            scaled("oracle_source_latest_answer", "oracle_source_decimals",
                   Got("oracle_source_latest_answer") /\ Got("oracle_source_decimals"),
                   answers.oracle_source_latest_answer))
      @@ (IF VerifiedAdapter
          THEN "oracle_source_price_cap" :>
                 scaled("oracle_source_price_cap", "oracle_source_decimals",
                        PriceCapScaled, answers.oracle_source_price_cap)
          ELSE <<>>)
      @@ Registered

FeedAge(o) ==
  IF "oracle_feed_updated_at" \notin DOMAIN o
  THEN [f \in {"oracle_age_seconds", "oracle_age_to_heartbeat"} |->
          Lacking("missing", {"oracle_source"})]
  ELSE LET updated == o["oracle_feed_updated_at"].value
           age == "oracle_age_seconds" :>
             Derive(o, {"oracle_feed_updated_at"}, chain.times.block_timestamp - updated,
                    IF updated \in 1..chain.times.block_timestamp THEN "present" ELSE "invalid")
           heartbeat == o["oracle_feed_heartbeat"].value
       IN  age @@ ("oracle_age_to_heartbeat" :>
             Derive(o @@ age, {"oracle_age_seconds", "oracle_feed_heartbeat"},
                    Ratio(age["oracle_age_seconds"].value, heartbeat),
                    IF heartbeat = 0 THEN "invalid" ELSE "present"))

Observations ==
  LET read == Configuration @@ ReserveState @@ OracleSource
              @@ (IF Source # ZeroAddress THEN Feed ELSE <<>>)
  IN  read @@ Derived(read) @@ FeedAge(read)

\* The call whose record a call names as its parent.
Parents(call) ==
  CASE call \in StateReads \cup {"interest_rate_strategy"} -> {"reserve"}
    [] call = "optimal_utilization" -> {"interest_rate_strategy"}
    [] call = "emode_isolated" -> {"emodes"}
    [] call = "oracle_source" -> {"aave_price_oracle"}
    [] call = "oracle_feed_type_and_version" -> {"oracle_feed_aggregator"}
    [] call \in {"oracle_feed_aggregator", "oracle_feed_decimals", "feed_round", "proxy_code"}
         -> {IF Address("oracle_upstream_feed") THEN "oracle_upstream_feed" ELSE "oracle_source"}
    [] call \in {"oracle_upstream_feed", "adapter_code", "oracle_source_decimals",
                 "oracle_source_latest_answer", "oracle_source_price_cap"} -> {"oracle_source"}
    [] OTHER -> {}

\* Everything an observation rests on.
Lineage(calls) ==
  LET Wider(s) == s \cup UNION {Parents(c) : c \in s}
  IN  Wider(Wider(Wider(Wider(calls))))

------------------------------------------------------------------------------
(* The snapshot and its assessment. *)

\* Faulty variant: no record is dropped.
NoneDropped == {}

\* The calls among whose records equal ones are kept once.
Deduplicated ==
  IF Source = ZeroAddress THEN {}
  ELSE {Calls[i] : i \in 1..26} \ {"oracle_source_price_cap"}

\* Two records of one content, had the clock not moved: the snapshot is refused.
Duplicated ==
  \E c \in DOMAIN answers, d \in DOMAIN answers :
    /\ c # d /\ ~({c, d} \subseteq Deduplicated)
    /\ Asks(c) = Asks(d) /\ answers[c] = answers[d] /\ Parents(c) = Parents(d)

Acquisition(o) ==
  IF \E f \in DOMAIN o : o[f].state \notin {"present", "not_applicable"}
  THEN "partial" ELSE "complete"

\* _Inputs.get: there, present, and nothing it rests on failed.
Accepted(o) ==
  {f \in Inputs \cap DOMAIN o :
     o[f].state = "present" /\ \A c \in Lineage(o[f].reads) : Got(c)}

AssessCollected(o) ==
  Assess([f \in Accepted(o) |-> o[f].value] @@ chain.times @@ ("block_final" :> TRUE),
         Inputs \ Accepted(o))

------------------------------------------------------------------------------
(* Steps. *)

Pending == {i \in DOMAIN Calls : Calls[i] \notin DOMAIN answers /\ When(Calls[i])}

Init ==
  /\ chain \in Chains /\ orphaned = FALSE
  /\ answers = <<>> /\ late = {} /\ snapshot = [outcome |-> "none"]

\* The safe block, unless it cannot be had or is in the clock's future.
Pin ==
  /\ snapshot.outcome = "none"
  /\ \/ snapshot' = Refused
     \/ /\ chain.times.block_timestamp <= chain.times.canonicality_checked_at
        /\ snapshot' = Reading
  /\ UNCHANGED <<chain, orphaned, answers, late>>

\* The first call the answers so far leave to make.
NextCall(call) ==
  /\ snapshot = Reading
  /\ \E i \in Pending : call = Calls[i] /\ \A j \in Pending : i <= j

\* read: a required call that fails, or returns what cannot be used, ends the collection.
Read(call, value) ==
  /\ answers' = answers @@ (call :> value)
  /\ late' = IF orphaned THEN late \cup {call} ELSE late
  /\ snapshot' =
       IF \/ value = Failed /\ call \in Required
          \/ value # Failed /\ Invalid(call, value)
       THEN Refused ELSE Reading
  /\ UNCHANGED <<chain, orphaned>>

\* Faulty variant: code is read of a block that need not be canonical.
AnswerCodeOfAnyBlock(call) ==
  /\ NextCall(call) /\ (orphaned => call \in {"adapter_code", "proxy_code"})
  /\ Read(call, Returned(call))

Answer(call) == NextCall(call) /\ ~orphaned /\ Read(call, Returned(call))

\* A timeout, an HTTP or JSON-RPC error, bytes the ABI refuses, or an orphaned block.
Fail(call) ==
  /\ NextCall(call)
  /\ orphaned \/ Cardinality({c \in DOMAIN answers : answers[c] = Failed}) < MaxFailures
  /\ Read(call, Failed)

Reorg ==
  /\ snapshot = Reading /\ ~orphaned /\ orphaned' = TRUE
  /\ UNCHANGED <<chain, answers, late, snapshot>>

Finish ==
  /\ snapshot = Reading /\ Pending = {}
  /\ snapshot' =
       IF Duplicated THEN Refused
       ELSE [outcome |-> "built", acquisition |-> Acquisition(Observations),
             observations |-> Observations, assessment |-> AssessCollected(Observations)]
  /\ UNCHANGED <<chain, orphaned, answers, late>>

Next ==
  \/ Pin \/ Reorg \/ Finish
  \/ \E i \in DOMAIN Calls : Answer(Calls[i]) \/ Fail(Calls[i])

Spec == Init /\ [][Next]_vars

------------------------------------------------------------------------------
(* Properties. *)

Built == snapshot.outcome = "built"
Scored == Built /\ snapshot.assessment.score # NoScore
OracleKnown ==
  /\ Built /\ snapshot.assessment.risk_level # "raised"
  /\ snapshot.assessment.factors[1] # Unknown

\* What the pinned block says, contract by contract, read from it at one glance.
StateOfTheChain ==
  LET source == chain.oracle_source
      feed == chain.upstream[source]
      round == chain.round[feed]
  IN  [aave_price_oracle |-> chain.aave_price_oracle, oracle_source |-> source,
       oracle_upstream_feed |-> feed, oracle_feed_proxy |-> feed,
       oracle_feed_aggregator |-> chain.aggregator[feed], oracle_source_interface |-> Adapter,
       oracle_feed_proxy_type |-> ChainlinkProxy, oracle_feed_is_chainlink |-> TRUE,
       oracle_feed_decimals |-> chain.decimals[feed],
       oracle_source_decimals |-> chain.decimals[source],
       oracle_feed_latest_answer |-> round.answer, oracle_feed_updated_at |-> round.updated,
       oracle_source_latest_answer |-> chain.answer[source],
       oracle_source_price_cap |-> chain.cap[source],
       oracle_feed_heartbeat |-> Registry[feed].heartbeat,
       reserve_paused |-> chain.reserve_paused, total_supplied |-> chain.total_supplied,
       variable_debt |-> chain.variable_debt,
       available_liquidity |-> chain.available_liquidity,
       virtual_available_liquidity |-> chain.virtual_available_liquidity,
       optimal_utilization |-> chain.optimal_utilization,
       supply_cap_total_supplied |->
         ((chain.scaled_total_supplied + chain.reserve.treasury) * chain.liquidity_index)
            \div Ray,
       block_final |-> TRUE]

OfTheChain == chain.config @@ chain.caps @@ chain.times @@ StateOfTheChain

\* Whatever calls fail on the way and wherever the later calls then go, a score that is
\* issued is the score of the pinned block's own state; failures only take it away.
ScoreIsOfTheChain ==
  Scored => snapshot.assessment.score = Assess(OfTheChain, {}).score

\* The safe block may be orphaned between any two calls: nothing is scored unless the
\* block was canonical when the last call was made.
NothingScoredOfAnOrphan == Scored => late = {}

\* An optional call costs an observation, never the snapshot: the collection fails only
\* for a required call, a value it cannot use, or the header.
RefusedOnlyForRequired ==
  snapshot = Refused =>
    \/ answers = <<>>
    \/ \E call \in Required \cap DOMAIN answers :
         ~Got(call) \/ Invalid(call, answers[call])

\* An oracle factor is known only of contracts whose code at the pinned block is the
\* reviewed code, the feed being the one the adapter itself names at that block.
OracleIsVerifiedByCode ==
  OracleKnown =>
    LET source == chain.oracle_source
    IN  /\ chain.code[source] = AdapterCode
        /\ chain.code[chain.upstream[source]] = ProxyCode
        /\ snapshot.observations["oracle_feed_proxy"].value = chain.upstream[source]

\* risk_oracle/models.py:283: "Complete acquisition cannot contain unavailable required
\* data": the observations of a complete acquisition include every one the factors read.
CompleteHasItsInputs ==
  Built /\ snapshot.acquisition = "complete" => Inputs \subseteq DOMAIN snapshot.observations
=============================================================================
