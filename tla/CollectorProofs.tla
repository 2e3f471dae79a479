---------------------------- MODULE CollectorProofs ----------------------------
(***************************************************************************)
(* For any state of the pinned block, any registry and any failures.  What   *)
(* decides of a call is settled before the call is made, so that of every    *)
(* answer it is known which contract gave it and what had been verified      *)
(* before.  From there, observation by observation: what is collected is     *)
(* what the block says, or is missing; and so is what is scored.             *)
(***************************************************************************)
EXTENDS Collector, TLAPS

------------------------------------------------------------------------------
(* Calls and their order. *)

Place ==
  [config |-> 1, caps |-> 2, debt_ceiling |-> 3, debt_ceiling_decimals |-> 4,
   reserve_paused |-> 5, reserve |-> 6, total_supplied |-> 7, variable_debt |-> 8,
   available_liquidity |-> 9, virtual_available_liquidity |-> 10,
   scaled_total_supplied |-> 11, liquidity_index |-> 12, interest_rate_strategy |-> 13,
   optimal_utilization |-> 14, emodes |-> 15, emode_isolated |-> 16, aave_price_oracle |-> 17,
   oracle_source |-> 18, oracle_upstream_feed |-> 19, oracle_feed_aggregator |-> 20,
   oracle_feed_type_and_version |-> 21, adapter_code |-> 22, oracle_feed_decimals |-> 23,
   feed_round |-> 24, oracle_source_decimals |-> 25, oracle_source_latest_answer |-> 26,
   oracle_source_price_cap |-> 27, proxy_code |-> 28]

Names == DOMAIN Place

LEMMA Places ==
  /\ DOMAIN Calls = 1..28
  /\ \A i \in 1..28 : Calls[i] \in Names /\ Place[Calls[i]] = i
  /\ \A c \in Names : Place[c] \in 1..28 /\ Calls[Place[c]] = c
<1>1. DOMAIN Calls = 1..28
  BY DEF Calls
<1>2. ASSUME NEW i \in 1..28
      PROVE  Calls[i] \in Names /\ Place[Calls[i]] = i
  BY DEF Calls, Place, Names
<1>3. ASSUME NEW c \in Names
      PROVE  Place[c] \in 1..28 /\ Calls[Place[c]] = c
  BY DEF Calls, Place, Names
<1> QED
  BY <1>1, <1>2, <1>3

\* Every call made was due, and stays so; what was due before it had been made.
Guarded == \A c \in DOMAIN answers : c \in Names /\ When(c)
Ordered ==
  \A c \in DOMAIN answers : \A d \in Names :
    Place[d] < Place[c] => d \in DOMAIN answers \/ ~When(d)

LEMMA NextInOrder ==
  ASSUME NEW n, NextCall(n), Guarded, Ordered
  PROVE  /\ n \in Names /\ n \notin DOMAIN answers /\ When(n)
         /\ \A d \in Names : Place[d] < Place[n] => d \in DOMAIN answers \/ ~When(d)
         /\ \A c \in DOMAIN answers : Place[c] < Place[n]
<1>1. PICK i \in Pending : n = Calls[i] /\ \A j \in Pending : i <= j
  BY DEF NextCall
<1>2. i \in 1..28 /\ n \notin DOMAIN answers /\ When(n) /\ n \in Names /\ Place[n] = i
  BY <1>1, Places DEF Pending
<1>3. ASSUME NEW d \in Names, Place[d] < Place[n]
      PROVE  d \in DOMAIN answers \/ ~When(d)
  <2>1. Place[d] \in 1..28 /\ Calls[Place[d]] = d
    BY Places
  <2>2. Place[d] \notin Pending
    BY <1>1, <1>2, <1>3, <2>1
  <2> QED
    BY <2>1, <2>2, Places DEF Pending
<1>4. ASSUME NEW c \in DOMAIN answers
      PROVE  Place[c] < Place[n]
  <2>1. c \in Names /\ Place[c] \in 1..28 /\ Calls[Place[c]] = c
    BY Places DEF Guarded
  <2>2. ~(Place[n] < Place[c])
    BY <1>2 DEF Ordered
  <2>3. Place[n] # Place[c]
    BY <1>2, <2>1, Places
  <2> QED
    BY <1>2, <2>1, <2>2, <2>3
<1> QED
  BY <1>2, <1>3, <1>4

\* A call that is answered or fails, and none of the others, is answered from then on.
Called(n, v) == answers' = answers @@ (n :> v)

LEMMA OneMore ==
  ASSUME NEW n, NEW v, n \notin DOMAIN answers, Called(n, v)
  PROVE  /\ DOMAIN answers' = DOMAIN answers \cup {n}
         /\ answers'[n] = v
         /\ \A c \in DOMAIN answers : answers'[c] = answers[c]
  BY DEF Called, @@, :>

LEMMA OthersStay ==
  ASSUME NEW n, NEW v, n \notin DOMAIN answers, Called(n, v), NEW c, c # n
  PROVE  /\ Got(c)' <=> Got(c)
         /\ Got(c) => answers'[c] = answers[c]
         /\ Address(c)' <=> Address(c)
<1>1. /\ c \in DOMAIN answers' <=> c \in DOMAIN answers
      /\ c \in DOMAIN answers => answers'[c] = answers[c]
  BY OneMore
<1> QED
  BY <1>1 DEF Got, Address

\* What a call depends on is decided before it is made.
LEMMA DecidedBefore ==
  ASSUME NEW n \in Names, NEW v, n \notin DOMAIN answers, Called(n, v),
         NEW c \in Names, Place[c] <= Place[n], Guarded
  PROVE  /\ When(c)' <=> When(c)
         /\ c \in DOMAIN Methods /\ When(c) => Contract(c)' = Contract(c)
<1> DEFINE Same(p) == /\ Got(p)' <=> Got(p)
                      /\ Got(p) => answers'[p] = answers[p]
                      /\ Address(p)' <=> Address(p)
<1>1. ASSUME NEW p \in Names, Place[p] < Place[c]
      PROVE  Same(p)
  <2>1. p # n
    BY <1>1, Places
  <2> QED
    BY <2>1, OthersStay
<1>2. /\ c = "optimal_utilization" => Same("interest_rate_strategy")
      /\ c = "emode_isolated" => Same("emodes")
      /\ Place[c] > 18 => Same("oracle_source")
      /\ Place[c] > 19 => Same("oracle_upstream_feed")
      /\ Place[c] > 20 => Same("oracle_feed_aggregator")
      /\ Place[c] > 22 => Same("adapter_code")
      /\ Place[c] > 23 => Same("oracle_feed_decimals")
  BY <1>1 DEF Place, Names
<1>3. /\ c \in DOMAIN Methods => Place[c] > 18
      /\ c \in {"oracle_feed_aggregator", "oracle_feed_decimals", "feed_round", "proxy_code"}
           => Place[c] > 19
      /\ c = "oracle_feed_type_and_version" => Place[c] > 20
      /\ c = "oracle_source_price_cap" => Place[c] > 22
      /\ c = "proxy_code" => Place[c] > 23
  BY DEF Place, Names, Methods
<1> HIDE DEF Same
<1> Place[c] \in 1..28
  BY Places
<1>4. Place[c] > 19 /\ Address("oracle_source") => Target' = Target
  BY <1>2, <1>3 DEF Same, Target, Source, Address
<1>5. When(c)' <=> When(c)
  <2>1. c = "optimal_utilization" =>
          (Address("interest_rate_strategy")' <=> Address("interest_rate_strategy"))
    BY <1>2 DEF Same
  <2>2. c = "emode_isolated" =>
          ((Got("emodes") /\ answers.emodes.member)' <=> Got("emodes") /\ answers.emodes.member)
    BY <1>2 DEF Same
  <2>3. c \in DOMAIN Methods => (Address("oracle_source")' <=> Address("oracle_source"))
    BY <1>2, <1>3 DEF Same
  <2>4. c = "oracle_feed_type_and_version" =>
          (Address("oracle_feed_aggregator")' <=> Address("oracle_feed_aggregator"))
    BY <1>2, <1>3 DEF Same
  <2>5. c \in DOMAIN Methods =>
          ((Got("oracle_source") /\ Source = AdapterAddress)'
             <=> Got("oracle_source") /\ Source = AdapterAddress)
    BY <1>2, <1>3 DEF Same, Source
  <2>6. c = "oracle_source_price_cap" => (VerifiedAdapter' <=> VerifiedAdapter)
    BY <1>2, <1>3 DEF Same, VerifiedAdapter
  <2>7. c = "proxy_code" /\ Address("oracle_source") => (Matched' <=> Matched) /\ Target' = Target
    BY <1>2, <1>3, <1>4 DEF Same, Matched
  <2>8. DOMAIN Methods =
          {"oracle_upstream_feed", "oracle_feed_aggregator", "oracle_feed_type_and_version",
           "adapter_code", "proxy_code", "oracle_feed_decimals", "oracle_source_decimals",
           "feed_round", "oracle_source_latest_answer", "oracle_source_price_cap"}
    BY DEF Methods
  <2> QED
    BY <2>1, <2>2, <2>3, <2>4, <2>5, <2>6, <2>7, <2>8 DEF When
<1>6. c \in DOMAIN Methods /\ When(c) => Contract(c)' = Contract(c)
  <2> SUFFICES ASSUME c \in DOMAIN Methods, When(c)
               PROVE  Contract(c)' = Contract(c)
    OBVIOUS
  <2>1. Source' = Source
    <3>1. Got("oracle_source") => Source' = Source
      BY <1>2, <1>3 DEF Same, Source
    <3>2. c = "oracle_source_price_cap" => Got("oracle_source")
      BY DEF When, VerifiedAdapter, Got, Guarded
    <3>3. c = "oracle_feed_type_and_version" => Got("oracle_source")
      BY DEF When, Address, Got, Guarded
    <3> QED
      BY <3>1, <3>2, <3>3 DEF When, Address, Methods
  <2>2. Address("oracle_source") => Target' = Target \/ ~(Place[c] > 19)
    BY <1>4
  <2>3. c = "oracle_feed_type_and_version" =>
          answers'["oracle_feed_aggregator"] = answers["oracle_feed_aggregator"]
    BY <1>2, <1>3 DEF Same, When, Address
  <2> QED
    BY <1>3, <2>1, <2>2, <2>3 DEF Contract, When
<1> QED
  BY <1>5, <1>6

------------------------------------------------------------------------------
(* The invariant. *)

\* A call returned what the pinned block says, or failed.
Reported == \A c \in DOMAIN answers : answers[c] \in {Failed, Returned(c)}

\* No call is late while the block is canonical, and none was if the last one was answered.
Canonical ==
  /\ ~orphaned => late = {}
  /\ Got("proxy_code") => late = {}

\* The collection goes on only with every required answer.
Kept == snapshot = Reading => \A c \in Required \cap DOMAIN answers : Got(c)

Collected ==
  /\ chain \in Chains
  /\ Guarded /\ Ordered /\ Reported /\ Canonical /\ Kept
  /\ snapshot.outcome = "none" => answers = <<>>

LEMMA InitCollected == Init => Collected
  BY DEF Init, Collected, Guarded, Ordered, Reported, Canonical, Kept, Got, Reading

\* Nothing of it changes while no call is made.
LEMMA NoCallMade ==
  ASSUME UNCHANGED <<chain, answers>>, Guarded, Ordered, Reported
  PROVE  /\ Guarded' /\ Ordered' /\ Reported'
         /\ \A c \in Names : Got(c)' <=> Got(c)
<1>1. ASSUME NEW c
      PROVE  (Got(c)' <=> Got(c)) /\ (Address(c)' <=> Address(c))
  BY DEF Got, Address
<1>2. Source' = Source /\ Target' = Target /\ (Matched' <=> Matched)
  BY <1>1 DEF Source, Target, Matched
<1>3. VerifiedAdapter' <=> VerifiedAdapter
  BY <1>1 DEF VerifiedAdapter
<1>4. ASSUME NEW c
      PROVE  (When(c)' <=> When(c)) /\ Returned(c)' = Returned(c)
  <2>1. When(c)' <=> When(c)
    BY <1>1, <1>2, <1>3 DEF When
  <2>2. Contract(c)' = Contract(c)
    BY <1>2 DEF Contract
  <2> QED
    BY <2>1, <2>2 DEF Returned
<1> QED
  BY <1>1, <1>4 DEF Guarded, Ordered, Reported

LEMMA CallMade ==
  ASSUME Collected, NEW n, NextCall(n), NEW v, v \in {Failed, Returned(n)},
         orphaned => v = Failed, Read(n, v)
  PROVE  Collected'
<1>1. /\ n \in Names /\ n \notin DOMAIN answers /\ When(n)
      /\ \A d \in Names : Place[d] < Place[n] => d \in DOMAIN answers \/ ~When(d)
      /\ \A c \in DOMAIN answers : Place[c] < Place[n]
  BY NextInOrder DEF Collected
<1>2. /\ DOMAIN answers' = DOMAIN answers \cup {n} /\ answers'[n] = v
      /\ \A c \in DOMAIN answers : answers'[c] = answers[c]
  BY <1>1, OneMore DEF Read, Called
<1>3. ASSUME NEW c \in Names, Place[c] <= Place[n]
      PROVE  /\ When(c)' <=> When(c)
             /\ c \in DOMAIN Methods /\ When(c) => Contract(c)' = Contract(c)
  BY <1>1, <1>3, DecidedBefore DEF Read, Called, Collected
<1>4. ASSUME NEW c \in DOMAIN answers'
      PROVE  c \in Names /\ Place[c] \in 1..28 /\ Place[c] <= Place[n] /\ When(c)
  BY <1>1, <1>2, Places DEF Collected, Guarded
<1>5. Guarded'
  BY <1>3, <1>4 DEF Guarded
<1>6. Ordered'
  <2>1. ASSUME NEW c \in DOMAIN answers', NEW d \in Names, Place[d] < Place[c]
        PROVE  d \in DOMAIN answers' \/ ~When(d)'
    <3>1. d \in DOMAIN answers \/ ~When(d)
      BY <1>1, <1>2, <2>1 DEF Collected, Ordered
    <3>2. Place[d] <= Place[n]
      BY <1>1, <1>4, <2>1, Places
    <3> QED
      BY <1>2, <1>3, <3>1, <3>2
  <2> QED
    BY <2>1 DEF Ordered
<1>7. Reported'
  <2>1. ASSUME NEW c \in DOMAIN answers'
        PROVE  answers'[c] \in {Failed, Returned(c)'}
    <3>1. Returned(c)' = Returned(c)
      <4>1. c \in DOMAIN Methods => Contract(c)' = Contract(c)
        BY <1>3, <1>4
      <4> QED
        BY <4>1 DEF Returned, Read
    <3> QED
      BY <1>2, <3>1 DEF Collected, Reported
  <2> QED
    BY <2>1 DEF Reported
<1>8. Canonical'
  <2>1. ~orphaned' => late' = {}
    BY DEF Collected, Canonical, Read
  <2>2. Got("proxy_code")' => late' = {}
    <3> SUFFICES ASSUME Got("proxy_code")'
                 PROVE  late' = {}
      OBVIOUS
    <3>1. Place["proxy_code"] = 28 /\ Place[n] \in 1..28
      BY <1>1, Places DEF Place
    <3>2. n = "proxy_code"
      BY <1>1, <1>2, <3>1 DEF Got
    <3>3. v # Failed
      BY <1>2, <3>2 DEF Got
    <3> QED
      BY <3>3 DEF Collected, Canonical, Read
  <2> QED
    BY <2>1, <2>2 DEF Canonical
<1>9. Kept'
  <2>1. ASSUME snapshot' = Reading, NEW c \in Required \cap DOMAIN answers'
        PROVE  Got(c)'
    <3>1. ~(v = Failed /\ n \in Required)
      BY <2>1 DEF Read, Reading, Refused
    <3>2. snapshot = Reading
      BY DEF NextCall
    <3> QED
      BY <1>2, <2>1, <3>1, <3>2 DEF Collected, Kept, Got
  <2> QED
    BY <2>1 DEF Kept
<1> QED
  BY <1>5, <1>6, <1>7, <1>8, <1>9 DEF Collected, Read, Reading, Refused

LEMMA StepCollected == Collected /\ [Next]_vars => Collected'
<1> SUFFICES ASSUME Collected, [Next]_vars
             PROVE  Collected'
  OBVIOUS
<1>1. ASSUME UNCHANGED <<chain, answers>>, UNCHANGED late, orphaned => orphaned',
             snapshot' = Reading => snapshot = Reading \/ answers = <<>>,
             snapshot'.outcome = "none" => snapshot.outcome = "none"
      PROVE  Collected'
  <2>1. Guarded' /\ Ordered' /\ Reported' /\ \A c \in Names : Got(c)' <=> Got(c)
    BY <1>1, NoCallMade DEF Collected
  <2>2. Canonical'
    BY <1>1, <2>1 DEF Collected, Canonical, Got
  <2>3. Kept'
    BY <1>1, <2>1 DEF Collected, Kept, Got
  <2> QED
    BY <1>1, <2>1, <2>2, <2>3 DEF Collected
<1>2. CASE Pin
  BY <1>1, <1>2 DEF Pin, Collected, Reading, Refused
<1>3. CASE Reorg
  BY <1>1, <1>3 DEF Reorg, Reading
<1>4. CASE Finish
  <2>1. snapshot' = Reading => FALSE
    BY <1>4 DEF Finish, Reading, Refused
  <2>2. snapshot'.outcome # "none"
    BY <1>4 DEF Finish, Reading, Refused
  <2> QED
    BY <1>1, <1>4, <2>1, <2>2 DEF Finish
<1>5. ASSUME NEW i \in DOMAIN Calls, Answer(Calls[i])
      PROVE  Collected'
  <2>1. PICK v : v = Returned(Calls[i])
    OBVIOUS
  <2> QED
    BY <1>5, <2>1, CallMade DEF Answer
<1>6. ASSUME NEW i \in DOMAIN Calls, Fail(Calls[i])
      PROVE  Collected'
  BY <1>6, CallMade DEF Fail
<1>7. CASE UNCHANGED vars
  BY <1>1, <1>7 DEF vars
<1> QED
  BY <1>2, <1>3, <1>4, <1>5, <1>6, <1>7 DEF Next

------------------------------------------------------------------------------
(* What ends a collection. *)

\* Of two records, the methods or the contracts differ, or one of them is dropped.
LEMMA NothingDuplicated == Collected => ~Duplicated
<1> SUFFICES ASSUME Collected, NEW c \in DOMAIN answers, NEW d \in DOMAIN answers, c # d,
                    Asks(c) = Asks(d)
             PROVE  {c, d} \subseteq Deduplicated
  BY DEF Duplicated
<1>1. c \in Names /\ d \in Names /\ When(c) /\ When(d)
  BY DEF Collected, Guarded
<1>2. c \in DOMAIN Methods /\ d \in DOMAIN Methods
  <2>1. ASSUME NEW a \in Names, NEW b \in DOMAIN Methods, a \notin DOMAIN Methods
        PROVE  Methods[b] # a
    BY <2>1 DEF Names, Place, Methods
  <2> QED
    BY <1>1, <2>1 DEF Asks
<1>3. Methods[c] = Methods[d] /\ Contract(c) = Contract(d)
  BY <1>2 DEF Asks
<1>4. {c, d} \in {{"adapter_code", "proxy_code"}, {"oracle_feed_decimals", "oracle_source_decimals"}}
  BY <1>2, <1>3 DEF Methods
<1>5. {c, d} # {"adapter_code", "proxy_code"}
  <2> SUFFICES ASSUME {c, d} = {"adapter_code", "proxy_code"}
               PROVE  FALSE
    OBVIOUS
  <2>1. When("adapter_code") /\ When("proxy_code")
    BY <1>1
  <2>2. Contract("adapter_code") = Contract("proxy_code")
    BY <1>3
  <2>3. Source = Target
    BY <2>2 DEF Contract
  <2> QED
    BY <2>1, <2>3, CollectorAssumption DEF When
<1>6. Source # ZeroAddress
  BY <1>1, <1>4, <1>5 DEF When, Address, Source
<1>7. {"oracle_feed_decimals", "oracle_source_decimals"} \subseteq {Calls[i] : i \in 1..26}
  BY DEF Calls
<1> QED
  BY <1>4, <1>5, <1>6, <1>7 DEF Deduplicated

LEMMA StepRefused ==
  Collected /\ RefusedOnlyForRequired /\ [Next]_vars => RefusedOnlyForRequired'
<1> SUFFICES ASSUME Collected, RefusedOnlyForRequired, [Next]_vars, snapshot' = Refused
             PROVE  \/ answers' = <<>>
                    \/ \E call \in Required \cap DOMAIN answers' :
                         ~Got(call)' \/ Invalid(call, answers[call])'
  BY DEF RefusedOnlyForRequired
<1>1. ASSUME NEW n, NextCall(n), NEW v, Read(n, v)
      PROVE  \E call \in Required \cap DOMAIN answers' :
               ~Got(call)' \/ Invalid(call, answers[call])'
  <2>1. /\ n \in Names /\ n \notin DOMAIN answers
        /\ \A d \in Names : Place[d] < Place[n] => d \in DOMAIN answers \/ ~When(d)
    BY <1>1, NextInOrder DEF Collected
  <2>2. /\ DOMAIN answers' = DOMAIN answers \cup {n} /\ answers'[n] = v
        /\ \A c \in DOMAIN answers : answers'[c] = answers[c]
    BY <1>1, <2>1, OneMore DEF Read, Called
  <2>3. \/ v = Failed /\ n \in Required
        \/ v # Failed /\ Invalid(n, v)
    BY <1>1 DEF Read, Reading, Refused
  <2>4. n \in Required
    BY <2>3 DEF Invalid, Required
  <2>5. v = Failed => ~Got(n)'
    BY <2>2 DEF Got
  <2>6. Invalid(n, v) => Invalid(n, answers[n])'
    <3>1. n = "emodes" => "reserve" \in DOMAIN answers
      <4>1. When("reserve")
        BY DEF When
      <4> QED
        BY <2>1, <4>1 DEF Names, Place
    <3>2. n = "emodes" => answers'.reserve = answers.reserve
      BY <2>2, <3>1
    <3> QED
      BY <2>2, <3>2 DEF Invalid
  <2> QED
    BY <2>2, <2>3, <2>4, <2>5, <2>6
<1>2. CASE Pin
  BY <1>2 DEF Pin, Collected
<1>3. CASE Reorg
  BY <1>3 DEF Reorg, Reading, Refused
<1>4. CASE Finish
  BY <1>4, NothingDuplicated DEF Finish, Refused
<1>5. ASSUME NEW i \in DOMAIN Calls, Answer(Calls[i]) \/ Fail(Calls[i])
      PROVE  \E call \in Required \cap DOMAIN answers' :
               ~Got(call)' \/ Invalid(call, answers[call])'
  <2>1. PICK v : NextCall(Calls[i]) /\ Read(Calls[i], v)
    BY <1>5 DEF Answer, Fail
  <2> QED
    BY <1>1, <2>1
<1>6. CASE UNCHANGED vars
  <2>1. \/ answers = <<>>
        \/ \E call \in Required \cap DOMAIN answers :
             ~Got(call) \/ Invalid(call, answers[call])
    BY <1>6 DEF vars, RefusedOnlyForRequired
  <2> QED
    BY <1>6, <2>1 DEF vars, Got, Invalid
<1> QED
  BY <1>2, <1>3, <1>4, <1>5, <1>6 DEF Next

\* Whatever fails and however often, an optional call costs an observation and not the
\* snapshot: equal records of two calls are dropped, never refused.
THEOREM OnlyRequiredReadsRefuse == Spec => []RefusedOnlyForRequired
<1>1. Init => RefusedOnlyForRequired
  BY DEF Init, RefusedOnlyForRequired, Refused
<1> QED
  BY <1>1, InitCollected, StepCollected, StepRefused, PTL DEF Spec

------------------------------------------------------------------------------
(* What the observations say. *)

ConfigFields ==
  {"ltv", "liquidation_threshold", "liquidation_bonus", "borrowing_enabled",
   "reserve_active", "reserve_frozen"}
ReserveFields ==
  {"reserve_paused", "total_supplied", "variable_debt", "available_liquidity",
   "virtual_available_liquidity", "scaled_total_supplied", "liquidity_index",
   "optimal_utilization", "aave_price_oracle", "oracle_source"}
OracleFields ==
  {"oracle_feed_aggregator", "oracle_feed_decimals", "oracle_source_decimals",
   "oracle_source_latest_answer", "oracle_source_price_cap"}

\* What a value that is present means: of the reserve, what the block says; of the
\* oracle, what the contracts that were asked said, and what had been verified of them.
Means(f, v) ==
  /\ f \in ConfigFields => v = chain.config[f]
  /\ f \in {"supply_cap", "borrow_cap"} => v = chain.caps[f]
  /\ f \in ReserveFields => v = chain[f]
  /\ f = "scaled_accrued_to_treasury" => v = chain.reserve.treasury
  /\ f = "supply_cap_total_supplied" =>
       v = ((chain.scaled_total_supplied + chain.reserve.treasury) * chain.liquidity_index)
             \div Ray
  /\ f = "oracle_upstream_feed" => Address(f) /\ v = answers[f]
  /\ f = "oracle_source_interface" /\ v = Adapter => VerifiedAdapter
  /\ f = "oracle_feed_proxy_type" => VerifiedProxy /\ Matched /\ v = ChainlinkProxy
  /\ f = "oracle_feed_is_chainlink" => v = TRUE
  /\ f = "oracle_feed_heartbeat" => v = Registry[Target].heartbeat
  /\ f = "oracle_feed_proxy" => v = Target
  /\ f \in OracleFields => Got(f) /\ v = answers[f]
  /\ f = "oracle_feed_latest_answer" => Got("feed_round") /\ v = answers.feed_round.answer
  /\ f = "oracle_feed_updated_at" => Got("feed_round") /\ v = answers.feed_round.updated

Says(o) == \A f \in DOMAIN o : o[f].state = "present" => Means(f, o[f].value)

LEMMA SaysBoth ==
  ASSUME NEW g, NEW h, Says(g), Says(h)
  PROVE  Says(g @@ h)
<1>1. ASSUME NEW f \in DOMAIN (g @@ h)
      PROVE  \/ f \in DOMAIN g /\ (g @@ h)[f] = g[f]
             \/ f \in DOMAIN h /\ (g @@ h)[f] = h[f]
  BY DEF @@
<1> QED
  BY <1>1 DEF Says

LEMMA SaysOne ==
  ASSUME NEW f, NEW e, e.state = "present" => Means(f, e.value)
  PROVE  Says(f :> e)
<1>1. DOMAIN (f :> e) = {f} /\ (f :> e)[f] = e
  BY DEF :>
<1> QED
  BY <1>1 DEF Says

LEMMA SaysNothing == Says(<<>>)
  BY DEF Says

\* A collection about to end: every call that is due has been made.
Complete == Collected /\ snapshot = Reading /\ Pending = {}

LEMMA AllMade ==
  ASSUME Complete
  PROVE  /\ \A c \in Names : When(c) => c \in DOMAIN answers
         /\ \A c \in Required : Got(c) /\ answers[c] = chain[c]
         /\ \A c \in Names \ DOMAIN Methods : Got(c) => answers[c] = chain[c]
<1>1. ASSUME NEW c \in Names, When(c)
      PROVE  c \in DOMAIN answers
  <2>1. Place[c] \in DOMAIN Calls /\ Calls[Place[c]] = c
    BY Places
  <2> QED
    BY <1>1, <2>1 DEF Complete, Pending
<1>2. ASSUME NEW c \in Names \ DOMAIN Methods, Got(c)
      PROVE  answers[c] = chain[c]
  BY <1>2 DEF Complete, Collected, Reported, Got, Returned
<1>3. ASSUME NEW c \in Required
      PROVE  c \in Names \ DOMAIN Methods /\ When(c)
  BY DEF Required, Names, Place, Methods, When
<1>4. ASSUME NEW c \in Required
      PROVE  Got(c)
  BY <1>1, <1>3 DEF Complete, Collected, Kept
<1> QED
  BY <1>1, <1>2, <1>3, <1>4

LEMMA SaysConfiguration ==
  ASSUME Complete
  PROVE  Says(Configuration)
<1>1. /\ answers.config = chain.config /\ answers.caps = chain.caps
      /\ answers.reserve_paused = chain.reserve_paused
      /\ chain \in Chains
  BY AllMade DEF Required, Complete, Collected
<1>2. Says([f \in DOMAIN answers.config \ {"decimals"} |-> Given(answers.config[f], {"config"})])
  <2>1. DOMAIN answers.config \ {"decimals"} = ConfigFields
    BY <1>1, CollectorAssumption DEF ConfigFields
  <2>2. ASSUME NEW f \in ConfigFields
        PROVE  Means(f, answers.config[f])
    BY <1>1 DEF Means, ConfigFields, ReserveFields, OracleFields
  <2> QED
    BY <2>1, <2>2 DEF Says, Given
<1>3. Says([f \in {"supply_cap", "borrow_cap"} |-> Given(answers.caps[f], {"caps"})])
  <2>1. ASSUME NEW f \in {"supply_cap", "borrow_cap"}
        PROVE  Means(f, answers.caps[f])
    BY <1>1 DEF Means, ConfigFields, ReserveFields, OracleFields
  <2> QED
    BY <2>1 DEF Says, Given
<1>4. Says("reserve_paused" :> Given(answers.reserve_paused, {"reserve_paused"}))
  <2>1. Means("reserve_paused", answers.reserve_paused)
    BY <1>1 DEF Means, ConfigFields, ReserveFields, OracleFields
  <2> QED
    BY <2>1, SaysOne DEF Given
<1> QED
  BY <1>2, <1>3, <1>4, SaysBoth DEF Configuration

\* Observations that nothing is concluded from.
LEMMA MeansNothing ==
  ASSUME NEW v
  PROVE  \A f \in {"interest_rate_strategy", "emode_isolated", "oracle_source_is_chainlink",
                   "oracle_feed_type_and_version", "total_borrowed", "utilization_rate",
                   "supply_cap_utilization", "borrow_cap_utilization", "oracle_age_seconds",
                   "oracle_age_to_heartbeat"} : Means(f, v)
  BY DEF Means, ConfigFields, ReserveFields, OracleFields

LEMMA SaysReserveState ==
  ASSUME Complete
  PROVE  Says(ReserveState)
<1>1. ASSUME NEW f \in StateReads \cup {"optimal_utilization"}
      PROVE  Optional(f).state = "present" => Means(f, Optional(f).value)
  <2>1. f \in Names \ DOMAIN Methods
    BY DEF StateReads, Names, Place, Methods
  <2>2. Got(f) => Means(f, answers[f])
    BY <2>1, AllMade DEF Means, StateReads, ConfigFields, ReserveFields, OracleFields
  <2> QED
    BY <2>2 DEF Optional, Given, Lacking
<1>2. Says([f \in StateReads |-> Optional(f)])
  BY <1>1 DEF Says
<1>3. Says("interest_rate_strategy" :>
             Usable("interest_rate_strategy", {"interest_rate_strategy"}))
  BY SaysOne, MeansNothing
<1>4. Says("optimal_utilization" :>
             IF Address("interest_rate_strategy") THEN Optional("optimal_utilization")
             ELSE Lacking("missing", {"interest_rate_strategy"}))
  <2>1. Lacking("missing", {"interest_rate_strategy"}).state # "present"
    BY DEF Lacking
  <2> QED
    BY <1>1, <2>1, SaysOne
<1>5. Says("scaled_accrued_to_treasury" :> Given(answers.reserve.treasury, {"reserve"}))
  <2>1. Means("scaled_accrued_to_treasury", answers.reserve.treasury)
    BY AllMade DEF Means, Required, ConfigFields, ReserveFields, OracleFields
  <2> QED
    BY <2>1, SaysOne DEF Given
<1>6. Says(IF answers.emodes.member THEN "emode_isolated" :> Optional("emode_isolated")
           ELSE <<>>)
  BY SaysOne, MeansNothing, SaysNothing
<1> QED
  BY <1>2, <1>3, <1>4, <1>5, <1>6, SaysBoth DEF ReserveState

LEMMA SaysOracleSource ==
  ASSUME Complete
  PROVE  Says(OracleSource)
<1>1. ASSUME NEW f \in {"aave_price_oracle", "oracle_source", "oracle_feed_aggregator",
                        "oracle_feed_type_and_version"}
      PROVE  Optional(f).state = "present" => Means(f, Optional(f).value)
  <2>1. Got(f) => Means(f, answers[f])
    BY AllMade DEF Required, Means, ConfigFields, ReserveFields, OracleFields
  <2> QED
    BY <2>1 DEF Optional, Given, Lacking
<1>2. Says("aave_price_oracle" :> Optional("aave_price_oracle"))
      /\ Says("oracle_source" :> Optional("oracle_source"))
  BY <1>1, SaysOne
<1>3. Says("oracle_source_interface" :> Interface)
  <2>1. Interface.state = "present" /\ Interface.value = Adapter => VerifiedAdapter
    BY DEF Interface, Given, Lacking, Adapter
  <2>2. Interface.state = "present" => Means("oracle_source_interface", Interface.value)
    BY <2>1 DEF Means, ConfigFields, ReserveFields, OracleFields
  <2> QED
    BY <2>2, SaysOne
<1>4. Says("oracle_source_is_chainlink" :>
             IF VerifiedAdapter THEN Given(FALSE, {"adapter_code"})
             ELSE Lacking("unsupported", {"oracle_source"}))
  BY SaysOne, MeansNothing
<1>5. Says(IF Address("oracle_upstream_feed")
           THEN "oracle_upstream_feed" :> Optional("oracle_upstream_feed") ELSE <<>>)
  <2>1. Address("oracle_upstream_feed") =>
          Means("oracle_upstream_feed", answers["oracle_upstream_feed"])
    BY DEF Means, ConfigFields, ReserveFields, OracleFields
  <2>2. Address("oracle_upstream_feed") =>
          Says("oracle_upstream_feed" :> Optional("oracle_upstream_feed"))
    BY <2>1, SaysOne DEF Address, Optional, Given
  <2> QED
    BY <2>2, SaysNothing
<1>6. Says(IF Address("oracle_feed_aggregator")
           THEN [f \in {"oracle_feed_aggregator", "oracle_feed_type_and_version"} |-> Optional(f)]
                @@ ("oracle_feed_proxy" :> Given(Target, {"oracle_feed_aggregator"}))
           ELSE <<>>)
  <2>1. Says([f \in {"oracle_feed_aggregator", "oracle_feed_type_and_version"} |-> Optional(f)])
    BY <1>1 DEF Says
  <2>2. Means("oracle_feed_proxy", Target)
    BY DEF Means, ConfigFields, ReserveFields, OracleFields
  <2>3. Says("oracle_feed_proxy" :> Given(Target, {"oracle_feed_aggregator"}))
    BY <2>2, SaysOne DEF Given
  <2> QED
    BY <2>1, <2>3, SaysBoth, SaysNothing
<1> QED
  BY <1>2, <1>3, <1>4, <1>5, <1>6, SaysBoth DEF OracleSource

LEMMA SaysRegistered == Says(Registered)
<1>1. ASSUME Matched
      PROVE  Says(Registered)
  <2>1. Says("oracle_feed_is_chainlink" :> Given(TRUE, {"oracle_feed_decimals"}))
    <3>1. Means("oracle_feed_is_chainlink", TRUE)
      BY DEF Means, ConfigFields, ReserveFields, OracleFields
    <3> QED
      BY <3>1, SaysOne DEF Given
  <2>2. Says("oracle_feed_heartbeat" :> Given(Registry[Target].heartbeat, {}))
    <3>1. Means("oracle_feed_heartbeat", Registry[Target].heartbeat)
      BY DEF Means, ConfigFields, ReserveFields, OracleFields
    <3> QED
      BY <3>1, SaysOne DEF Given
  <2>3. Says(IF VerifiedProxy
             THEN "oracle_feed_proxy_type" :> Given(ChainlinkProxy, {"proxy_code"}) ELSE <<>>)
    <3>1. VerifiedProxy => Means("oracle_feed_proxy_type", ChainlinkProxy)
      BY <1>1 DEF Means, ConfigFields, ReserveFields, OracleFields
    <3>2. VerifiedProxy => Says("oracle_feed_proxy_type" :> Given(ChainlinkProxy, {"proxy_code"}))
      BY <3>1, SaysOne DEF Given
    <3> QED
      BY <3>2, SaysNothing
  <2> QED
    BY <1>1, <2>1, <2>2, <2>3, SaysBoth DEF Registered
<1>2. ASSUME ~Matched
      PROVE  Says(Registered)
  BY <1>2 DEF Registered, Says, Lacking
<1> QED
  BY <1>1, <1>2

LEMMA SaysFeed == Says(Feed)
<1> DEFINE scaled(call, decimals, ok, value) ==
             IF ok THEN Given(value, {call, decimals}) ELSE Lacking("missing", {call, decimals})
<1>1. ASSUME NEW f, NEW call, NEW decimals, NEW ok, NEW value, ok => Means(f, value)
      PROVE  Says(f :> scaled(call, decimals, ok, value))
  <2>1. scaled(call, decimals, ok, value).state = "present" =>
          Means(f, scaled(call, decimals, ok, value).value)
    BY <1>1 DEF Given, Lacking
  <2> QED
    BY <2>1, SaysOne
<1>2. Says([f \in {"oracle_feed_decimals", "oracle_source_decimals"} |-> Optional(f)])
  <2>1. ASSUME NEW f \in {"oracle_feed_decimals", "oracle_source_decimals"}
        PROVE  Optional(f).state = "present" => Means(f, Optional(f).value)
    BY DEF Optional, Given, Lacking, Means, ConfigFields, ReserveFields, OracleFields
  <2> QED
    BY <2>1 DEF Says
<1>3. Says("oracle_feed_updated_at" :>
             IF Got("feed_round") THEN Given(answers.feed_round.updated, {"feed_round"})
             ELSE Lacking("missing", {"feed_round"}))
  <2> DEFINE e == IF Got("feed_round") THEN Given(answers.feed_round.updated, {"feed_round"})
                  ELSE Lacking("missing", {"feed_round"})
  <2>1. e.state = "present" => Means("oracle_feed_updated_at", e.value)
    BY DEF Given, Lacking, Means, ConfigFields, ReserveFields, OracleFields
  <2> QED
    BY <2>1, SaysOne
<1>4. Says("oracle_feed_latest_answer" :>
             scaled("feed_round", "oracle_feed_decimals",
                    Got("feed_round") /\ Got("oracle_feed_decimals"), answers.feed_round.answer))
  <2>1. Got("feed_round") => Means("oracle_feed_latest_answer", answers.feed_round.answer)
    BY DEF Means, ConfigFields, ReserveFields, OracleFields
  <2> QED
    BY <1>1, <2>1
<1>5. Says("oracle_source_latest_answer" :>
             scaled("oracle_source_latest_answer", "oracle_source_decimals",
                    Got("oracle_source_latest_answer") /\ Got("oracle_source_decimals"),
                    answers.oracle_source_latest_answer))
  <2>1. Got("oracle_source_latest_answer") =>
          Means("oracle_source_latest_answer", answers.oracle_source_latest_answer)
    BY DEF Means, ConfigFields, ReserveFields, OracleFields
  <2> QED
    BY <1>1, <2>1
<1>6. Says(IF VerifiedAdapter
           THEN "oracle_source_price_cap" :>
                  scaled("oracle_source_price_cap", "oracle_source_decimals",
                         PriceCapScaled, answers.oracle_source_price_cap)
           ELSE <<>>)
  <2>1. PriceCapScaled => Means("oracle_source_price_cap", answers.oracle_source_price_cap)
    BY DEF PriceCapScaled, Means, ConfigFields, ReserveFields, OracleFields
  <2>2. Says("oracle_source_price_cap" :>
               scaled("oracle_source_price_cap", "oracle_source_decimals",
                      PriceCapScaled, answers.oracle_source_price_cap))
    BY <1>1, <2>1
  <2> QED
    BY <2>2, SaysNothing
<1> HIDE DEF scaled
<1> QED
  BY <1>2, <1>3, <1>4, <1>5, <1>6, SaysBoth, SaysRegistered DEF Feed, scaled

\* A derived observation is present only if all it was derived from are.
LEMMA DerivePresent ==
  ASSUME NEW o, NEW names, NEW value, NEW state,
         Derive(o, names, value, state).state = "present"
  PROVE  /\ \A name \in names : o[name].state = "present"
         /\ Derive(o, names, value, state).value = value
  BY DEF Derive, Given, Lacking

LEMMA SaysDerived ==
  ASSUME NEW o, Says(o),
         {"scaled_total_supplied", "scaled_accrued_to_treasury", "liquidity_index"} \subseteq DOMAIN o
  PROVE  Says(Derived(o))
<1> DEFINE names == {"scaled_total_supplied", "scaled_accrued_to_treasury", "liquidity_index"}
           state == IF o["liquidity_index"].value >= Ray THEN "present" ELSE "invalid"
           e == Derive(o, names, SuppliedUnderCap(o), state)
           supplied == "supply_cap_total_supplied" :> e
<1>1. e.state = "present" => Means("supply_cap_total_supplied", e.value)
  <2> SUFFICES ASSUME e.state = "present"
               PROVE  Means("supply_cap_total_supplied", e.value)
    OBVIOUS
  <2>1. /\ \A name \in names : o[name].state = "present"
        /\ e.value = SuppliedUnderCap(o)
    BY DerivePresent
  <2>2. \A name \in names : Means(name, o[name].value)
    BY <2>1 DEF Says
  <2>3. /\ o["scaled_total_supplied"].value = chain.scaled_total_supplied
        /\ o["scaled_accrued_to_treasury"].value = chain.reserve.treasury
        /\ o["liquidity_index"].value = chain.liquidity_index
    BY <2>2 DEF Means, ReserveFields
  <2>4. SuppliedUnderCap(o) =
          ((chain.scaled_total_supplied + chain.reserve.treasury) * chain.liquidity_index) \div Ray
    BY <2>3 DEF SuppliedUnderCap
  <2> QED
    BY <2>1, <2>4 DEF Means, ConfigFields, ReserveFields, OracleFields
<1>2. Says(supplied)
  BY <1>1, SaysOne
<1>3. \A d : \A f \in {"total_borrowed", "utilization_rate", "supply_cap_utilization",
                       "borrow_cap_utilization"} : Says(f :> d)
  BY SaysOne, MeansNothing
<1> HIDE DEF e
<1> QED
  BY <1>2, <1>3, SaysBoth DEF Derived, e

LEMMA SaysFeedAge == \A o : Says(FeedAge(o))
<1> SUFFICES ASSUME NEW o
             PROVE  Says(FeedAge(o))
  OBVIOUS
<1>1. Says([f \in {"oracle_age_seconds", "oracle_age_to_heartbeat"} |->
              Lacking("missing", {"oracle_source"})])
  BY DEF Says, Lacking
<1>2. \A d : \A f \in {"oracle_age_seconds", "oracle_age_to_heartbeat"} : Says(f :> d)
  BY SaysOne, MeansNothing
<1> QED
  BY <1>1, <1>2, SaysBoth DEF FeedAge

\* What is read of the reserve and of its oracle.
AsRead ==
  Configuration @@ ReserveState @@ OracleSource
    @@ (IF Source # ZeroAddress THEN Feed ELSE <<>>)

LEMMA SaysObservations ==
  ASSUME Complete
  PROVE  Says(Observations)
<1>1. Says(AsRead)
  <2>1. Says(IF Source # ZeroAddress THEN Feed ELSE <<>>)
    BY SaysFeed, SaysNothing
  <2> QED
    BY <2>1, SaysConfiguration, SaysReserveState, SaysOracleSource, SaysBoth DEF AsRead
<1>2. {"scaled_total_supplied", "scaled_accrued_to_treasury", "liquidity_index"}
        \subseteq DOMAIN AsRead
  <2>1. {"scaled_total_supplied", "liquidity_index"} \subseteq DOMAIN [f \in StateReads |-> Optional(f)]
    BY DEF StateReads
  <2>2. "scaled_accrued_to_treasury" \in
          DOMAIN ("scaled_accrued_to_treasury" :> Given(answers.reserve.treasury, {"reserve"}))
    BY DEF :>
  <2>3. \A g, h : DOMAIN (g @@ h) = DOMAIN g \cup DOMAIN h
    BY DEF @@
  <2>4. \A x, g, h : x \in DOMAIN g \/ x \in DOMAIN h => x \in DOMAIN (g @@ h)
    BY <2>3
  <2>5. ASSUME NEW x, \/ x \in DOMAIN [f \in StateReads |-> Optional(f)]
                      \/ x \in DOMAIN ("scaled_accrued_to_treasury" :>
                                         Given(answers.reserve.treasury, {"reserve"}))
        PROVE  x \in DOMAIN ReserveState
    BY Zenon, <2>4, <2>5 DEF ReserveState
  <2>6. \A x \in DOMAIN ReserveState : x \in DOMAIN AsRead
    BY Zenon, <2>4 DEF AsRead
  <2> QED
    BY <2>1, <2>2, <2>5, <2>6
<1>3. Says(Derived(AsRead))
  BY <1>1, <1>2, SaysDerived
<1>4. Says(FeedAge(AsRead))
  BY SaysFeedAge
<1>5. Observations = AsRead @@ Derived(AsRead) @@ FeedAge(AsRead)
  BY DEF Observations, AsRead
<1> QED
  BY <1>1, <1>3, <1>4, <1>5, SaysBoth

------------------------------------------------------------------------------
(* What a score depends on. *)

\* Two snapshots of one final block that agree on every value that is not missing.
Agree(o, p, missing) ==
  /\ \A f \in Inputs \ missing : o[f] = p[f]
  /\ \A f \in {"block_timestamp", "canonicality_checked_at", "collected_at", "calculated_at",
               "block_final"} : o[f] = p[f]
  /\ o.block_final = TRUE

LEMMA SameOracle ==
  ASSUME NEW o, NEW p, NEW missing, Agree(o, p, missing), Oracle(o, missing) # Unknown
  PROVE  Oracle(p, {}) = Oracle(o, missing)
<1>1. OracleInputs \cap missing = {}
  BY DEF Oracle
<1>2. \A f \in OracleInputs : p[f] = o[f]
  BY <1>1 DEF Agree, Inputs
<1>3. p.block_timestamp = o.block_timestamp
  BY DEF Agree
<1>4. Identity(p) = Identity(o)
  <2>1. /\ \A a \in OracleAddresses : p[a] = o[a]
        /\ p.oracle_source_interface = o.oracle_source_interface
        /\ p.oracle_feed_proxy_type = o.oracle_feed_proxy_type
        /\ p.oracle_feed_is_chainlink = o.oracle_feed_is_chainlink
        /\ p.oracle_feed_proxy = o.oracle_feed_proxy
        /\ p.oracle_upstream_feed = o.oracle_upstream_feed
    BY <1>2 DEF OracleInputs, OracleAddresses
  <2> QED
    BY <2>1 DEF Identity
<1>5. AdapterMatches(p) = AdapterMatches(o)
  BY <1>2 DEF AdapterMatches, OracleInputs
<1>6. /\ p.oracle_feed_heartbeat = o.oracle_feed_heartbeat
      /\ p.oracle_feed_updated_at = o.oracle_feed_updated_at
      /\ p.oracle_source_price_cap = o.oracle_source_price_cap
      /\ p.oracle_feed_latest_answer = o.oracle_feed_latest_answer
      /\ p.oracle_source_latest_answer = o.oracle_source_latest_answer
      /\ p.oracle_feed_decimals = o.oracle_feed_decimals
      /\ p.oracle_source_decimals = o.oracle_source_decimals
  BY <1>2 DEF OracleInputs
<1> QED
  BY <1>1, <1>3, <1>4, <1>5, <1>6 DEF Oracle

LEMMA SameLiquidity ==
  ASSUME NEW o, NEW p, NEW missing, Agree(o, p, missing), Liquidity(o, missing) # Unknown
  PROVE  /\ Liquidity(p, {}) = Liquidity(o, missing)
         /\ "variable_debt" \notin missing
<1>1. LiquidityInputs \cap missing = {}
  BY DEF Liquidity
<1>2. \A f \in LiquidityInputs : p[f] = o[f]
  BY <1>1 DEF Agree, Inputs
<1>3. /\ p.total_supplied = o.total_supplied /\ p.variable_debt = o.variable_debt
      /\ p.available_liquidity = o.available_liquidity
      /\ p.virtual_available_liquidity = o.virtual_available_liquidity
      /\ p.optimal_utilization = o.optimal_utilization
  BY <1>2 DEF LiquidityInputs
<1> QED
  BY <1>1, <1>3 DEF Liquidity, LiquidityInputs

LEMMA SameCollateral ==
  ASSUME NEW o, NEW p, NEW missing, Agree(o, p, missing), Collateral(o, missing) # Unknown
  PROVE  Collateral(p, {}) = Collateral(o, missing)
<1>1. CollateralInputs \cap missing = {}
  BY DEF Collateral
<1>2. p.ltv = o.ltv /\ p.liquidation_threshold = o.liquidation_threshold
      /\ p.liquidation_bonus = o.liquidation_bonus
  BY <1>1 DEF Agree, Inputs, CollateralInputs
<1> QED
  BY <1>1, <1>2 DEF Collateral

\* What is supplied counts only under a cap, and is read then.
LEMMA SameRestriction ==
  ASSUME NEW o, NEW p, NEW missing, Agree(o, p, missing), Restriction(o, missing) # Unknown,
         "variable_debt" \notin missing
  PROVE  Restriction(p, {}) = Restriction(o, missing)
<1>1. RestrictionInputs(o) \cap missing = {}
  BY DEF Restriction
<1>2. /\ p.reserve_active = o.reserve_active /\ p.reserve_paused = o.reserve_paused
      /\ p.reserve_frozen = o.reserve_frozen /\ p.borrowing_enabled = o.borrowing_enabled
      /\ p.supply_cap = o.supply_cap /\ p.borrow_cap = o.borrow_cap
  BY <1>1 DEF RestrictionInputs, Agree, Inputs
<1>3. p.variable_debt = o.variable_debt
  BY DEF Agree, Inputs, LiquidityInputs
<1>4. o.supply_cap # 0 => /\ "supply_cap_total_supplied" \notin missing
                          /\ p.supply_cap_total_supplied = o.supply_cap_total_supplied
  BY <1>1 DEF RestrictionInputs, Agree, Inputs
<1>5. o.supply_cap > 0 => o.supply_cap # 0
  OBVIOUS
<1> QED
  BY <1>1, <1>2, <1>3, <1>4, <1>5 DEF Restriction

\* A score depends on nothing that is missing, for that matters only to the factors, and
\* a factor that reads it would not be known.
LEMMA SameScore ==
  ASSUME NEW o, NEW p, NEW missing, Agree(o, p, missing), Assess(o, missing).score # NoScore
  PROVE  Assess(p, {}) = Assess(o, missing)
<1>1. Known(Factors(o, missing))
  BY DEF Assess, Raised
<1>2. /\ Oracle(o, missing) # Unknown /\ Liquidity(o, missing) # Unknown
      /\ Collateral(o, missing) # Unknown /\ Restriction(o, missing) # Unknown
  BY <1>1 DEF Known, Factors, Agree
<1>3. Factors(p, {}) = Factors(o, missing)
  <2>1. Oracle(p, {}) = Oracle(o, missing)
    BY <1>2, SameOracle
  <2>2. Liquidity(p, {}) = Liquidity(o, missing) /\ "variable_debt" \notin missing
    BY <1>2, SameLiquidity
  <2>3. Collateral(p, {}) = Collateral(o, missing)
    BY <1>2, SameCollateral
  <2>4. Restriction(p, {}) = Restriction(o, missing)
    BY <1>2, <2>2, SameRestriction
  <2>5. o.block_final = TRUE /\ p.block_final = TRUE
    BY DEF Agree
  <2> QED
    BY <2>1, <2>2, <2>3, <2>4, <2>5 DEF Factors
<1>4. /\ p.block_timestamp = o.block_timestamp /\ p.collected_at = o.collected_at
      /\ p.canonicality_checked_at = o.canonicality_checked_at
      /\ p.calculated_at = o.calculated_at
  BY DEF Agree
<1>5. ObservedAt(p) = ObservedAt(o)
  BY <1>4 DEF ObservedAt
<1> QED
  BY <1>3, <1>4, <1>5 DEF Assess

------------------------------------------------------------------------------
(* What a score is of. *)

\* The values the scorer is given.
Assessed ==
  [f \in Accepted(Observations) |-> Observations[f].value]
    @@ chain.times @@ ("block_final" :> TRUE)
Refusals == Inputs \ Accepted(Observations)

LEMMA AssessedFields ==
  ASSUME Complete
  PROVE  /\ \A f \in Accepted(Observations) :
              /\ f \in Inputs /\ Means(f, Assessed[f])
              /\ Assessed[f] = Observations[f].value
         /\ \A f \in DOMAIN chain.times : Assessed[f] = chain.times[f]
         /\ Assessed.block_final = TRUE
<1>1. DOMAIN chain.times =
        {"block_timestamp", "canonicality_checked_at", "collected_at", "calculated_at"}
  BY CollectorAssumption DEF Complete, Collected
<1>2. ASSUME NEW f \in Accepted(Observations)
      PROVE  /\ f \in Inputs /\ Means(f, Assessed[f])
             /\ Assessed[f] = Observations[f].value
  <2>1. f \in Inputs \cap DOMAIN Observations /\ Observations[f].state = "present"
    BY DEF Accepted
  <2>2. Means(f, Observations[f].value)
    BY <2>1, SaysObservations DEF Says
  <2>3. Assessed[f] = Observations[f].value
    BY DEF Assessed, @@
  <2> QED
    BY <2>1, <2>2, <2>3
<1>3. \A f \in DOMAIN chain.times \cup {"block_final"} : f \notin Accepted(Observations)
  <2>1. \A f \in DOMAIN chain.times \cup {"block_final"} : f \notin Inputs
    BY <1>1 DEF Inputs, OracleInputs, OracleAddresses, LiquidityInputs, CollateralInputs
  <2> QED
    BY <2>1, <1>2
<1>4. \A f \in DOMAIN chain.times : Assessed[f] = chain.times[f]
  BY <1>3 DEF Assessed, @@
<1>5. Assessed.block_final = TRUE
  BY <1>1, <1>3 DEF Assessed, @@, :>
<1> QED
  BY <1>2, <1>4, <1>5

LEMMA CollectedAssessment == AssessCollected(Observations) = Assess(Assessed, Refusals)
  BY DEF AssessCollected, Assessed, Refusals

\* A method of the oracle that was answered was answered by the contract asked.
LEMMA AnsweredBy ==
  ASSUME Complete, NEW c \in DOMAIN Methods, Got(c)
  PROVE  Contract(c) \in DOMAIN chain[Methods[c]] /\ answers[c] = chain[Methods[c]][Contract(c)]
<1>1. c \in DOMAIN answers /\ answers[c] # Failed
  BY DEF Got
<1>2. answers[c] = Returned(c)
  BY <1>1 DEF Complete, Collected, Reported
<1> QED
  BY <1>1, <1>2 DEF Returned

\* A known oracle factor means verified code at the source and at the feed it names.
LEMMA OracleVerified ==
  ASSUME Complete, Oracle(Assessed, Refusals) # Unknown
  PROVE  /\ OracleInputs \subseteq Accepted(Observations) /\ Identity(Assessed)
         /\ VerifiedAdapter /\ VerifiedProxy
         /\ Source = chain.oracle_source /\ Target = chain.upstream[Source]
         /\ chain.code[Source] = AdapterCode /\ chain.code[Target] = ProxyCode
<1>1. OracleInputs \cap Refusals = {} /\ Identity(Assessed)
  BY DEF Oracle
<1>2. OracleInputs \subseteq Accepted(Observations)
  BY <1>1 DEF Refusals, Inputs
<1>3. VerifiedAdapter
  <2>1. Means("oracle_source_interface", Assessed["oracle_source_interface"])
    BY <1>2, AssessedFields DEF OracleInputs
  <2> QED
    BY <1>1, <2>1 DEF Means, Identity
<1>4. VerifiedProxy /\ Matched
  <2>1. Means("oracle_feed_proxy_type", Assessed["oracle_feed_proxy_type"])
    BY <1>2, AssessedFields DEF OracleInputs
  <2> QED
    BY <2>1 DEF Means
<1>5. Address("oracle_upstream_feed")
  <2>1. Means("oracle_upstream_feed", Assessed["oracle_upstream_feed"])
    BY <1>2, AssessedFields DEF OracleInputs, OracleAddresses
  <2> QED
    BY <2>1 DEF Means
<1>6. Source = chain.oracle_source
  BY AllMade DEF Source, Required
<1>7. Target = chain.upstream[Source]
  <2>1. answers["oracle_upstream_feed"] = chain["upstream"][Source]
    BY <1>5, AnsweredBy DEF Address, Methods, Contract
  <2> QED
    BY <1>5, <2>1 DEF Target
<1>8. chain.code[Source] = AdapterCode
  BY <1>3, AnsweredBy DEF VerifiedAdapter, Methods, Contract
<1>9. chain.code[Target] = ProxyCode
  BY <1>4, AnsweredBy DEF VerifiedProxy, Methods, Contract
<1> QED
  BY <1>1, <1>2, <1>3, <1>4, <1>6, <1>7, <1>8, <1>9

\* Every value the scorer accepts is the block's own.
LEMMA AcceptedIsOfTheChain ==
  ASSUME Complete, Oracle(Assessed, Refusals) # Unknown
  PROVE  Agree(Assessed, OfTheChain, Refusals)
<1> DEFINE times == {"block_timestamp", "canonicality_checked_at", "collected_at",
                     "calculated_at"}
           caps == {"supply_cap", "borrow_cap"}
<1>1. /\ DOMAIN chain.times = times
      /\ DOMAIN chain.config = ConfigFields \cup {"decimals"}
      /\ DOMAIN chain.caps = caps
  BY CollectorAssumption DEF Complete, Collected, ConfigFields
<1>2. \A f \in ConfigFields : OfTheChain[f] = chain.config[f]
  BY <1>1 DEF OfTheChain, @@
<1>3. \A f \in caps : OfTheChain[f] = chain.caps[f]
  BY <1>1 DEF OfTheChain, @@, ConfigFields
<1>4. \A f \in times : OfTheChain[f] = chain.times[f]
  BY <1>1 DEF OfTheChain, @@, ConfigFields
<1>5. \A f \in DOMAIN StateOfTheChain : OfTheChain[f] = StateOfTheChain[f]
  <2>1. \A f \in DOMAIN StateOfTheChain : f \notin ConfigFields \cup {"decimals"} \cup caps \cup times
    BY DEF StateOfTheChain, ConfigFields
  <2> QED
    BY <1>1, <2>1 DEF OfTheChain, @@
<1>6. /\ Identity(Assessed) /\ VerifiedProxy
      /\ Source = chain.oracle_source /\ Target = chain.upstream[Source]
  BY OracleVerified
<1>7. ASSUME NEW f \in Accepted(Observations)
      PROVE  OfTheChain[f] = Assessed[f]
  <2>1. f \in Inputs /\ Means(f, Assessed[f])
    BY AssessedFields
  <2>2. CASE f \in ConfigFields
    BY <1>2, <2>1, <2>2 DEF Means
  <2>3. CASE f \in caps
    BY <1>3, <2>1, <2>3 DEF Means
  <2>4. CASE f \in ReserveFields
    <3>1. StateOfTheChain[f] = chain[f] /\ f \in DOMAIN StateOfTheChain
      BY <2>1, <2>4 DEF StateOfTheChain, ReserveFields, Inputs, OracleInputs, OracleAddresses,
                        LiquidityInputs, CollateralInputs
    <3> QED
      BY <1>5, <2>1, <2>4, <3>1 DEF Means
  <2>5. CASE f = "supply_cap_total_supplied"
    BY <1>5, <2>1, <2>5 DEF Means, StateOfTheChain
  <2>6. CASE f \in {"oracle_source_interface", "oracle_feed_proxy_type",
                    "oracle_feed_is_chainlink"}
    <3>1. Assessed["oracle_source_interface"] = Adapter
      BY <1>6 DEF Identity
    <3>2. /\ StateOfTheChain["oracle_source_interface"] = Adapter
          /\ StateOfTheChain["oracle_feed_proxy_type"] = ChainlinkProxy
          /\ f \in DOMAIN StateOfTheChain
      BY <2>6 DEF StateOfTheChain
    <3>3. StateOfTheChain["oracle_feed_is_chainlink"] = TRUE
      BY DEF StateOfTheChain
    <3>4. f = "oracle_feed_proxy_type" => Assessed[f] = ChainlinkProxy
      BY <2>1 DEF Means
    <3>5. f = "oracle_feed_is_chainlink" => Assessed[f] = TRUE
      BY Zenon, <2>1 DEF Means
    <3>6. OfTheChain[f] = StateOfTheChain[f]
      BY <1>5, <3>2
    <3> QED
      BY Zenon, <2>6, <3>1, <3>2, <3>3, <3>4, <3>5, <3>6
  <2>7. CASE f \in {"oracle_upstream_feed", "oracle_feed_proxy", "oracle_feed_heartbeat"}
    <3>1. Address("oracle_upstream_feed") => Target = answers["oracle_upstream_feed"]
      BY DEF Target
    <3> QED
      BY <1>5, <1>6, <2>1, <2>7, <3>1 DEF Means, StateOfTheChain
  <2>8. CASE f \in OracleFields
    <3>1. f \in DOMAIN Methods /\ Got(f) /\ Assessed[f] = chain[Methods[f]][Contract(f)]
      BY <2>1, <2>8, AnsweredBy DEF Means, Methods, OracleFields
    <3>2. chain[Methods[f]][Contract(f)] = StateOfTheChain[f] /\ f \in DOMAIN StateOfTheChain
      BY <1>6, <2>8 DEF Methods, Contract, OracleFields, StateOfTheChain
    <3> QED
      BY <1>5, <3>1, <3>2
  <2>9. CASE f \in {"oracle_feed_latest_answer", "oracle_feed_updated_at"}
    <3>1. Got("feed_round") => answers["feed_round"] = chain["round"][Target]
      BY AnsweredBy DEF Methods, Contract
    <3> QED
      BY <1>5, <1>6, <2>1, <2>9, <3>1 DEF Means, StateOfTheChain
  <2> QED
    BY <2>1, <2>2, <2>3, <2>4, <2>5, <2>6, <2>7, <2>8, <2>9
       DEF Inputs, OracleInputs, OracleAddresses, LiquidityInputs, CollateralInputs,
           ConfigFields, ReserveFields, OracleFields
<1>8. Inputs \ Refusals = Accepted(Observations)
  BY AssessedFields DEF Refusals
<1>9. \A f \in times : OfTheChain[f] = Assessed[f]
  BY <1>1, <1>4, AssessedFields
<1>10. OfTheChain.block_final = TRUE /\ Assessed.block_final = TRUE
  BY <1>5, AssessedFields DEF StateOfTheChain
<1> QED
  BY <1>7, <1>8, <1>9, <1>10 DEF Agree

------------------------------------------------------------------------------
(* The three properties of what is built. *)

\* A snapshot is built in one step, of answers that are complete, or was there.
LEMMA BuiltWhenComplete ==
  ASSUME Collected, [Next]_vars, Built'
  PROVE  \/ UNCHANGED vars
         \/ /\ Complete /\ UNCHANGED <<chain, late>>
            /\ snapshot'.assessment = Assess(Assessed, Refusals)
            /\ snapshot'.observations = Observations
<1>1. ASSUME NEW n, NEW v, Read(n, v)
      PROVE  FALSE
  BY <1>1 DEF Read, Built, Reading, Refused
<1>2. CASE Pin
  BY <1>2 DEF Pin, Built, Reading, Refused
<1>3. CASE Reorg
  BY <1>3 DEF Reorg, Built, Reading
<1>4. CASE Finish
  BY <1>4, CollectedAssessment DEF Finish, Complete, Built, Refused
<1>5. ASSUME NEW i \in DOMAIN Calls, Answer(Calls[i]) \/ Fail(Calls[i])
      PROVE  FALSE
  <2>1. PICK v : Read(Calls[i], v)
    BY <1>5 DEF Answer, Fail
  <2> QED
    BY <1>1, <2>1
<1> QED
  BY <1>2, <1>3, <1>4, <1>5 DEF Next

LEMMA ScoredMeans ==
  ASSUME Assess(Assessed, Refusals).score # NoScore
  PROVE  Oracle(Assessed, Refusals) # Unknown
<1>1. Known(Factors(Assessed, Refusals))
  BY DEF Assess, Raised
<1> QED
  BY <1>1 DEF Known, Factors

\* Whatever calls fail, wherever the later calls then go and whatever the contracts there
\* answer, a score that is issued is the score of the pinned block's own state.
THEOREM ScoresAreOfTheChain == Spec => []ScoreIsOfTheChain
<1>1. Init => ScoreIsOfTheChain
  BY DEF Init, ScoreIsOfTheChain, Scored, Built
<1>2. Collected /\ ScoreIsOfTheChain /\ [Next]_vars => ScoreIsOfTheChain'
  <2> SUFFICES ASSUME Collected, ScoreIsOfTheChain, [Next]_vars, Scored'
               PROVE  snapshot'.assessment.score = Assess(OfTheChain, {}).score'
    BY DEF ScoreIsOfTheChain
  <2>1. CASE UNCHANGED vars
    BY <2>1 DEF vars, ScoreIsOfTheChain, Scored, Built, OfTheChain, StateOfTheChain
  <2>2. CASE /\ Complete /\ UNCHANGED <<chain, late>>
             /\ snapshot'.assessment = Assess(Assessed, Refusals)
    <3>1. Assess(Assessed, Refusals).score # NoScore
      BY <2>2 DEF Scored
    <3>2. Agree(Assessed, OfTheChain, Refusals)
      BY <2>2, <3>1, ScoredMeans, AcceptedIsOfTheChain
    <3>3. Assess(OfTheChain, {}) = Assess(Assessed, Refusals)
      BY <3>1, <3>2, SameScore
    <3>4. OfTheChain' = OfTheChain
      BY <2>2 DEF OfTheChain, StateOfTheChain
    <3> QED
      BY <2>2, <3>3, <3>4
  <2> QED
    BY <2>1, <2>2, BuiltWhenComplete DEF Scored
<1> QED
  BY <1>1, <1>2, InitCollected, StepCollected, PTL DEF Spec

\* Though the block may be orphaned between any two calls, whatever is scored was read
\* while it was canonical: the code of the feed is read last, and without it no oracle
\* factor is known.
THEOREM OrphansAreNotScored == Spec => []NothingScoredOfAnOrphan
<1>1. Init => NothingScoredOfAnOrphan
  BY DEF Init, NothingScoredOfAnOrphan
<1>2. Collected /\ NothingScoredOfAnOrphan /\ [Next]_vars => NothingScoredOfAnOrphan'
  <2> SUFFICES ASSUME Collected, NothingScoredOfAnOrphan, [Next]_vars, Scored'
               PROVE  late' = {}
    BY DEF NothingScoredOfAnOrphan
  <2>1. CASE UNCHANGED vars
    BY <2>1 DEF vars, NothingScoredOfAnOrphan, Scored, Built
  <2>2. CASE /\ Complete /\ UNCHANGED <<chain, late>>
             /\ snapshot'.assessment = Assess(Assessed, Refusals)
    <3>1. VerifiedProxy
      BY <2>2, ScoredMeans, OracleVerified DEF Scored
    <3> QED
      BY <2>2, <3>1 DEF VerifiedProxy, Collected, Canonical
  <2> QED
    BY <2>1, <2>2, BuiltWhenComplete DEF Scored
<1> QED
  BY <1>1, <1>2, InitCollected, StepCollected, PTL DEF Spec

\* No metadata's word is taken for an oracle: a factor is known only if the code at the
\* pinned block, of the source and of the feed the source itself names, is the reviewed
\* code, and the feed that was read is that feed.
THEOREM OraclesAreVerifiedByCode == Spec => []OracleIsVerifiedByCode
<1>1. Init => OracleIsVerifiedByCode
  BY DEF Init, OracleIsVerifiedByCode, OracleKnown, Built
<1>2. Collected /\ OracleIsVerifiedByCode /\ [Next]_vars => OracleIsVerifiedByCode'
  <2> DEFINE verified(block, observations) ==
               LET source == block.oracle_source
               IN  /\ block.code[source] = AdapterCode
                   /\ block.code[block.upstream[source]] = ProxyCode
                   /\ observations["oracle_feed_proxy"].value = block.upstream[source]
  <2> SUFFICES ASSUME Collected, OracleIsVerifiedByCode, [Next]_vars, OracleKnown'
               PROVE  verified(chain', snapshot'.observations)
    BY DEF OracleIsVerifiedByCode
  <2>1. CASE UNCHANGED vars
    BY <2>1 DEF vars, OracleIsVerifiedByCode, OracleKnown, Built
  <2>2. CASE /\ Complete /\ UNCHANGED <<chain, late>>
             /\ snapshot'.assessment = Assess(Assessed, Refusals)
             /\ snapshot'.observations = Observations
    <3>1. /\ Assess(Assessed, Refusals).risk_level # "raised"
          /\ Assess(Assessed, Refusals).factors[1] # Unknown
      BY <2>2 DEF OracleKnown
    <3>2. Oracle(Assessed, Refusals) # Unknown
      <4>1. Assess(Assessed, Refusals).factors = Factors(Assessed, Refusals)
        BY <3>1 DEF Assess, Raised
      <4> QED
        BY <3>1, <4>1 DEF Factors
    <3>3. /\ OracleInputs \subseteq Accepted(Observations)
          /\ Source = chain.oracle_source /\ Target = chain.upstream[Source]
          /\ chain.code[Source] = AdapterCode /\ chain.code[Target] = ProxyCode
      BY <2>2, <3>2, OracleVerified
    <3>4. Observations["oracle_feed_proxy"].value = Target
      <4>1. /\ Means("oracle_feed_proxy", Assessed["oracle_feed_proxy"])
            /\ Assessed["oracle_feed_proxy"] = Observations["oracle_feed_proxy"].value
        BY <2>2, <3>3, AssessedFields DEF OracleInputs, OracleAddresses
      <4> QED
        BY <4>1 DEF Means
    <3> QED
      BY <2>2, <3>3, <3>4
  <2> QED
    BY <2>1, <2>2, BuiltWhenComplete DEF OracleKnown
<1> QED
  BY <1>1, <1>2, InitCollected, StepCollected, PTL DEF Spec
=============================================================================
