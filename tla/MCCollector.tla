------------------------------ MODULE MCCollector ------------------------------
(* States of the pinned block: the deployed arrangement, and one that departs from it in
   each thing the collector looks at. *)
EXTENDS Collector

Deployed ==
  [times |-> [block_timestamp |-> 6, canonicality_checked_at |-> 6,
              collected_at |-> 7, calculated_at |-> 7],
   config |-> [decimals |-> 6, ltv |-> 1, liquidation_threshold |-> 2, liquidation_bonus |-> 5,
               borrowing_enabled |-> TRUE, reserve_active |-> TRUE, reserve_frozen |-> FALSE],
   caps |-> [supply_cap |-> 10, borrow_cap |-> 0],
   debt_ceiling |-> 0, debt_ceiling_decimals |-> 2, reserve_paused |-> FALSE,
   reserve |-> [a_token |-> "a", variable_debt_token |-> "v", treasury |-> 1, id |-> 4],
   total_supplied |-> 9, variable_debt |-> 5, available_liquidity |-> 4,
   virtual_available_liquidity |-> 5, scaled_total_supplied |-> 7, liquidity_index |-> 5,
   interest_rate_strategy |-> "strategy", optimal_utilization |-> 3,
   emodes |-> [valid |-> TRUE, member |-> FALSE], emode_isolated |-> FALSE,
   aave_price_oracle |-> "oracle", oracle_source |-> "adapter",
   upstream |-> ("adapter" :> "feed"), aggregator |-> ("feed" :> "aggregator"),
   version |-> ("aggregator" :> "version"),
   code |-> ("adapter" :> AdapterCode) @@ ("feed" :> ProxyCode) @@ ("other" :> ProxyCode),
   decimals |-> [c \in {"adapter", "feed", "other"} |-> 1],
   round |-> [c \in {"feed", "other"} |-> [answer |-> 10, updated |-> 3]],
   answer |-> [c \in {"adapter", "feed"} |-> 10], cap |-> ("adapter" :> 11)]

TheChains ==
  {Deployed,
   [Deployed EXCEPT !.caps.supply_cap = 0, !.caps.borrow_cap = 5, !.emodes.member = TRUE],
   [Deployed EXCEPT !.oracle_source = "feed"],
   [Deployed EXCEPT !.oracle_source = ZeroAddress],
   [Deployed EXCEPT !.upstream["adapter"] = "other", !.aggregator = "other" :> "aggregator"],
   [Deployed EXCEPT !.upstream["adapter"] = ZeroAddress,
                    !.round = @ @@ ("adapter" :> [answer |-> 10, updated |-> 6])],
   [Deployed EXCEPT !.code["adapter"] = "upgraded"],
   [Deployed EXCEPT !.code["feed"] = "upgraded"],
   [Deployed EXCEPT !.decimals["feed"] = 0],
   [Deployed EXCEPT !.round["feed"].updated = 0, !.liquidity_index = 3],
   [Deployed EXCEPT !.interest_rate_strategy = ZeroAddress, !.variable_debt = 0,
                    !.virtual_available_liquidity = 0],
   [Deployed EXCEPT !.round["feed"].answer = 12, !.answer["adapter"] = 11,
                    !.config.reserve_frozen = TRUE],
   [Deployed EXCEPT !.times.calculated_at = 6],
   [Deployed EXCEPT !.times.canonicality_checked_at = 5],
   [Deployed EXCEPT !.config.decimals = 18],
   [Deployed EXCEPT !.debt_ceiling_decimals = 256],
   [Deployed EXCEPT !.reserve.a_token = ZeroAddress],
   [Deployed EXCEPT !.reserve.id = 128],
   [Deployed EXCEPT !.emodes.valid = FALSE],
   [Deployed EXCEPT !.aave_price_oracle = ZeroAddress]}

TheRegistry == "feed" :> [decimals |-> 1, heartbeat |-> 3]
=============================================================================
