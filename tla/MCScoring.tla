------------------------------- MODULE MCScoring -------------------------------
(* Four snapshots around the kink, the thresholds and the deadlines; each may change
   in up to MaxChanges fields. *)
EXTENDS Scoring

Calm ==
  [aave_price_oracle |-> "oracle", oracle_source |-> "adapter",
   oracle_upstream_feed |-> "feed", oracle_feed_proxy |-> "feed",
   oracle_feed_aggregator |-> "aggregator", oracle_source_interface |-> Adapter,
   oracle_feed_proxy_type |-> ChainlinkProxy, oracle_feed_is_chainlink |-> TRUE,
   oracle_feed_decimals |-> 1, oracle_source_decimals |-> 0,
   oracle_feed_latest_answer |-> 10, oracle_source_latest_answer |-> 1,
   oracle_source_price_cap |-> 2, oracle_feed_updated_at |-> 3,
   oracle_feed_heartbeat |-> 3,
   total_supplied |-> 8, variable_debt |-> 4, available_liquidity |-> 4,
   virtual_available_liquidity |-> 4, optimal_utilization |-> 3,
   ltv |-> 1, liquidation_threshold |-> 2, liquidation_bonus |-> 5,
   reserve_active |-> TRUE, reserve_paused |-> FALSE, reserve_frozen |-> FALSE,
   borrowing_enabled |-> TRUE, supply_cap |-> 0, borrow_cap |-> 0,
   supply_cap_total_supplied |-> 8,
   block_timestamp |-> 6, block_final |-> TRUE, canonicality_checked_at |-> 6,
   collected_at |-> 6, calculated_at |-> 7]

TheSnapshots ==
  {Calm,
   [Calm EXCEPT !.variable_debt = 9, !.supply_cap = 9, !.borrow_cap = 10],
   [Calm EXCEPT !.optimal_utilization = 1, !.oracle_feed_updated_at = 2,
                !.variable_debt = 1, !.available_liquidity = 7],
   [Calm EXCEPT !.ltv = 2, !.reserve_frozen = TRUE, !.available_liquidity = 1]}

TheValues ==
  [oracle_feed_proxy |-> {"other", ZeroAddress}, oracle_source_interface |-> {"other"},
   oracle_feed_latest_answer |-> {0, 1, 10, 20}, oracle_source_latest_answer |-> {0, 1, 2},
   oracle_feed_updated_at |-> {0, 1, 2, 7}, oracle_feed_heartbeat |-> {0, 1, 2},
   total_supplied |-> {0, 4, 9}, variable_debt |-> {0, 1, 2, 7, 12},
   available_liquidity |-> {0, 1, 7}, virtual_available_liquidity |-> {0, 1, 7},
   optimal_utilization |-> {1, 2, 4}, ltv |-> {0, 2, 3}, liquidation_threshold |-> {0, 3},
   liquidation_bonus |-> {0, 4, 8}, reserve_active |-> {FALSE}, reserve_paused |-> {TRUE},
   reserve_frozen |-> {TRUE, FALSE}, borrowing_enabled |-> {FALSE},
   supply_cap |-> {0, 7, 9}, borrow_cap |-> {0, 4, 12}, supply_cap_total_supplied |-> {0, 9},
   block_timestamp |-> {3, 5}, block_final |-> {FALSE}, canonicality_checked_at |-> {5, 8},
   collected_at |-> {4, 5, 8}, calculated_at |-> {6, 8, 10}]
=============================================================================
