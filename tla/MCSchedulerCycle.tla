-------------------------- MODULE MCSchedulerCycle --------------------------
(* SchedulerCycle for TLC: three candidates, one above the score that skips  *)
(* the veto, one above the score that overrides the limits, one below both,  *)
(* and a position the broker restored.                                       *)
EXTENDS SchedulerCycle

CONSTANTS A, B, C, D

MCCfg ==
  [max_data_age |-> 60, block_spread |-> 150, min_candles |-> 50, daily_max_loss_pct |-> 3000,
   max_consecutive_losses |-> 3, cooldown_after_loss |-> 0, cooldown_after_win |-> 0,
   btc_crash |-> -4000, max_funding_abs |-> 100, min_score_llm |-> 58,
   min_score_skip_llm |-> 90, reduce_when_ranging |-> TRUE,
   max_leverage |-> 5, default_leverage |-> 3, margin_per_trade |-> 100,
   portfolio_margin_per_trade |-> 100, max_risk_per_trade_pct |-> 1000,
   stale_data_threshold |-> 60, max_spread |-> 15, max_daily_loss_pct |-> 3000,
   max_open_positions |-> 4, max_new_positions_per_cycle |-> 2, max_total_exposure |-> 1500,
   max_margin_used_pct |-> 50000, max_same_direction |-> 2, cooldown_losses |-> 1,
   sl_cooldown |-> TRUE, strategy_min_rr |-> 140, cost_multiplier |-> 3, min_notional |-> 10,
   base_risk_pct |-> 500, risk_max_per_trade_pct |-> 1000, min_risk_pct |-> 100,
   preferred_leverage |-> 3, risk_max_leverage |-> 5, risk_min_rr |-> 140, fee_taker |-> 55,
   one_dollar |-> 10, risk_max_open_positions |-> 2, max_correlated_positions |-> 1]

Offer(symbol, side, score, action) ==
  [symbol |-> symbol, side |-> side, score |-> score, action |-> action,
   btcBearish |-> FALSE, underperforms |-> FALSE, entry |-> 1000,
   sl |-> IF side = "LONG" THEN 980 ELSE 1020, tp |-> IF side = "LONG" THEN 1040 ELSE 960,
   tps |-> <<IF side = "LONG" THEN 1040 ELSE 960>>, rr |-> 200, move |-> 40, cost |-> 3,
   info |-> [tick |-> 1, lot |-> 1, minNotional |-> 100, maxLeverage |-> 100]]

MCOffers == {Offer(A, "LONG", 95, "ALLOW_MARKET"), Offer(B, "LONG", 88, "ALLOW_MARKET"),
             Offer(C, "SHORT", 70, "REDUCE_SIZE")}

GoodMarket ==
  [book |-> TRUE, price |-> 1000, spread |-> 2, slippage |-> 2, depth |-> 5, stale |-> FALSE,
   age |-> 1, healthy |-> TRUE, candles |-> 100, dataAge |-> 1]
\* A spread the hard blocks refuse.
MCMarkets == {GoodMarket, [GoodMarket EXCEPT !.spread = 200]}

MCAccount == [equity |-> 10000, balance |-> 10000, available |-> 10000, usedMargin |-> 0,
              dailyLoss |-> 0]

\* A position of a fourth symbol, restored by the broker.
MCRestored == {[symbol |-> D, side |-> "SHORT", size |-> 1, notional |-> 100]}

Reply ==
  [tries |-> <<"ok", "ok", "ok">>, key |-> TRUE, body |-> "answer", decision |-> "ALLOW_MARKET",
   confidence |-> 80, multiplier |-> 100, cost |-> 2]
MCVetoReplies ==
  {Reply, [Reply EXCEPT !.tries = <<"5xx", "error", "error">>, !.cost = 0],
   [Reply EXCEPT !.tries = <<"error", "cancelled", "cancelled">>]}

ReviewReply ==
  [tries |-> <<"ok", "ok", "ok">>, key |-> TRUE, body |-> "answer", unwrapped |-> FALSE,
   complete |-> TRUE,
   action |-> "APPROVE", exact |-> TRUE, multiplier |-> 100, confidence |-> 80,
   entryMode |-> "", cost |-> 0]
MCReviewReplies == {ReviewReply, [ReviewReply EXCEPT !.action = "REJECT"]}
=============================================================================
