---------------------------- MODULE MCRiskCheck -----------------------------
(* RiskCheck for TLC: prices in tenths of a dollar, money in thousandths. *)
EXTENDS RiskCheck

MCCfg ==
  [base_risk_pct |-> 500, risk_max_per_trade_pct |-> 1000, min_risk_pct |-> 100,
   preferred_leverage |-> 3, risk_max_leverage |-> 5, risk_min_rr |-> 140,
   fee_taker |-> 55, one_dollar |-> 10, risk_max_open_positions |-> 2,
   max_correlated_positions |-> 1, sl_cooldown |-> TRUE, cooldown_losses |-> 3]

\* A stop a few ticks away, and the first target at 1.5 times the distance.
MCCandidates ==
  {[symbol |-> "A", side |-> side, score |-> score, action |-> action,
    btcBearish |-> against, underperforms |-> weak,
    entry |-> entry, sl |-> IF side = "LONG" THEN entry - d ELSE entry + d,
    tps |-> <<IF side = "LONG" THEN entry + (3 * d) \div 2 ELSE entry - (3 * d) \div 2>>,
    rr |-> (100 * ((3 * d) \div 2)) \div d] :
     side \in {"LONG", "SHORT"}, score \in {70, 90},
     action \in {"ALLOW_MARKET", "REDUCE_SIZE"}, against \in BOOLEAN,
     weak \in BOOLEAN, entry \in {7, 96, 1000, 1004, 1006},
     d \in {1, 2, 4, 7, 21}}

MCInfos ==
  {[tick |-> tick, lot |-> lot, minNotional |-> 1000, maxLeverage |-> lev] :
     tick \in {0, 3, 10}, lot \in {0, 1, 20}, lev \in {0, 2}}

MCAccounts ==
  {[equity |-> 100000, balance |-> 100000, available |-> free, usedMargin |-> 100000 - free,
    positions |-> {}, losses |-> 0, cooldown |-> FALSE, cooling |-> {}] :
     free \in {0, 9000, 100000}}
  \cup
  {[equity |-> 100000, balance |-> 100000, available |-> 100000, usedMargin |-> 0,
    positions |-> ps, losses |-> n, cooldown |-> FALSE, cooling |-> cool] :
     ps \in {{}, {[symbol |-> "B", side |-> "LONG", notional |-> 100]},
             {[symbol |-> "B", side |-> "SHORT", notional |-> 100],
              [symbol |-> "C", side |-> "SHORT", notional |-> 100]}},
     n \in {0, 3}, cool \in {{}, {"A"}}}

\* A sound answer, and each way a call or an answer can go wrong.
GoodReply ==
  [tries |-> <<"ok", "ok", "ok">>, key |-> TRUE, body |-> "answer", unwrapped |-> FALSE,
   complete |-> TRUE,
   action |-> "REJECT", exact |-> TRUE, multiplier |-> 100, confidence |-> 80,
   entryMode |-> "", cost |-> 1]

MCReplies ==
  {[GoodReply EXCEPT !.tries = tries, !.body = body, !.key = key,
                     !.unwrapped = unwrapped] :
     tries \in [1 .. 3 -> Attempts], body \in Bodies, key \in BOOLEAN, unwrapped \in BOOLEAN}
  \cup
  {[GoodReply EXCEPT !.complete = complete, !.action = action, !.exact = exact,
                     !.multiplier = multiplier, !.confidence = confidence, !.entryMode = entry] :
     complete \in BOOLEAN, action \in Actions \cup {"HOLD"}, exact \in BOOLEAN,
     multiplier \in {0, 50, 100, 150}, confidence \in {-1, 80, 101},
     entry \in {"", "market", "stop"}}
=============================================================================
