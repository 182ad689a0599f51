----------------------------- MODULE RiskEngine -----------------------------
(***************************************************************************)
(* What decides whether a candidate may trade, and how much: the hard      *)
(* blocks (internal/risk/hard_blocks.go, block_evaluator.go), the risk     *)
(* engine's two validations (internal/risk/engine.go), the checks before   *)
(* the order (internal/execution/safety.go) and the routing of a candidate *)
(* to the language model (internal/routing/routing.go).                    *)
(*                                                                         *)
(* All of it is arithmetic without state, so it is a module of operators.  *)
(* Floats are integers here: prices in ticks of the finest price, money    *)
(* and quantities in fixed fractions, percentages in 1/1000 of a percent,  *)
(* fees in tenths of a basis point. A value that is NaN or infinite is     *)
(* NotANumber. What depends on the clock is already compared with it: an   *)
(* age is a number, a cooldown runs or does not.                           *)
(***************************************************************************)
EXTENDS Integers, FiniteSets, Sequences, SequencesExt, FiniteSetsExt

CONSTANTS Cfg,  \* app.UserConfig: the thresholds, by their yaml names
          Btc   \* the symbol BTCUSDT

NotANumber == -1000000

\* The names of the conditions that hold: how every check collects reasons.
Hits(conditions) == {c \in DOMAIN conditions : conditions[c]}

\* The first condition of a chain of early returns that holds, or "".
FirstHit(chain) ==
  LET hit == {n \in DOMAIN chain : chain[n][2]}
  IN  IF hit = {} THEN "" ELSE chain[Min(hit)][1]

FinitePositive(v) == v > 0
FiniteNonNegative(v) == v >= 0

-----------------------------------------------------------------------------
\* The hard blocks. A threshold of zero (or less) switches most of them off.

BlockIfStaleData(in) ==
  Cfg.max_data_age > 0 /\ (in.age = NotANumber \/ in.age > Cfg.max_data_age)

BlockIfSpreadTooWide(in) ==
  Cfg.block_spread > 0 /\ in.spread > Cfg.block_spread

BlockIfInsufficientCandles(in) ==
  Cfg.min_candles > 0 /\ in.candles < Cfg.min_candles

BlockIfDuplicateOrder(in) ==
  \E o \in in.orders : o.symbol = in.symbol /\ o.status = "PENDING"

BlockIfPositionAlreadyOpen(in) == \E p \in in.positions : p.symbol = in.symbol

\* The day's result against a share of the equity.
BlockIfDailyLossReached(in) ==
  /\ Cfg.daily_max_loss_pct > 0
  /\ \/ in.equity <= 0
     \/ in.pnl < 0 /\ -in.pnl * 100000 >= in.equity * Cfg.daily_max_loss_pct

\* The losses at the end of the trades handed in, newest last.
TrailingLosses(results) ==
  Max({n \in 0 .. Len(results) :
         \A i \in Len(results) - n + 1 .. Len(results) : results[i] < 0})

BlockIfConsecutiveLossLimit(in) ==
  /\ Cfg.max_consecutive_losses > 0
  /\ TrailingLosses(in.recent) >= Cfg.max_consecutive_losses

\* `since' is the time since the last trade, NotANumber when there is none.
BlockIfCooldownActive(in) ==
  LET cooldown == IF in.lastWasLoss THEN Cfg.cooldown_after_loss
                                    ELSE Cfg.cooldown_after_win
  IN  /\ Cfg.cooldown_after_loss > 0 \/ Cfg.cooldown_after_win > 0
      /\ in.since # NotANumber /\ cooldown > 0 /\ in.since < cooldown

\* A negative threshold looks for a crash, a positive one for a spike.
BlockIfBTCFlashCrash(in) ==
  \/ Cfg.btc_crash < 0 /\ in.btcReturn <= Cfg.btc_crash
  \/ Cfg.btc_crash > 0 /\ in.btcReturn >= Cfg.btc_crash

BlockIfPositionMismatch(in) ==
  LET Normal(ps) == {[symbol |-> p.symbol, side |-> p.side, size |-> p.size] : p \in ps}
  IN  Normal(in.local) # Normal(in.exchange)

BlockIfSymbolInSLCooldown(in) == in.symbol \in in.cooling

EvaluateHardBlocks(in) == Hits(
  [BlockIfPriceInvalid        |-> ~FinitePositive(in.price),
   BlockIfNaNOrInf            |-> NotANumber \in {in.price, in.spread, in.funding},
   BlockIfStaleData           |-> BlockIfStaleData(in),
   BlockIfInsufficientCandles |-> BlockIfInsufficientCandles(in),
   BlockIfSpreadTooWide       |-> BlockIfSpreadTooWide(in),
   BlockIfFundingExtreme      |-> /\ Cfg.max_funding_abs > 0
                                  /\ \/ in.funding > Cfg.max_funding_abs
                                     \/ -in.funding > Cfg.max_funding_abs,
   BlockIfDuplicateOrder      |-> BlockIfDuplicateOrder(in),
   BlockIfPositionAlreadyOpen |-> BlockIfPositionAlreadyOpen(in),
   BlockIfDailyLossReached    |-> BlockIfDailyLossReached(in),
   BlockIfConsecutiveLossLimit |-> BlockIfConsecutiveLossLimit(in),
   BlockIfCooldownActive      |-> BlockIfCooldownActive(in),
   BlockIfEmergencyStopActive |-> in.halted,
   BlockIfBTCFlashCrash       |-> BlockIfBTCFlashCrash(in),
   BlockIfPositionMismatch    |-> BlockIfPositionMismatch(in),
   BlockIfSymbolInSLCooldown  |-> BlockIfSymbolInSLCooldown(in)])

-----------------------------------------------------------------------------
\* Routing. 0 calls per cycle means no limit.

RouteCandidate(score, callsThisCycle, maxCalls, ranging, btcStale) ==
  LET callLeft == maxCalls <= 0 \/ callsThisCycle < maxCalls
  IN  CASE score = NotANumber \/ score < Cfg.min_score_llm -> "REJECT_PRE_LLM"
        [] ~(ranging \/ btcStale) /\ score >= Cfg.min_score_skip_llm
             /\ score >= Cfg.min_score_llm                 -> "SKIP_LLM_HIGH_SCORE"
        [] OTHER -> IF callLeft THEN "LLM_VETO_REQUIRED" ELSE "REJECT_PRE_LLM"

ComputeReduceNewPositions(maxNew, reduceBy, ranging) ==
  IF ranging /\ Cfg.reduce_when_ranging THEN Max({maxNew - reduceBy, 1}) ELSE maxNew

-----------------------------------------------------------------------------
\* The first validation. `t' is the proposed trade, `d' the model's decision,
\* `m' the market, `b' the books: the account and the open positions.

Leverage == IF Cfg.max_leverage > 0 THEN Cfg.max_leverage ELSE Cfg.default_leverage

MarginPerTrade == IF Cfg.margin_per_trade > 0 THEN Cfg.margin_per_trade
                                              ELSE Cfg.portfolio_margin_per_trade

Distance(a, b) == IF a >= b THEN a - b ELSE b - a

\* The smaller of what the margin buys and what the risk allows at this stop.
computeBaseNotional(t, b) ==
  LET byMargin == MarginPerTrade * Leverage
      distance == Distance(t.entry, t.sl)
  IN  IF ~FinitePositive(t.entry) \/ ~FinitePositive(t.sl) \/ byMargin <= 0 THEN 0
      ELSE IF distance = 0 THEN byMargin
      ELSE Min({byMargin, (((b.equity * Cfg.max_risk_per_trade_pct) \div 1000)
                             * t.entry) \div (distance * 100)})

InputError(t, m, b) == FirstHit(<<
  <<"INVALID_EQUITY", ~FinitePositive(b.equity)>>,
  <<"INVALID_ENTRY", ~FinitePositive(t.entry)>>,
  <<"SL_MISSING", ~FinitePositive(t.sl)>>,
  <<"INVALID_SETUP_SCORE", ~FiniteNonNegative(t.score)>>,
  <<"INVALID_EXPECTED_MOVE", ~FiniteNonNegative(t.move)>>,
  <<"INVALID_ESTIMATED_COST", ~FiniteNonNegative(t.cost)>>,
  <<"INVALID_SPREAD", ~FiniteNonNegative(m.spread)>>,
  <<"INVALID_SLIPPAGE", ~FiniteNonNegative(m.slippage)>>,
  <<"INVALID_DEPTH", ~FiniteNonNegative(m.depth)>>,
  <<"INVALID_MARKET_PRICE", ~FinitePositive(m.price)>> >>)

LLMDecisions == {"ALLOW_MARKET", "ALLOW_LIMIT_RETEST", "REDUCE_SIZE", "BLOCK"}
Multipliers == {0, 25, 50, 75, 100}

DecisionReasons(d) == Hits(
  [INVALID_LLM_DECISION |-> d.decision \notin LLMDecisions,
   LLM_DECISION_BLOCK   |-> d.decision = "BLOCK",
   LLM_LOW_CONFIDENCE   |-> d.confidence < 75,
   INVALID_SIZE_MULTIPLIER |-> d.decision = "REDUCE_SIZE" /\ d.multiplier \notin Multipliers])

MarketReasons(m) == Hits(
  [MARKET_DATA_STALE  |-> m.stale \/ m.age > Cfg.stale_data_threshold,
   SPREAD_TOO_WIDE    |-> m.spread > Cfg.max_spread,
   SLIPPAGE_TOO_HIGH  |-> m.slippage >= 1000,
   INSUFFICIENT_DEPTH |-> m.depth <= 0])

\* A confidence of 85 percent overrides the two limits on open positions.
PortfolioReasons(t, d, b) ==
  LET convinced == d.confidence >= 85
      exposure == MapThenSumSet(LAMBDA p : p.notional, b.positions)
  IN  Hits(
  [DAILY_LOSS_BREACHED |-> Cfg.max_daily_loss_pct > 0
                           /\ b.dailyLoss * 100000 >= b.equity * Cfg.max_daily_loss_pct,
   MAX_OPEN_POSITIONS  |-> /\ Cardinality(b.positions) >= Cfg.max_open_positions
                           /\ ~convinced,
   MAX_NEW_POSITIONS_PER_CYCLE |-> b.executed >= Cfg.max_new_positions_per_cycle,
   MAX_TOTAL_EXPOSURE  |-> /\ exposure + computeBaseNotional(t, b) > Cfg.max_total_exposure
                           /\ ~convinced,
   MAX_MARGIN_USED     |-> Cfg.max_margin_used_pct > 0
                           /\ b.usedMargin * 100000 > b.equity * Cfg.max_margin_used_pct,
   DUPLICATE_SYMBOL    |-> \E p \in b.positions : p.symbol = t.symbol,
   TOO_MANY_SAME_DIRECTION |->
      Cardinality({p \in b.positions : p.side = t.side}) >= Cfg.max_same_direction,
   IN_COOLDOWN         |-> b.cooldown,
   CONSECUTIVE_LOSSES_COOLDOWN |->
      Cfg.cooldown_losses > 0 /\ b.losses >= Cfg.cooldown_losses,
   SYMBOL_SL_COOLDOWN  |-> Cfg.sl_cooldown /\ t.symbol \in b.cooling])

\* A stop, or a target, on the side of the entry where it belongs.
StopSide(side, entry, sl) == IF side = "LONG" THEN sl < entry ELSE sl > entry
TargetSide(side, entry, tp) == IF side = "LONG" THEN tp > entry ELSE tp < entry

LevelReasons(t) == Hits(
  [SL_WRONG_SIDE |-> ~StopSide(t.side, t.entry, t.sl),
   TP_WRONG_SIDE |-> t.tp > 0 /\ ~TargetSide(t.side, t.entry, t.tp),
   TP_SL_TOO_CLOSE |-> t.tp > 0 /\ Distance(t.tp, t.sl) < 1,
   INVALID_RR   |-> t.rr <= 0,
   RR_BELOW_MIN |-> t.rr > 0 /\ t.rr < Cfg.strategy_min_rr,
   EXPECTED_MOVE_TOO_SMALL |-> t.move > 0 /\ t.cost > 0
                               /\ t.move <= Cfg.cost_multiplier * t.cost,
   BELOW_MIN_NOTIONAL |-> MarginPerTrade * Leverage < Cfg.min_notional,
   LEVERAGE_EXCEEDS_MAX |-> Leverage > 100,
   INVALID_LEVERAGE |-> Leverage <= 0])

\* BotState is never marked halted by the callers, so BOT_HALTED cannot occur.
ValidateReasons(t, d, m, b) ==
  LET error == InputError(t, m, b)
  IN  IF error # "" THEN {error}
      ELSE UNION {DecisionReasons(d), MarketReasons(m), PortfolioReasons(t, d, b),
                  LevelReasons(t)}

\* FinalPositionNotional: REDUCE_SIZE with a multiplier of 0 leaves it alone.
FinalNotional(t, d, b) ==
  IF d.decision = "REDUCE_SIZE" /\ d.multiplier > 0
  THEN (computeBaseNotional(t, b) * d.multiplier) \div 100
  ELSE computeBaseNotional(t, b)

-----------------------------------------------------------------------------
\* The second validation: sizing with fees, then the plan's own checks. `c' is
\* the trade candidate with its score and regime, `i' the symbol's info.

RiskPct(c) ==
  LET base == Min({Cfg.base_risk_pct, Cfg.risk_max_per_trade_pct})
      afterScore == IF c.action = "REDUCE_SIZE" THEN base \div 2 ELSE base
      afterBtc == IF c.side = "LONG" /\ c.btcBearish
                  THEN (afterScore * 7) \div 10 ELSE afterScore
  IN  IF c.side = "LONG" /\ c.underperforms THEN (afterBtc * 6) \div 10 ELSE afterBtc

PlanLeverage(i) ==
  LET wanted == Min({Cfg.preferred_leverage, Cfg.risk_max_leverage})
  IN  IF i.maxLeverage > 0 THEN Min({wanted, i.maxLeverage}) ELSE wanted

\* math.Round(x / step) * step for x = num / den, to the nearest step.
RoundTo(num, den, step) == ((2 * num + den * step) \div (2 * den * step)) * step

roundToTickSize(price, i) == IF i.tick <= 0 THEN price ELSE RoundTo(price, 1, i.tick)

\* The risk of one unit between entry and stop, fees of both fills included,
\* in 1/100000 of the price unit; and the quantity that risks `pct'.
UnitRiskWithoutFees(entry, sl) == Distance(entry, sl) * 100000

UnitRisk(entry, sl) == Distance(entry, sl) * 100000 + 2 * entry * Cfg.fee_taker

LotQty(pct, entry, sl, i, b) ==
  IF i.lot <= 0 THEN (b.equity * pct) \div UnitRisk(entry, sl)
                ELSE RoundTo(b.equity * pct, UnitRisk(entry, sl), i.lot)

\* The smallest stop distance, in tenths of a percent, by the price's size.
MinStopPct(price) ==
  CASE price < Cfg.one_dollar       -> 15
    [] price \in Cfg.one_dollar .. 10 * Cfg.one_dollar - 1 -> 10
    [] price \in 10 * Cfg.one_dollar .. 100 * Cfg.one_dollar - 1 -> 5
    [] OTHER -> 3

\* 95 percent of what is available has to carry the margin, when that is known.
MarginExceedsAvailable(value, b, i) ==
  LET available == IF b.available > 0 THEN b.available ELSE b.balance - b.usedMargin
  IN  available > 0 /\ value * 100 > available * 95 * PlanLeverage(i)

\* What the first sizing, with the prices as proposed, is checked for.
ProposedReasons(c, i, b, qty) ==
  LET value == qty * c.entry IN Hits(
  [SL_WRONG_SIDE |-> ~StopSide(c.side, c.entry, c.sl),
   TP_WRONG_SIDE |-> \E n \in 1 .. Len(c.tps) : ~TargetSide(c.side, c.entry, c.tps[n]),
   INVALID_RR    |-> c.tps # <<>> /\ c.rr <= 0,
   RR_BELOW_MIN  |-> c.tps # <<>> /\ c.rr > 0 /\ c.rr < Cfg.risk_min_rr,
   TP_SL_TOO_CLOSE |-> c.tps # <<>> /\ Distance(c.tps[1], c.sl) < Max({i.tick, 1}),
   MARGIN_EXCEEDS_AVAILABLE |-> MarginExceedsAvailable(value, b, i),
   INVALID_QTY   |-> qty <= 0 \/ (i.lot > 0 /\ qty < i.lot),
   BELOW_MIN_NOTIONAL |-> i.minNotional > 0 /\ value < i.minNotional])

RoundedReasonsDistanceOnly(c, entry, sl) == Hits(
  [SL_TOO_CLOSE_AFTER_ROUNDING |->
      entry > 0 /\ entry # sl /\ Distance(entry, sl) * 1000 < MinStopPct(entry) * entry])

RoundedReasonsSideOnly(c, entry, sl) == Hits(
  [SL_EQUALS_ENTRY_AFTER_ROUNDING |-> ~StopSide(c.side, entry, sl)])

RoundedReasons(c, entry, sl) == Hits(
  [SL_EQUALS_ENTRY_AFTER_ROUNDING |-> ~StopSide(c.side, entry, sl),
   SL_TOO_CLOSE_AFTER_ROUNDING |->
      entry > 0 /\ Distance(entry, sl) * 1000 < MinStopPct(entry) * entry])

\* A score of 85 overrides the limits on open and on correlated positions.
BookReasons(c, b) == Hits(
  [MAX_OPEN_POSITIONS |-> /\ Cardinality(b.positions) >= Cfg.risk_max_open_positions
                          /\ c.score < 85,
   MAX_CORRELATED_ALT_POSITIONS |->
      /\ c.side = "LONG" /\ c.symbol # Btc /\ c.score < 85
      /\ Cardinality({p \in b.positions : p.side = "LONG" /\ p.symbol # Btc})
           >= Cfg.max_correlated_positions,
   SYMBOL_SL_COOLDOWN |-> Cfg.sl_cooldown /\ c.symbol \in b.cooling,
   CONSECUTIVE_LOSSES_COOLDOWN |->
      Cfg.cooldown_losses > 0 /\ b.losses >= Cfg.cooldown_losses,
   IN_COOLDOWN |-> b.cooldown])

\* The plan is built from the rounded prices and sized again from them.
OrderPlan(c, i, b) ==
  LET entry == roundToTickSize(c.entry, i)
      sl == roundToTickSize(c.sl, i)
      qty == IF entry = sl THEN LotQty(RiskPct(c), c.entry, c.sl, i, b)
                           ELSE LotQty(RiskPct(c), entry, sl, i, b)
  IN  [symbol |-> c.symbol, side |-> c.side, qty |-> qty, entry |-> entry, sl |-> sl,
       tps |-> [n \in 1 .. Len(c.tps) |-> roundToTickSize(c.tps[n], i)],
       leverage |-> PlanLeverage(i)]

CandidateReasons(c, i, b) ==
  LET early == FirstHit(<<
        <<"INVALID_EQUITY", ~FinitePositive(b.equity)>>,
        <<"INVALID_ENTRY", ~FinitePositive(c.entry)>>,
        <<"SL_MISSING", ~FinitePositive(c.sl)>>,
        <<"RISK_TOO_SMALL", RiskPct(c) < Cfg.min_risk_pct>>,
        <<"invalid_risk_distance", c.entry = c.sl>> >>)
  IN  IF early # "" THEN {early}
      ELSE UNION {ProposedReasons(c, i, b, LotQty(RiskPct(c), c.entry, c.sl, i, b)),
                  RoundedReasons(c, roundToTickSize(c.entry, i), roundToTickSize(c.sl, i)),
                  BookReasons(c, b)}

ValidateCandidate(c, i, b) ==
  LET reasons == CandidateReasons(c, i, b)
  IN  [approved |-> reasons = {}, reasons |-> reasons,
       plan |-> IF reasons = {} THEN OrderPlan(c, i, b) ELSE [symbol |-> c.symbol]]

-----------------------------------------------------------------------------
\* The checks before the order. Nothing sets the emergency stop or feeds the
\* price history of the flash-crash breaker, so these two are always safe.

DuplicateOrderGuard(plan, orders, positions) ==
  \/ \E o \in orders : o.symbol = plan.symbol /\ o.side = plan.side /\ o.age < 60
  \/ \E p \in positions : p.symbol = plan.symbol /\ p.side = plan.side

EvaluateExecutionSafety(plan, m, b) == Hits(
  [SpreadGuard   |-> m.spread > Cfg.block_spread,
   SlippageGuard |-> m.slippage > 100,
   DuplicateOrderGuard |-> DuplicateOrderGuard(plan, b.orders, b.positions),
   ExchangeHealthCheck |-> ~m.healthy])
=============================================================================
