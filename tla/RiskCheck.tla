----------------------------- MODULE RiskCheck ------------------------------
(***************************************************************************)
(* Two decisions asked one question at a time: the risk engine's second    *)
(* validation, on any candidate, symbol and account of the instance, and   *)
(* the reviewer, in any mode, on any reply. What an approved plan has to   *)
(* be is computed here without the operators that built it.                *)
(***************************************************************************)
EXTENDS RiskEngine, LLMAdvice

CONSTANTS Candidates, \* the trade candidates asked about
          Infos,      \* the symbols' infos
          Accounts,   \* the accounts, each with its open positions
          Modes,      \* the reviewer's modes asked about
          Replies     \* what a call to the reviewer's model may meet

\* Prices, steps and money are whole numbers of their units, thresholds are not
\* negative, and a reply is what the network and the model produce.
ASSUME DecisionAssumption ==
  /\ {Cfg.base_risk_pct, Cfg.risk_max_per_trade_pct, Cfg.fee_taker, Cfg.risk_min_rr,
      Cfg.preferred_leverage, Cfg.risk_max_leverage} \subseteq Nat
  /\ \A c \in Candidates :
       /\ c.side \in {"LONG", "SHORT"} /\ {c.entry, c.sl, c.rr} \subseteq Int
       /\ c.tps \in Seq(Int)
  /\ \A i \in Infos : i.tick \in Int /\ i.lot \in Nat /\ i.maxLeverage \in Int
  /\ \A b \in Accounts : b.equity \in Int /\ b.available \in Int
  /\ \A r \in Replies :
       /\ r.tries \in [1 .. 3 -> Attempts] /\ r.body \in Bodies
       /\ {r.key, r.unwrapped, r.complete, r.exact} \subseteq BOOLEAN
       /\ {r.multiplier, r.confidence} \subseteq Int

VARIABLES question, answer
vars == <<question, answer>>

None == [kind |-> "none"]

Init ==
  /\ question = None
  /\ answer = None

AskCandidate ==
  /\ question = None
  /\ \E c \in Candidates, i \in Infos, b \in Accounts :
       question' = [kind |-> "candidate", c |-> c, i |-> i, b |-> b]
  /\ UNCHANGED answer

\* The day's cost so far is nothing, or has reached the cap.
AskReview ==
  /\ question = None
  /\ \E mode \in Modes, spent \in {0, ReviewCap}, reply \in Replies :
       question' = [kind |-> "review", mode |-> mode, spent |-> spent, reply |-> reply]
  /\ UNCHANGED answer

AnswerCandidate ==
  /\ question.kind = "candidate" /\ answer = None
  /\ answer' = [kind |-> "plan",
                result |-> ValidateCandidate(question.c, question.i, question.b)]
  /\ UNCHANGED question

AnswerReview ==
  /\ question.kind = "review" /\ answer = None
  /\ answer' = [kind |-> "action",
                action |-> Review(question.mode, question.spent, question.reply)]
  /\ UNCHANGED question

Next == AskCandidate \/ AskReview \/ AnswerCandidate \/ AnswerReview
Spec == Init /\ [][Next]_vars

Approved == answer.kind = "plan" /\ answer.result.approved
Plan == answer.result.plan
Reviewed == answer.kind = "action"

\* What a unit of the plan loses when its stop fills at its price: the distance,
\* and a taker fee of the entry's value on each of the two fills.
UnitLoss ==
  100000 * (IF Plan.side = "LONG" THEN Plan.entry - Plan.sl ELSE Plan.sl - Plan.entry)
    + 2 * Plan.entry * Cfg.fee_taker

\* The share of the equity the candidate was granted: the base, half of it on
\* a REDUCE_SIZE score, less for a long against a bearish BTC or a weak coin.
Granted ==
  LET base == IF Cfg.base_risk_pct < Cfg.risk_max_per_trade_pct
              THEN Cfg.base_risk_pct ELSE Cfg.risk_max_per_trade_pct
      half == IF question.c.action = "REDUCE_SIZE" THEN 5 ELSE 10
      btc == IF question.c.side = "LONG" /\ question.c.btcBearish THEN 7 ELSE 10
      weak == IF question.c.side = "LONG" /\ question.c.underperforms THEN 6 ELSE 10
  IN  question.b.equity * ((base * half * btc * weak) \div 1000)

\* An approved plan, after every rounding of prices and quantity, loses at its
\* stop no more than the risk it was granted, fees included, and half a lot
\* more (engine.go:584 promises the match, :802 rounds to the nearest lot).
LossWithinRisk ==
  Approved => 2 * (Plan.qty * UnitLoss - Granted) <= (question.i.lot + 1) * UnitLoss

\* Rounding to ticks never moves the stop of an approved plan to the wrong side
\* of its entry or onto it, nor a target when the proposed stop was a tick away
\* or more: only the stop is checked again after the rounding, a target has to
\* survive by its distance (min_rr).
LevelsSurviveRounding ==
  Approved =>
    /\ IF Plan.side = "LONG" THEN Plan.sl < Plan.entry ELSE Plan.sl > Plan.entry
    /\ question.i.tick <= Max({question.c.entry - question.c.sl,
                               question.c.sl - question.c.entry}) =>
         \A n \in DOMAIN Plan.tps :
           IF Plan.side = "LONG" THEN Plan.tps[n] > Plan.entry
                                 ELSE Plan.tps[n] < Plan.entry

\* The margin is checked on the prices as proposed; the plan is then sized again
\* from the rounded ones and nothing checks it again (engine.go:645, :661). What
\* bounds it all the same is its stop, 0.3 percent away at least: an approved
\* plan, re-sized or not, is worth no more than the risk it was granted over that
\* distance and the fees, and half a lot more. Its margin is that over its
\* leverage.
ValueBounded ==
  Approved =>
    (2 * Plan.qty - (question.i.lot + 1)) * (Plan.entry * (300 + 2 * Cfg.fee_taker))
      <= 2 * Granted

\* A review decides by itself only when one was heard: the call was made, an
\* attempt settled after nothing but errors and 5xx, and the text it left (the
\* content of a chat answer, or a body that is itself an answer) is complete,
\* names an action and a multiplier in range. Whatever else happened, the
\* candidate is rejected in veto mode and passes unchanged in the other modes
\* (reviewer.go:302). Outside veto and review nothing the model says changes it;
\* inside them a sound answer that spells REJECT as the code does rejects it.
ReviewFailsSafe ==
  Reviewed =>
    LET r == question.reply
        heard == /\ ReviewCap = 0 \/ question.spent < ReviewCap
                 /\ r.key /\ r.complete
                 /\ \E n \in 1 .. 3 :
                      /\ \A k \in 1 .. n - 1 : r.tries[k] \in {"5xx", "error"}
                      /\ \/ r.tries[n] = "ok" /\ r.body = "answer"
                         \/ /\ r.tries[n] = "4xx" \/ (r.tries[n] = "ok" /\ r.body # "not_json")
                            /\ r.unwrapped
                 /\ r.action \in Actions /\ r.multiplier \in 1 .. 100
    IN  /\ ~heard => answer.action = (IF question.mode = "veto" THEN "REJECT" ELSE "APPROVE")
        /\ question.mode \in {"off", "audit_only"} => answer.action = "APPROVE"
        /\ /\ heard /\ question.mode \in {"veto", "review"}
           /\ r.action = "REJECT" /\ r.exact /\ r.confidence \in 0 .. 100
           /\ r.entryMode \in {"", "market", "limit_retest"}
           => answer.action = "REJECT"

=============================================================================
