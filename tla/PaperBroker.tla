---------------------------- MODULE PaperBroker ----------------------------
(***************************************************************************)
(* The simulated broker of internal/broker/paper.go: an in-memory book of  *)
(* positions and orders behind one mutex, written through to PostgreSQL.   *)
(*                                                                         *)
(* Every exported method takes pb.mu for its whole body, so each is one    *)
(* action here, with three exceptions: ProcessCandle and EmergencyCloseAll *)
(* iterate over the book and are several steps taken while `lock' is held, *)
(* and SetProtectiveOrders releases the mutex four times and is four       *)
(* separate actions, between which every other caller may run.             *)
(*                                                                         *)
(* Prices are natural numbers of price units. Money is counted in units of *)
(* 1/DefaultLeverage of a price unit, so that the margin of a position is  *)
(* entry * size and its profit is DefaultLeverage * move * size, exactly.  *)
(***************************************************************************)
EXTENDS Integers, FiniteSetsExt

CONSTANTS Symbols,          \* the traded symbols
          Prices,           \* the prices a ticker, a candle or a request may carry
          Targets,          \* those of them a request asks for as take-profit
          Qtys,             \* the quantities an entry may carry
          Reductions,       \* the quantities a reduce-only request may carry
          StartingBalance,  \* cfg.StartingBalanceUSD, in money units
          DefaultLeverage,  \* cfg.DefaultLeverage
          TakerFee,         \* cfg.FeeTakerBps: money units per unit of notional
          MakerFee,         \* cfg.FeeMakerBps
          Slippage,         \* cfg.SlippageBps at these prices, in price units
          ClientOps,        \* the methods the clients of this instance call
          MaxOrderID        \* bound: no client call is made past this order number

AllOps == {"market", "limit", "reduce", "cancel", "close", "emergency",
           "halt", "reset", "setProtective"}

ASSUME BrokerAssumption ==
  /\ Prices \subseteq Nat \ {0}
  /\ Targets \subseteq Prices
  /\ Qtys \subseteq Nat \ {0} /\ Reductions \subseteq Nat \ {0}
  /\ StartingBalance \in Nat
  /\ DefaultLeverage \in Nat \ {0}
  /\ TakerFee \in Nat /\ MakerFee \in Nat /\ Slippage \in Nat
  /\ \A x \in Prices : Slippage < x
  /\ ClientOps \subseteq AllOps
  /\ MaxOrderID \in Nat

VARIABLES
  positions,     \* openPositions: the open positions, at most one per symbol
  orders,        \* openOrders: the pending orders, at most one per broker order id
  nextOrderID,   \* nextOrderID: numbers orders and names them "paper-<n>"
  acct,          \* balance, usedMargin, realizedPnL, dailyLoss (and entryFees)
  prices,        \* prices: the last price of each symbol, 0 while unknown
  marks,         \* the addends of unrealizedPnL, as of the last UpdatePrice
  halted,        \* halted
  lock,          \* who holds pb.mu between two steps
  caller,        \* the SetProtectiveOrders call in progress
  db             \* the rows of orders, positions and account_snapshots

vars == <<positions, orders, nextOrderID, acct, prices, marks, halted, lock,
          caller, db>>
-----------------------------------------------------------------------------
(* The data. *)

None == 0      \* no price, no order id: the nil of *int64 and the 0 of a price

\* sideFromOrderSide
PositionSide(side) == IF side = "BUY" THEN "LONG" ELSE "SHORT"

Order ==
  [key : Nat, id : Nat, symbol : Symbols, side : {"BUY", "SELL"},
   type : {"LIMIT", "STOP_MARKET", "TAKE_PROFIT_MARKET"},
   price : Nat, qty : Nat, sl : Nat, tp : Nat]

Position ==
  [id : Nat, symbol : Symbols, side : {"LONG", "SHORT"}, entry : Nat,
   size : Nat, sl : Nat, tp : Nat, slId : Nat, tpId : Nat]

\* entryFees is a history variable: the fees entries took from the balance.
\* The program keeps their sum with the exit fees, in totalFees.
Account ==
  [balance : Int, usedMargin : Int, realizedPnL : Int, dailyLoss : Int,
   entryFees : Int]

\* A row that is no longer pending or open is never read again (GetOpen), so
\* the tables keep the live rows and the serial of the next one.
Tables ==
  [orders : SUBSET Order, nextOrderRow : Nat,
   positions : SUBSET Position, nextPosRow : Nat, account : Account]

Free == [op |-> "free"]
Emergency == [op |-> "emergency"]
Candle ==
  [op : {"candle"}, symbol : Symbols, low : Prices, high : Prices]

Idle == [step |-> "idle"]
Call ==
  [step : {"sl", "tp", "link"}, pos : Position, sl : Prices,
   tp : Targets \cup {None}, slId : Nat, tpId : Nat]

\* validateStopLoss: a long's stop is below its entry, a short's above it.
OnLossSide(side, sl, entry) == IF side = "LONG" THEN sl < entry ELSE sl > entry
OnProfitSide(side, tp, entry) == IF side = "LONG" THEN tp > entry ELSE tp < entry

\* updatePositionPnL: the profit of p at price x.
Gain(p, x) ==
  DefaultLeverage * p.size * (IF p.side = "LONG" THEN x - p.entry ELSE p.entry - x)

Margin(p) == p.entry * p.size

\* The market price moved against the taker.
SlippedFill(side, x) == IF side = "BUY" THEN x + Slippage ELSE x - Slippage

\* Mutants of Realize: the margin is paid back into the balance it never left;
\* a loss is taken off the daily loss.
MarginPaidBack(a, pnl, margin) ==
  [a EXCEPT !.balance = @ + pnl + margin, !.usedMargin = @ - margin,
            !.realizedPnL = @ + pnl,
            !.dailyLoss = IF pnl < 0 THEN @ - pnl ELSE @]

LossSubtracted(a, pnl, margin) ==
  [a EXCEPT !.balance = @ + pnl, !.usedMargin = @ - margin,
            !.realizedPnL = @ + pnl,
            !.dailyLoss = IF pnl < 0 THEN @ + pnl ELSE @]

\* The account after realizing pnl and giving back the margin of the closed part.
Realize(a, pnl, margin) ==
  [a EXCEPT !.balance = @ + pnl, !.usedMargin = @ - margin,
            !.realizedPnL = @ + pnl,
            !.dailyLoss = IF pnl < 0 THEN @ - pnl ELSE @]
-----------------------------------------------------------------------------
(* The repositories: INSERT gives the row its id, UPDATE matches on the id. *)

\* saveOrder of an order that is already filled, and so of no interest later
InsertSettled(d) == [d EXCEPT !.nextOrderRow = @ + 1]

\* Mutant of InsertOrders: a take-profit is not saved.
TargetsUnsaved(d, new, n) ==
  [d EXCEPT !.orders = @ \cup {o \in new : o.type # "TAKE_PROFIT_MARKET"},
            !.nextOrderRow = @ + n]

\* saveOrder of n pending orders
InsertOrders(d, new, n) ==
  [d EXCEPT !.orders = @ \cup new, !.nextOrderRow = @ + n]

\* updateOrderInDB of orders whose status is now filled, cancelled or rejected
Settle(d, done) ==
  [d EXCEPT !.orders = {r \in @ : \A o \in done : r.id # o.id}]

\* Mutant of InsertPosition: the row is written before the stop price is set.
StopNotYetSet(d, p, a) ==
  [d EXCEPT !.positions = @ \cup {[p EXCEPT !.sl = None]}, !.nextPosRow = @ + 1,
            !.account = a]

\* savePosition, and saveAccountSnapshotNow after it
InsertPosition(d, p, a) ==
  [d EXCEPT !.positions = @ \cup {p}, !.nextPosRow = @ + 1, !.account = a]

\* Mutant of DropPosition: no snapshot is taken on a close.
NoSnapshot(d, p, a) == [d EXCEPT !.positions = {r \in @ : r.id # p.id}]

\* upsertPosition of a closed position; the snapshot follows it
DropPosition(d, p, a) ==
  [d EXCEPT !.positions = {r \in @ : r.id # p.id}, !.account = a]

\* updatePositionInDB
UpdatePosition(d, p) ==
  [d EXCEPT !.positions = {IF r.id = p.id THEN p ELSE r : r \in @}]
-----------------------------------------------------------------------------
(* The internal methods, as functions from a book to a book. *)

Book == [positions |-> positions, orders |-> orders,
         nextOrderID |-> nextOrderID, acct |-> acct, db |-> db]

Becomes(b) ==
  /\ positions' = b.positions
  /\ orders' = b.orders
  /\ nextOrderID' = b.nextOrderID
  /\ acct' = b.acct
  /\ db' = b.db

\* openOrders[key] = order: an order under the same key is overwritten.
Put(S, new) == {o \in S : \A n \in new : n.key # o.key} \cup new

\* delete(openOrders, key)
Without(S, o) == {x \in S : x.key # o.key}

\* cancelSiblingOrders: found by symbol and by id
Siblings(b, p) ==
  {o \in b.orders : o.symbol = p.symbol /\ o.id \in {p.slId, p.tpId}}

\* closePositionInternalWithOrder. `closing' says that an order already exists
\* for the exit; otherwise a synthetic market order is numbered and saved.
Closed(b, p, exit, closing) ==
  LET x    == SlippedFill(IF p.side = "LONG" THEN "SELL" ELSE "BUY", exit)
      pnl  == Gain(p, x) - x * p.size * TakerFee
      a    == Realize(b.acct, pnl, Margin(p))
      done == Settle(b.db, Siblings(b, p))
  IN  [positions   |-> {q \in b.positions : q.symbol # p.symbol},
       orders      |-> b.orders \ Siblings(b, p),
       nextOrderID |-> IF closing THEN b.nextOrderID ELSE b.nextOrderID + 1,
       acct        |-> a,
       db          |-> DropPosition(IF closing THEN done ELSE InsertSettled(done),
                                    p, a)]

\* triggerProtectiveOrder, with the deletion its callers add
Triggered(b, o, p, x) ==
  LET c == Closed(b, p, x, TRUE)
  IN  [c EXCEPT !.orders = Without(@, o), !.db = Settle(@, {o})]

\* createProtectiveOrdersForPosition and saveProtectiveOrdersForPosition: the
\* stop, and the target unless it is on the wrong side. The rows are written in
\* map order; the stop's is written first here.
Protection(b, symbol, side, entry, qty, sl, tp) ==
  LET exitSide == IF side = "LONG" THEN "SELL" ELSE "BUY"
      stops    == IF sl = None THEN 0 ELSE 1
      targets  == IF tp # None /\ OnProfitSide(side, tp, entry) THEN 1 ELSE 0
      row      == b.db.nextOrderRow
      ExitOrder(k, type, x) ==
        [key |-> b.nextOrderID + k, id |-> row + k, symbol |-> symbol,
         side |-> exitSide, type |-> type, price |-> x, qty |-> qty,
         sl |-> None, tp |-> None]
  IN  [new   |-> {ExitOrder(0, "STOP_MARKET", sl) : i \in 1 .. stops}
                 \cup {ExitOrder(stops, "TAKE_PROFIT_MARKET", tp) : i \in 1 .. targets},
       count |-> stops + targets,
       slId  |-> IF stops = 1 THEN row ELSE None,
       tpId  |-> IF targets = 1 THEN row + stops ELSE None]

\* The part PlaceOrder and fillLimitOrder share: open the position at `entry',
\* create its protective orders, then write orders, position and snapshot.
Opened(b, symbol, side, qty, entry, sl, tp, feeRate) ==
  LET g   == Protection(b, symbol, side, entry, qty, sl, tp)
      p   == [id |-> b.db.nextPosRow, symbol |-> symbol, side |-> side,
              entry |-> entry, size |-> qty, sl |-> sl, tp |-> tp,
              slId |-> g.slId, tpId |-> g.tpId]
      fee == entry * qty * feeRate
      a   == [b.acct EXCEPT !.balance = @ - fee, !.usedMargin = @ + Margin(p),
                            !.entryFees = @ + fee]
  IN  [positions   |-> {q \in b.positions : q.symbol # symbol} \cup {p},
       orders      |-> Put(b.orders, g.new),
       nextOrderID |-> b.nextOrderID + g.count,
       acct        |-> a,
       db          |-> InsertPosition(InsertOrders(b.db, g.new, g.count), p, a)]

\* nextOrderID++, once the request has passed the first checks
Numbered(b) == [b EXCEPT !.nextOrderID = @ + 1]
\* The market order PlaceOrder has filled is written to the table.
Filled(b) == [b EXCEPT !.db = InsertSettled(@)]

\* "insufficient margin"
CannotAfford(entry, qty, feeRate) ==
  acct.balance - acct.usedMargin < entry * qty + entry * qty * feeRate
-----------------------------------------------------------------------------
Init ==
  /\ positions = {} /\ orders = {} /\ nextOrderID = 1
  /\ acct = [balance |-> StartingBalance, usedMargin |-> 0, realizedPnL |-> 0,
             dailyLoss |-> 0, entryFees |-> 0]
  /\ prices = [s \in Symbols |-> None]
  /\ marks = {}
  /\ halted = FALSE
  /\ lock = Free
  /\ caller = Idle
  /\ db = [orders |-> {}, nextOrderRow |-> 1, positions |-> {},
           nextPosRow |-> 1, account |-> acct]

\* Mutant of MayEnter: the check of `halted' is missing.
AlwaysMayEnter == TRUE

\* A halted broker takes no new entry.
MayEnter == ~halted

\* A client may call op: nobody holds the mutex.
Calls(op) == op \in ClientOps /\ lock = Free /\ nextOrderID <= MaxOrderID

(* PlaceOrder, MARKET. The rejections that come before nextOrderID++ change *)
(* nothing and are not steps; the later ones burn an order number.          *)
MarketFill(s, side) == SlippedFill(side, prices[s])

MarketRefused(s, side, qty, sl) ==
  \/ prices[s] = None
  \/ ~OnLossSide(PositionSide(side), sl, MarketFill(s, side))
  \/ CannotAfford(MarketFill(s, side), qty, TakerFee)

RejectMarket(s, side, qty, sl) ==
  /\ Calls("market") /\ MayEnter
  /\ MarketRefused(s, side, qty, sl)
  /\ Becomes(Numbered(Book))
  /\ UNCHANGED <<prices, marks, halted, lock, caller>>

PlaceMarket(s, side, qty, sl, tp) ==
  LET fill == MarketFill(s, side)
      b    == Numbered(Book)
      Enter(c) == Opened(Filled(c), s, PositionSide(side), qty, fill, sl, tp,
                         TakerFee)
  IN  /\ Calls("market") /\ MayEnter
      /\ ~MarketRefused(s, side, qty, sl)
      /\ \/ /\ \A p \in positions : p.symbol # s
            /\ Becomes(Enter(b))
         \/ \E p \in positions :
              p.symbol = s /\ Becomes(Enter(Closed(b, p, fill, FALSE)))
      /\ UNCHANGED <<prices, marks, halted, lock, caller>>

(* PlaceOrder, MARKET with ReduceOnly and no StopLoss. A reduction is kept  *)
(* in memory only. With no position to reduce, the code opens a new one.    *)
\* Mutant of Reduced: the whole margin is freed by a part of the position.
WholeMarginFreed(b, p, qty, fill) ==
  LET pnl == DefaultLeverage * qty
               * (IF p.side = "LONG" THEN fill - p.entry ELSE p.entry - fill)
             - fill * qty * TakerFee
  IN  [b EXCEPT !.positions = (@ \ {p}) \cup {[p EXCEPT !.size = @ - qty]},
                !.acct = Realize(@, pnl, Margin(p))]

Reduced(b, p, qty, fill) ==
  LET pnl == DefaultLeverage * qty
               * (IF p.side = "LONG" THEN fill - p.entry ELSE p.entry - fill)
             - fill * qty * TakerFee
  IN  [b EXCEPT !.positions = (@ \ {p}) \cup {[p EXCEPT !.size = @ - qty]},
                !.acct = Realize(@, pnl, p.entry * qty)]

ReduceRefused(s, side, qty) ==
  prices[s] = None \/ CannotAfford(MarketFill(s, side), qty, TakerFee)

RejectReduce(s, side, qty) ==
  /\ Calls("reduce") /\ ReduceRefused(s, side, qty)
  /\ Becomes(Numbered(Book))
  /\ UNCHANGED <<prices, marks, halted, lock, caller>>

ReduceOnly(s, side, qty) ==
  LET fill == MarketFill(s, side)
      b    == Numbered(Book)
  IN  /\ Calls("reduce") /\ ~ReduceRefused(s, side, qty)
      /\ \/ \E p \in positions :
              /\ p.symbol = s
              /\ \/ qty >= p.size /\ Becomes(Closed(b, p, fill, FALSE))
                 \/ qty < p.size /\ Becomes(Reduced(b, p, qty, fill))
         \/ /\ \A p \in positions : p.symbol # s
            /\ Becomes(Opened(Filled(b), s, PositionSide(side), qty, fill,
                              None, None, TakerFee))
      /\ UNCHANGED <<prices, marks, halted, lock, caller>>

(* PlaceOrder, LIMIT: kept in memory and saved. Its stop is not validated   *)
(* against its price here, only when it fills.                              *)
PlaceLimit(s, side, qty, x, sl, tp) ==
  LET o == [key |-> nextOrderID, id |-> db.nextOrderRow, symbol |-> s,
            side |-> side, type |-> "LIMIT", price |-> x, qty |-> qty,
            sl |-> sl, tp |-> tp]
  IN  /\ Calls("limit") /\ MayEnter
      /\ Becomes([Numbered(Book) EXCEPT !.orders = Put(@, {o}),
                                        !.db = InsertOrders(@, {o}, 1)])
      /\ UNCHANGED <<prices, marks, halted, lock, caller>>

CancelOrder(o) ==
  /\ Calls("cancel")
  /\ Becomes([Book EXCEPT !.orders = Without(@, o), !.db = Settle(@, {o})])
  /\ UNCHANGED <<prices, marks, halted, lock, caller>>

ClosePosition(p) ==
  /\ Calls("close") /\ prices[p.symbol] # None
  /\ Becomes(Closed(Book, p, prices[p.symbol], FALSE))
  /\ UNCHANGED <<prices, marks, halted, lock, caller>>

SetHalted ==
  /\ Calls("halt")
  /\ halted' = TRUE
  /\ UNCHANGED <<positions, orders, nextOrderID, acct, prices, marks, lock,
                 caller, db>>

ResetDailyLoss ==
  /\ Calls("reset")
  /\ acct' = [acct EXCEPT !.dailyLoss = 0]
  /\ UNCHANGED <<positions, orders, nextOrderID, prices, marks, halted, lock,
                 caller, db>>
-----------------------------------------------------------------------------
(* EmergencyCloseAll: the orders are dropped from memory, and only there;   *)
(* then the positions are closed one by one, in any order.                  *)
DropAllOrders ==
  /\ orders' = {}
  /\ lock' = IF positions = {} THEN Free ELSE Emergency
  /\ UNCHANGED <<positions, nextOrderID, acct, prices, marks, halted, caller, db>>

EmergencyCloseAll == Calls("emergency") /\ DropAllOrders

EmergencyClose(p) ==
  /\ lock = Emergency
  /\ Becomes(Closed(Book, p,
               IF prices[p.symbol] = None THEN p.entry ELSE prices[p.symbol],
               FALSE))
  /\ lock' = IF positions' = {} THEN Free ELSE Emergency
  /\ UNCHANGED <<prices, marks, halted, caller>>
-----------------------------------------------------------------------------
(* Prices. *)

\* Mutant of Priced: the fill price, slippage included, is kept as the price.
SlippedPriced(s, x) == [prices EXCEPT ![s] = SlippedFill("BUY", x)]

\* setPriceLocked
Priced(s, x) == [prices EXCEPT ![s] = x]

SetSymbolPrice(s, x) ==
  /\ lock = Free
  /\ prices' = Priced(s, x)
  /\ UNCHANGED <<positions, orders, nextOrderID, acct, marks, halted, lock,
                 caller, db>>

\* shouldTriggerSL, shouldTriggerTP: the side is the position's, not the order's.
Triggers(o, p, x) ==
  /\ o.symbol = p.symbol
  /\ \/ o.type = "STOP_MARKET" /\ (x = o.price \/ OnLossSide(p.side, x, o.price))
     \/ o.type = "TAKE_PROFIT_MARKET"
        /\ (x = o.price \/ OnProfitSide(p.side, x, o.price))

\* updateUnrealizedPnLLocked: p's addend, with the prices of now
Mark(p, px) ==
  [symbol |-> p.symbol, gain |-> IF px[p.symbol] = None THEN 0
                                 ELSE Gain(p, px[p.symbol])]

\* UpdatePrice: mark every position, then let one protective order of s fill.
\* After the first, the position is gone and no other can trigger.
UpdatePrice(s, x) ==
  LET hit == {o \in orders : o.symbol = s /\ \E p \in positions : Triggers(o, p, x)}
  IN  /\ lock = Free
      /\ prices' = Priced(s, x)
      /\ marks' = {Mark(p, prices') : p \in positions}
      /\ \/ hit = {} /\ Becomes(Book)
         \/ \E o \in hit, p \in positions :
              p.symbol = s /\ Becomes(Triggered(Book, o, p, x))
      /\ UNCHANGED <<halted, lock, caller>>

(* ProcessCandle: first the limit orders the candle reaches, in any order,  *)
(* then the stops, and the targets only when no stop was crossed.           *)
ProcessCandle(s, low, high, close) ==
  /\ lock = Free
  /\ low <= close /\ close <= high
  /\ prices' = Priced(s, close)
  /\ lock' = [op |-> "candle", symbol |-> s, low |-> low, high |-> high]
  /\ UNCHANGED <<positions, orders, nextOrderID, acct, marks, halted, caller, db>>

\* wouldLimitFill
Reached(o) ==
  /\ o.type = "LIMIT" /\ o.symbol = lock.symbol
  /\ IF o.side = "BUY" THEN lock.low <= o.price ELSE lock.high >= o.price

\* fillLimitOrder: a position already open on the symbol is overwritten.
LimitRefused(o) ==
  \/ ~OnLossSide(PositionSide(o.side), o.sl, o.price)
  \/ CannotAfford(o.price, o.qty, MakerFee)

\* Mutant of LimitFilled: the filled order is deleted by its symbol.
SymbolCleared(b, o) ==
  LET c == Opened([b EXCEPT !.db = Settle(@, {o})], o.symbol,
                  PositionSide(o.side), o.qty, o.price, o.sl, o.tp, MakerFee)
  IN  [c EXCEPT !.orders = {x \in @ : x.symbol # o.symbol}]

LimitFilled(b, o) ==
  LET c == Opened([b EXCEPT !.db = Settle(@, {o})], o.symbol,
                  PositionSide(o.side), o.qty, o.price, o.sl, o.tp, MakerFee)
  IN  [c EXCEPT !.orders = Without(@, o)]

FillLimit(o) ==
  /\ lock \in Candle /\ Reached(o)
  /\ IF LimitRefused(o)
     THEN Becomes([Book EXCEPT !.orders = Without(@, o), !.db = Settle(@, {o})])
     ELSE Becomes(LimitFilled(Book, o))
  /\ UNCHANGED <<prices, marks, halted, lock, caller>>

\* checkProtectiveOrdersCandle. Of the crossed orders the first one visited
\* closes the position; the others are dropped from memory, and only there.
Crossed(type) ==
  {o \in orders : /\ o.type = type /\ o.symbol = lock.symbol
                  /\ lock.low <= o.price /\ o.price <= lock.high}

FinishCandle ==
  LET stops == Crossed("STOP_MARKET")
      hit   == IF stops # {} THEN stops ELSE Crossed("TAKE_PROFIT_MARKET")
      held  == {p \in positions : p.symbol = lock.symbol}
  IN  /\ lock \in Candle
      /\ \A o \in orders : ~Reached(o)
      /\ \/ /\ hit = {} \/ held = {}
            /\ Becomes([Book EXCEPT !.orders = @ \ hit])
         \/ \E o \in hit, p \in held :
              LET c == Triggered(Book, o, p, o.price)
              IN  Becomes([c EXCEPT !.orders = @ \ hit])
      /\ lock' = Free
      /\ UNCHANGED <<prices, marks, halted, caller>>
-----------------------------------------------------------------------------
(* SetProtectiveOrders: cancel under the mutex; validate; place the stop;   *)
(* place the target; link. The orders it places are not saved.              *)
BeginProtect(p, sl, tp) ==
  /\ Calls("setProtective") /\ caller = Idle
  /\ Becomes([Book EXCEPT !.orders = @ \ Siblings(Book, p),
                          !.db = Settle(@, Siblings(Book, p))])
  /\ caller' = IF /\ OnLossSide(p.side, sl, p.entry)
                  /\ tp = None \/ OnProfitSide(p.side, tp, p.entry)
               THEN [step |-> "sl", pos |-> p, sl |-> sl, tp |-> tp,
                     slId |-> None, tpId |-> None]
               ELSE Idle
  /\ UNCHANGED <<prices, marks, halted, lock>>

\* PlaceOrder, STOP_MARKET or TAKE_PROFIT_MARKET: id and key are both the number.
PlaceExit(type, x) ==
  LET p == caller.pos
      o == [key |-> nextOrderID, id |-> nextOrderID, symbol |-> p.symbol,
            side |-> IF p.side = "LONG" THEN "SELL" ELSE "BUY", type |-> type,
            price |-> x, qty |-> p.size, sl |-> None, tp |-> None]
  IN  /\ lock = Free
      /\ Becomes([Numbered(Book) EXCEPT !.orders = Put(@, {o})])
      /\ UNCHANGED <<prices, marks, halted, lock>>

PlaceStop ==
  /\ caller # Idle /\ caller.step = "sl"
  /\ PlaceExit("STOP_MARKET", caller.sl)
  /\ caller' = [caller EXCEPT !.slId = nextOrderID,
                              !.step = IF caller.tp = None THEN "link" ELSE "tp"]

PlaceTarget ==
  /\ caller # Idle /\ caller.step = "tp"
  /\ PlaceExit("TAKE_PROFIT_MARKET", caller.tp)
  /\ caller' = [caller EXCEPT !.tpId = nextOrderID, !.step = "link"]

\* Only if the position is still the one the call began with.
Relinked(p) ==
  IF caller.tp = None
  THEN [p EXCEPT !.slId = caller.slId, !.sl = caller.sl]
  ELSE [p EXCEPT !.slId = caller.slId, !.sl = caller.sl,
                 !.tpId = caller.tpId, !.tp = caller.tp]

\* Mutant of StillHeld: whatever position the symbol has by now.
SameSymbolHeld(p) == p.symbol = caller.pos.symbol

StillHeld(p) == p.symbol = caller.pos.symbol /\ p.id = caller.pos.id

Link ==
  /\ caller # Idle /\ caller.step = "link" /\ lock = Free
  /\ \/ \E p \in positions :
          /\ StillHeld(p)
          /\ Becomes([Book EXCEPT !.positions = (@ \ {p}) \cup {Relinked(p)},
                                  !.db = UpdatePosition(@, Relinked(p))])
     \/ (\A p \in positions : ~StillHeld(p)) /\ Becomes(Book)
  /\ caller' = Idle
  /\ UNCHANGED <<prices, marks, halted, lock>>
-----------------------------------------------------------------------------
Entry ==
  \E s \in Symbols, side \in {"BUY", "SELL"} :
    \/ \E qty \in Reductions : RejectReduce(s, side, qty) \/ ReduceOnly(s, side, qty)
    \/ \E qty \in Qtys, sl \in Prices :
         \/ RejectMarket(s, side, qty, sl)
         \/ \E tp \in Targets \cup {None} :
              \/ PlaceMarket(s, side, qty, sl, tp)
              \/ \E x \in Prices : PlaceLimit(s, side, qty, x, sl, tp)

Exit ==
  \/ \E o \in orders : CancelOrder(o)
  \/ \E p \in positions : ClosePosition(p) \/ EmergencyClose(p)
  \/ EmergencyCloseAll

Tick ==
  \/ \E s \in Symbols, x \in Prices : SetSymbolPrice(s, x) \/ UpdatePrice(s, x)
  \/ \E s \in Symbols, low, high, close \in Prices : ProcessCandle(s, low, high, close)
  \/ \E o \in orders : FillLimit(o)
  \/ FinishCandle

Protect ==
  \/ \E p \in positions, sl \in Prices, tp \in Targets \cup {None} : BeginProtect(p, sl, tp)
  \/ PlaceStop \/ PlaceTarget \/ Link

Next == Entry \/ Exit \/ Tick \/ Protect \/ SetHalted \/ ResetDailyLoss

Spec == Init /\ [][Next]_vars
-----------------------------------------------------------------------------
(* Properties. *)

TypeOK ==
  /\ positions \subseteq Position
  /\ orders \subseteq Order
  /\ nextOrderID \in Nat \ {0}
  /\ acct \in Account
  /\ prices \in [Symbols -> Prices \cup {None}]
  /\ marks \subseteq [symbol : Symbols, gain : Int]
  /\ halted \in BOOLEAN
  /\ lock \in {Free, Emergency} \cup Candle
  /\ caller \in {Idle} \cup Call
  /\ db \in Tables

\* The wallet model of closePositionInternalWithOrder: entries take their fee
\* from the balance, exits their realized profit, and nothing else moves it.
\* A fee charged twice, or a profit booked without its fee, breaks it.
LedgerBalanced ==
  acct.balance = StartingBalance + acct.realizedPnL - acct.entryFees

\* PlaceOrder and fillLimitOrder admit an entry on balance - usedMargin, so the
\* reserve must never fall below what the open positions tie up, whatever mix
\* of replacements, reductions, limit fills and emergency closes led here.
MarginCovered == acct.usedMargin >= MapThenSumSet(Margin, positions)

\* A stop price linked to a position, by an entry or by SetProtectiveOrders
\* racing the close and re-entry of the symbol, is on the losing side of that
\* position's own entry: Rehydrate refuses to start on any other.
StopOnLossSide ==
  \A p \in positions : p.sl # None => OnLossSide(p.side, p.sl, p.entry)

\* The kill switch sums realized losses in dailyLoss: every path that realizes
\* a loss, partial reductions included, counts it there once and in full.
EveryLossCounted ==
  [][LET loss == acct.realizedPnL - acct'.realizedPnL
     IN  loss > 0 => acct'.dailyLoss = acct.dailyLoss + loss]_vars

\* broker.go: "Broker must guarantee no position exists without SL". A live
\* stop order, linked to the position, at the position's stop price.
Guarded(p) ==
  \E o \in orders : /\ o.type = "STOP_MARKET" /\ o.symbol = p.symbol
                    /\ o.id = p.slId /\ o.price = p.sl

NoNakedPosition == lock # Emergency => \A p \in positions : Guarded(p)

\* Whatever the broker knows a restart would load: every live order and every
\* open position has its row, equal to it. More rows may be live than it knows
\* of: EmergencyCloseAll drops orders, and a limit fill a position, in memory only.
NothingForgotten == orders \subseteq db.orders /\ positions \subseteq db.positions
=============================================================================
