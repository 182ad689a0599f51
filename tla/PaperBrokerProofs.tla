------------------------- MODULE PaperBrokerProofs -------------------------
(***************************************************************************)
(* Theorems about PaperBroker, for every value of its constants.           *)
(***************************************************************************)
EXTENDS PaperBroker, FiniteSetTheorems, WellFoundedInduction, TLAPS

BookType ==
  [positions : SUBSET Position, orders : SUBSET Order,
   nextOrderID : Nat \ {0}, acct : Account, db : Tables]

\* Realizing a profit or a loss leaves an account.
LEMMA RealizeType ==
  ASSUME NEW a \in Account, NEW pnl \in Int, NEW margin \in Int
  PROVE  Realize(a, pnl, margin) \in Account
<1> DEFINE balance  == a.balance + pnl
           used     == a.usedMargin - margin
           realized == a.realizedPnL + pnl
           loss     == IF pnl < 0 THEN a.dailyLoss - pnl ELSE a.dailyLoss
<1>1. balance \in Int /\ used \in Int /\ realized \in Int /\ loss \in Int
  BY DEF Account
<1>2. Realize(a, pnl, margin) =
        [a EXCEPT !.balance = balance, !.usedMargin = used,
                  !.realizedPnL = realized, !.dailyLoss = loss]
  BY DEF Realize
<1> HIDE DEF balance, used, realized, loss
<1> QED BY <1>1, <1>2 DEF Account

LEMMA MarginType ==
  ASSUME NEW p \in Position
  PROVE  Margin(p) \in Nat
  BY DEF Margin, Position

\* What a position gains at a price is a number.
LEMMA GainType ==
  ASSUME NEW p \in Position, NEW x \in Int
  PROVE  Gain(p, x) \in Int
<1>1. DefaultLeverage * p.size \in Int
  BY BrokerAssumption DEF Position
<1>2. (IF p.side = "LONG" THEN x - p.entry ELSE p.entry - x) \in Int
  BY DEF Position
<1> QED BY <1>1, <1>2 DEF Gain

LEMMA SlippedType ==
  ASSUME NEW side, NEW x \in Int
  PROVE  SlippedFill(side, x) \in Int
  BY BrokerAssumption DEF SlippedFill

\* Closing a position leaves a book.
LEMMA ClosedType ==
  ASSUME NEW b \in BookType, NEW p \in Position, NEW exit \in Int,
         NEW closing \in BOOLEAN
  PROVE  Closed(b, p, exit, closing) \in BookType
<1> DEFINE x    == SlippedFill(IF p.side = "LONG" THEN "SELL" ELSE "BUY", exit)
           pnl  == Gain(p, x) - x * p.size * TakerFee
           a    == Realize(b.acct, pnl, Margin(p))
           done == Settle(b.db, Siblings(b, p))
           d    == IF closing THEN done ELSE InsertSettled(done)
<1>1. x \in Int
  BY SlippedType
<1>2. pnl \in Int
  <2>1. x * p.size * TakerFee \in Int
    BY <1>1, BrokerAssumption DEF Position
  <2> HIDE DEF x
  <2> QED BY <2>1, <1>1, GainType
<1>3. a \in Account
  <2> HIDE DEF pnl
  <2> QED BY <1>2, MarginType, RealizeType DEF BookType
<1>4. done \in Tables
  BY DEF Settle, Tables, BookType
<1>5. d \in Tables
  <2> HIDE DEF done
  <2> QED BY <1>4 DEF InsertSettled, Tables
<1>6. DropPosition(d, p, a) \in Tables
  <2> HIDE DEF d, a
  <2> QED BY <1>5, <1>3 DEF DropPosition, Tables
<1> HIDE DEF x, pnl, a, done, d
<1>7. Closed(b, p, exit, closing) =
        [positions   |-> {q \in b.positions : q.symbol # p.symbol},
         orders      |-> b.orders \ Siblings(b, p),
         nextOrderID |-> IF closing THEN b.nextOrderID ELSE b.nextOrderID + 1,
         acct        |-> a,
         db          |-> DropPosition(d, p, a)]
  BY DEF Closed, x, pnl, a, done, d
<1> QED BY <1>3, <1>6, <1>7 DEF BookType

\* The protective orders of an entry are orders, at most two of them.
LEMMA ProtectionType ==
  ASSUME NEW b \in BookType, NEW symbol \in Symbols,
         NEW side \in {"LONG", "SHORT"}, NEW entry \in Nat, NEW qty \in Nat,
         NEW sl \in Nat, NEW tp \in Nat
  PROVE  LET g == Protection(b, symbol, side, entry, qty, sl, tp)
         IN  /\ g.new \subseteq Order
             /\ g.count \in {0, 1, 2}
             /\ g.slId \in Nat /\ g.tpId \in Nat
<1> DEFINE exitSide == IF side = "LONG" THEN "SELL" ELSE "BUY"
           stops    == IF sl = None THEN 0 ELSE 1
           targets  == IF tp # None /\ OnProfitSide(side, tp, entry) THEN 1 ELSE 0
           row      == b.db.nextOrderRow
           ExitOrder(k, type, x) ==
             [key |-> b.nextOrderID + k, id |-> row + k, symbol |-> symbol,
              side |-> exitSide, type |-> type, price |-> x, qty |-> qty,
              sl |-> None, tp |-> None]
           g == Protection(b, symbol, side, entry, qty, sl, tp)
<1>1. /\ stops \in {0, 1} /\ targets \in {0, 1} /\ row \in Nat
      /\ exitSide \in {"BUY", "SELL"} /\ b.nextOrderID \in Nat
  BY DEF BookType, Tables
<1> HIDE DEF stops, targets, row, exitSide
<1>2. ASSUME NEW k \in {0, 1}, NEW x \in Nat,
             NEW type \in {"STOP_MARKET", "TAKE_PROFIT_MARKET"}
      PROVE  ExitOrder(k, type, x) \in Order
  BY <1>1 DEF Order, None
<1> HIDE DEF ExitOrder
<1>3. g = [new   |-> {ExitOrder(0, "STOP_MARKET", sl) : i \in 1 .. stops}
                       \cup {ExitOrder(stops, "TAKE_PROFIT_MARKET", tp) : i \in 1 .. targets},
           count |-> stops + targets,
           slId  |-> IF stops = 1 THEN row ELSE None,
           tpId  |-> IF targets = 1 THEN row + stops ELSE None]
  BY DEF Protection, stops, targets, row, exitSide, ExitOrder
<1> HIDE DEF g
<1>4. g.new \subseteq Order
  BY <1>1, <1>2, <1>3
<1>5. g.count \in {0, 1, 2} /\ g.slId \in Nat /\ g.tpId \in Nat
  BY <1>1, <1>3 DEF None
<1> QED BY <1>4, <1>5 DEF g

LEMMA InsertOrdersType ==
  ASSUME NEW d \in Tables, NEW new \in SUBSET Order, NEW n \in Nat
  PROVE  InsertOrders(d, new, n) \in Tables
<1> DEFINE rows == d.orders \cup new
           next == d.nextOrderRow + n
<1>1. rows \subseteq Order /\ next \in Nat
  BY DEF Tables
<1>2. InsertOrders(d, new, n) = [d EXCEPT !.orders = rows, !.nextOrderRow = next]
  BY DEF InsertOrders
<1> HIDE DEF rows, next
<1> QED BY <1>1, <1>2 DEF Tables

\* Opening a position leaves a book.
LEMMA OpenedType ==
  ASSUME NEW b \in BookType, NEW symbol \in Symbols,
         NEW side \in {"LONG", "SHORT"}, NEW entry \in Nat, NEW qty \in Nat,
         NEW sl \in Nat, NEW tp \in Nat, NEW feeRate \in Nat
  PROVE  Opened(b, symbol, side, qty, entry, sl, tp, feeRate) \in BookType
<1> DEFINE g   == Protection(b, symbol, side, entry, qty, sl, tp)
           p   == [id |-> b.db.nextPosRow, symbol |-> symbol, side |-> side,
                   entry |-> entry, size |-> qty, sl |-> sl, tp |-> tp,
                   slId |-> g.slId, tpId |-> g.tpId]
           fee == entry * qty * feeRate
           a   == [b.acct EXCEPT !.balance = @ - fee, !.usedMargin = @ + Margin(p),
                                 !.entryFees = @ + fee]
           d   == InsertOrders(b.db, g.new, g.count)
<1>1. g.new \subseteq Order /\ g.count \in {0, 1, 2} /\ g.slId \in Nat /\ g.tpId \in Nat
  BY ProtectionType
<1> HIDE DEF g
<1>2. p \in Position
  BY <1>1 DEF Position, BookType, Tables
<1>3. fee \in Int
  OBVIOUS
<1>4. a \in Account
  <2> DEFINE m == Margin(p)
             balance == b.acct.balance - fee
             used    == b.acct.usedMargin + m
             fees    == b.acct.entryFees + fee
  <2>1. m \in Nat
    BY <1>2, MarginType
  <2> HIDE DEF m, fee, p
  <2>2. balance \in Int /\ used \in Int /\ fees \in Int /\ b.acct \in Account
    BY <2>1, <1>3 DEF BookType, Account
  <2>3. a = [b.acct EXCEPT !.balance = balance, !.usedMargin = used, !.entryFees = fees]
    BY DEF m
  <2> HIDE DEF a, balance, used, fees
  <2> QED BY <2>2, <2>3 DEF Account
<1>5. d \in Tables
  <2>1. b.db \in Tables /\ g.count \in Nat
    BY <1>1 DEF BookType
  <2> QED BY <1>1, <2>1, InsertOrdersType
<1> HIDE DEF p, fee, a, d
<1>6. InsertPosition(d, p, a) \in Tables
  <2> DEFINE rows == d.positions \cup {p}
             next == d.nextPosRow + 1
  <2>1. rows \subseteq Position /\ next \in Nat
    BY <1>2, <1>5 DEF Tables
  <2>2. InsertPosition(d, p, a) =
          [d EXCEPT !.positions = rows, !.nextPosRow = next, !.account = a]
    BY DEF InsertPosition
  <2> HIDE DEF rows, next
  <2> QED BY <1>4, <1>5, <2>1, <2>2 DEF Tables
<1>7. Opened(b, symbol, side, qty, entry, sl, tp, feeRate) =
        [positions   |-> {q \in b.positions : q.symbol # symbol} \cup {p},
         orders      |-> Put(b.orders, g.new),
         nextOrderID |-> b.nextOrderID + g.count,
         acct        |-> a,
         db          |-> InsertPosition(d, p, a)]
  BY DEF Opened, g, p, fee, a, d
<1>8. Put(b.orders, g.new) \subseteq Order
  BY <1>1 DEF Put, BookType
<1>9. b.nextOrderID + g.count \in Nat \ {0}
  BY <1>1 DEF BookType
<1>10. {q \in b.positions : q.symbol # symbol} \cup {p} \subseteq Position
  BY <1>2 DEF BookType
<1> QED BY <1>4, <1>6, <1>7, <1>8, <1>9, <1>10 DEF BookType

-----------------------------------------------------------------------------
(* The smaller steps a handler is made of. *)

LEMMA BookTyped ==
  ASSUME TypeOK
  PROVE  Book \in BookType
  BY DEF TypeOK, Book, BookType

LEMMA NumberedType ==
  ASSUME NEW b \in BookType
  PROVE  Numbered(b) \in BookType
  BY DEF Numbered, BookType

LEMMA FilledType ==
  ASSUME NEW b \in BookType
  PROVE  Filled(b) \in BookType
<1>1. InsertSettled(b.db) \in Tables
  BY DEF InsertSettled, Tables, BookType
<1> QED BY <1>1 DEF Filled, BookType

LEMMA SettleType ==
  ASSUME NEW d \in Tables, NEW done
  PROVE  Settle(d, done) \in Tables
  BY DEF Settle, Tables

LEMMA WithOrders ==
  ASSUME NEW b \in BookType, NEW S \in SUBSET Order, NEW d \in Tables
  PROVE  [b EXCEPT !.orders = S, !.db = d] \in BookType
  BY DEF BookType

LEMMA TriggeredType ==
  ASSUME NEW b \in BookType, NEW o, NEW p \in Position, NEW x \in Int
  PROVE  Triggered(b, o, p, x) \in BookType
<1> DEFINE c == Closed(b, p, x, TRUE)
           S == Without(c.orders, o)
           d == Settle(c.db, {o})
<1>1. c \in BookType
  BY ClosedType
<1> HIDE DEF c
<1>2. S \in SUBSET Order /\ d \in Tables
  BY <1>1, SettleType DEF Without, BookType
<1>3. Triggered(b, o, p, x) = [c EXCEPT !.orders = S, !.db = d]
  BY DEF Triggered, c
<1> HIDE DEF S, d
<1>4. [c EXCEPT !.orders = S, !.db = d] \in BookType
  BY <1>1, <1>2, WithOrders
<1> QED BY <1>3, <1>4

LEMMA LimitFilledType ==
  ASSUME NEW b \in BookType, NEW o \in Order
  PROVE  LimitFilled(b, o) \in BookType
<1> DEFINE e == [b EXCEPT !.db = Settle(@, {o})]
           c == Opened(e, o.symbol, PositionSide(o.side), o.qty, o.price, o.sl,
                       o.tp, MakerFee)
           S == Without(c.orders, o)
<1>1. e \in BookType
  <2>1. Settle(b.db, {o}) \in Tables
    BY SettleType DEF BookType
  <2> QED BY <2>1 DEF BookType
<1> HIDE DEF e
<1>2. c \in BookType
  <2>1. /\ o.symbol \in Symbols /\ PositionSide(o.side) \in {"LONG", "SHORT"}
        /\ o.qty \in Nat /\ o.price \in Nat /\ o.sl \in Nat /\ o.tp \in Nat
        /\ MakerFee \in Nat
    BY BrokerAssumption DEF Order, PositionSide
  <2> QED BY <1>1, <2>1, OpenedType
<1> HIDE DEF c
<1>3. S \in SUBSET Order
  BY <1>2 DEF Without, BookType
<1>4. LimitFilled(b, o) = [c EXCEPT !.orders = S]
  BY DEF LimitFilled, c, e
<1> HIDE DEF S
<1> QED BY <1>2, <1>3, <1>4 DEF BookType

LEMMA ReducedType ==
  ASSUME NEW b \in BookType, NEW p \in Position, NEW qty \in Nat, NEW fill \in Int,
         qty < p.size
  PROVE  Reduced(b, p, qty, fill) \in BookType
<1> DEFINE move == IF p.side = "LONG" THEN fill - p.entry ELSE p.entry - fill
           pnl  == DefaultLeverage * qty * move - fill * qty * TakerFee
           S    == (b.positions \ {p}) \cup {[p EXCEPT !.size = @ - qty]}
           a    == Realize(b.acct, pnl, p.entry * qty)
<1>1. pnl \in Int
  <2>1. move \in Int
    BY DEF Position
  <2> HIDE DEF move
  <2> QED BY <2>1, BrokerAssumption
<1> HIDE DEF move, pnl
<1>2. a \in Account
  <2>1. p.entry * qty \in Int /\ b.acct \in Account
    BY DEF Position, BookType
  <2> QED BY <1>1, <2>1, RealizeType
<1>3. S \in SUBSET Position
  <2>1. p.size - qty \in Nat
    BY DEF Position
  <2> QED BY <2>1 DEF Position, BookType
<1>4. Reduced(b, p, qty, fill) = [b EXCEPT !.positions = S, !.acct = a]
  BY DEF Reduced, move, pnl
<1> HIDE DEF S, a
<1> QED BY <1>2, <1>3, <1>4 DEF BookType

LEMMA MarketFillType ==
  ASSUME TypeOK, NEW s \in Symbols, NEW side, prices[s] # None
  PROVE  MarketFill(s, side) \in Nat
<1>1. prices[s] \in Prices
  BY DEF TypeOK
<1>2. prices[s] \in Nat /\ Slippage \in Nat /\ Slippage < prices[s]
  BY <1>1, BrokerAssumption
<1> QED BY <1>2 DEF MarketFill, SlippedFill

LEMMA PricesType == Prices \cup {None} \subseteq Nat
<1>1. Prices \subseteq Nat
  BY BrokerAssumption
<1>2. None \in Nat
  BY DEF None
<1> QED BY <1>1, <1>2

LEMMA KnownPriceType ==
  ASSUME TypeOK, NEW s \in Symbols
  PROVE  prices[s] \in Nat
<1>1. prices[s] \in Prices \cup {None}
  BY DEF TypeOK
<1> QED BY <1>1, PricesType

\* A handler that turns the book into another and leaves the rest.
LEMMA BookStepType ==
  ASSUME TypeOK, NEW b \in BookType, Becomes(b),
         prices' \in [Symbols -> Prices \cup {None}],
         marks' \subseteq [symbol : Symbols, gain : Int],
         halted' \in BOOLEAN,
         lock' \in {Free, Emergency} \cup Candle,
         caller' \in {Idle} \cup Call
  PROVE  TypeOK'
  BY DEF TypeOK, BookType, Becomes

LEMMA QuietStepType ==
  ASSUME TypeOK, NEW b \in BookType, Becomes(b),
         UNCHANGED <<prices, marks, halted, lock, caller>>
  PROVE  TypeOK'
  BY BookStepType DEF TypeOK

-----------------------------------------------------------------------------
(* Type correctness, one lemma per group of actions. *)

LEMMA EntryType ==
  ASSUME TypeOK, Entry
  PROVE  TypeOK'
<1>1. PICK s \in Symbols, side \in {"BUY", "SELL"} :
        \/ \E qty \in Reductions : RejectReduce(s, side, qty) \/ ReduceOnly(s, side, qty)
        \/ \E qty \in Qtys, sl \in Prices :
             \/ RejectMarket(s, side, qty, sl)
             \/ \E tp \in Targets \cup {None} :
                  \/ PlaceMarket(s, side, qty, sl, tp)
                  \/ \E x \in Prices : PlaceLimit(s, side, qty, x, sl, tp)
  BY DEF Entry
<1> DEFINE b == Numbered(Book)
<1>2. b \in BookType
  BY BookTyped, NumberedType
<1>3. PositionSide(side) \in {"LONG", "SHORT"} /\ TakerFee \in Nat /\ None \in Nat
  BY BrokerAssumption DEF PositionSide, None
<1>4. ASSUME NEW qty \in Reductions, RejectReduce(s, side, qty)
      PROVE  TypeOK'
  BY <1>2, <1>4, QuietStepType DEF RejectReduce
<1>5. ASSUME NEW qty \in Reductions, ReduceOnly(s, side, qty)
      PROVE  TypeOK'
  <2> DEFINE fill == MarketFill(s, side)
  <2>1. fill \in Nat /\ fill \in Int /\ qty \in Nat
    BY <1>5, MarketFillType, BrokerAssumption DEF ReduceOnly, ReduceRefused
  <2> HIDE DEF b, fill
  <2>2. CASE \E p \in positions :
               /\ p.symbol = s
               /\ \/ qty >= p.size /\ Becomes(Closed(b, p, fill, FALSE))
                  \/ qty < p.size /\ Becomes(Reduced(b, p, qty, fill))
    <3>1. PICK p \in positions :
               \/ qty >= p.size /\ Becomes(Closed(b, p, fill, FALSE))
               \/ qty < p.size /\ Becomes(Reduced(b, p, qty, fill))
      BY <2>2
    <3>2. p \in Position
      BY DEF TypeOK
    <3>3. Closed(b, p, fill, FALSE) \in BookType
      BY <1>2, <2>1, <3>2, ClosedType
    <3>4. qty < p.size => Reduced(b, p, qty, fill) \in BookType
      BY <1>2, <2>1, <3>2, ReducedType
    <3> QED BY <1>5, <3>1, <3>3, <3>4, QuietStepType DEF ReduceOnly
  <2>3. CASE Becomes(Opened(Filled(b), s, PositionSide(side), qty, fill, None,
                            None, TakerFee))
    <3>1. Filled(b) \in BookType
      BY <1>2, FilledType
    <3>2. Opened(Filled(b), s, PositionSide(side), qty, fill, None, None, TakerFee)
            \in BookType
      BY <1>3, <2>1, <3>1, OpenedType
    <3> QED BY <1>5, <2>3, <3>2, QuietStepType DEF ReduceOnly
  <2> QED BY <1>5, <2>2, <2>3 DEF ReduceOnly, b, fill
<1>6. ASSUME NEW qty \in Qtys, NEW sl \in Prices, RejectMarket(s, side, qty, sl)
      PROVE  TypeOK'
  BY <1>2, <1>6, QuietStepType DEF RejectMarket
<1>7. ASSUME NEW qty \in Qtys, NEW sl \in Prices, NEW tp \in Targets \cup {None},
             PlaceMarket(s, side, qty, sl, tp)
      PROVE  TypeOK'
  <2> DEFINE fill == MarketFill(s, side)
             Enter(c) == Opened(Filled(c), s, PositionSide(side), qty, fill, sl,
                                tp, TakerFee)
  <2>1. fill \in Nat /\ fill \in Int /\ qty \in Nat /\ sl \in Nat /\ tp \in Nat
    BY <1>7, MarketFillType, BrokerAssumption DEF PlaceMarket, MarketRefused, None
  <2> HIDE DEF b, fill
  <2>2. ASSUME NEW c \in BookType
        PROVE  Enter(c) \in BookType
    <3>1. Filled(c) \in BookType
      BY FilledType
    <3> QED BY <1>3, <2>1, <3>1, OpenedType
  <2> HIDE DEF Enter
  <2>3. \/ Becomes(Enter(b))
        \/ \E p \in positions : Becomes(Enter(Closed(b, p, fill, FALSE)))
    BY <1>7 DEF PlaceMarket, b, fill, Enter
  <2>4. CASE Becomes(Enter(b))
    BY <1>2, <1>7, <2>2, <2>4, QuietStepType DEF PlaceMarket
  <2>5. CASE \E p \in positions : Becomes(Enter(Closed(b, p, fill, FALSE)))
    <3>1. PICK p \in positions : Becomes(Enter(Closed(b, p, fill, FALSE)))
      BY <2>5
    <3>2. Closed(b, p, fill, FALSE) \in BookType
      BY <1>2, <2>1, ClosedType DEF TypeOK
    <3> QED BY <1>7, <2>2, <3>1, <3>2, QuietStepType DEF PlaceMarket
  <2> QED BY <2>3, <2>4, <2>5
<1>8. ASSUME NEW qty \in Qtys, NEW sl \in Prices, NEW tp \in Targets \cup {None},
             NEW x \in Prices, PlaceLimit(s, side, qty, x, sl, tp)
      PROVE  TypeOK'
  <2> DEFINE o == [key |-> nextOrderID, id |-> db.nextOrderRow, symbol |-> s,
                   side |-> side, type |-> "LIMIT", price |-> x, qty |-> qty,
                   sl |-> sl, tp |-> tp]
             S == Put(b.orders, {o})
             d == InsertOrders(b.db, {o}, 1)
  <2>1. qty \in Nat /\ sl \in Nat /\ tp \in Nat /\ x \in Nat
    BY BrokerAssumption DEF None
  <2>2. o \in Order
    BY <2>1 DEF Order, TypeOK, Tables
  <2> HIDE DEF o, b
  <2>3. S \in SUBSET Order
    BY <1>2, <2>2 DEF Put, BookType
  <2>4. d \in Tables
    <3>1. b.db \in Tables
      BY <1>2 DEF BookType
    <3>2. {o} \in SUBSET Order /\ 1 \in Nat
      BY <2>2
    <3> QED BY <3>1, <3>2, InsertOrdersType
  <2>5. Becomes([b EXCEPT !.orders = S, !.db = d])
    BY <1>8 DEF PlaceLimit, b, o
  <2> HIDE DEF S, d
  <2>6. [b EXCEPT !.orders = S, !.db = d] \in BookType
    BY <1>2, <2>3, <2>4, WithOrders
  <2> QED BY <1>8, <2>5, <2>6, QuietStepType DEF PlaceLimit
<1> QED BY <1>1, <1>4, <1>5, <1>6, <1>7, <1>8

LEMMA ExitType ==
  ASSUME TypeOK, Exit
  PROVE  TypeOK'
<1>1. Book \in BookType
  BY BookTyped
<1>2. ASSUME NEW o \in orders, CancelOrder(o)
      PROVE  TypeOK'
  <2> DEFINE S == Without(orders, o)
             d == Settle(db, {o})
  <2>1. S \in SUBSET Order /\ d \in Tables
    BY SettleType DEF Without, TypeOK
  <2>2. Becomes([Book EXCEPT !.orders = S, !.db = d])
    BY <1>2 DEF CancelOrder, Book
  <2> HIDE DEF S, d
  <2>3. [Book EXCEPT !.orders = S, !.db = d] \in BookType
    BY <1>1, <2>1, WithOrders
  <2> QED BY <1>2, <2>2, <2>3, QuietStepType DEF CancelOrder
<1>3. ASSUME NEW p \in positions, ClosePosition(p)
      PROVE  TypeOK'
  <2>1. p \in Position /\ p.symbol \in Symbols
    BY DEF TypeOK, Position
  <2>2. prices[p.symbol] \in Int
    BY <2>1, KnownPriceType
  <2>3. Closed(Book, p, prices[p.symbol], FALSE) \in BookType
    BY <1>1, <2>1, <2>2, ClosedType
  <2> QED BY <1>3, <2>3, QuietStepType DEF ClosePosition
<1>4. ASSUME NEW p \in positions, EmergencyClose(p)
      PROVE  TypeOK'
  <2> DEFINE x == IF prices[p.symbol] = None THEN p.entry ELSE prices[p.symbol]
  <2>1. p \in Position /\ x \in Int
    <3>1. p \in Position /\ p.symbol \in Symbols /\ p.entry \in Nat
      BY DEF TypeOK, Position
    <3> QED BY <3>1, KnownPriceType
  <2> HIDE DEF x
  <2>2. Closed(Book, p, x, FALSE) \in BookType
    BY <1>1, <2>1, ClosedType
  <2>3. lock' \in {Free, Emergency}
    BY <1>4 DEF EmergencyClose
  <2>4. Becomes(Closed(Book, p, x, FALSE)) /\ UNCHANGED <<prices, marks, halted, caller>>
    BY <1>4 DEF EmergencyClose, x
  <2> QED BY <2>2, <2>3, <2>4, BookStepType DEF TypeOK
<1>5. CASE EmergencyCloseAll
  BY <1>5 DEF EmergencyCloseAll, DropAllOrders, TypeOK
<1> QED BY <1>2, <1>3, <1>4, <1>5 DEF Exit

LEMMA TickType ==
  ASSUME TypeOK, Tick
  PROVE  TypeOK'
<1>1. Book \in BookType
  BY BookTyped
<1>2. ASSUME NEW s \in Symbols, NEW x \in Prices
      PROVE  Priced(s, x) \in [Symbols -> Prices \cup {None}]
  BY DEF Priced, TypeOK
<1>3. ASSUME NEW s \in Symbols, NEW x \in Prices, SetSymbolPrice(s, x)
      PROVE  TypeOK'
  BY <1>2, <1>3 DEF SetSymbolPrice, TypeOK
<1>4. ASSUME NEW s \in Symbols, NEW x \in Prices, UpdatePrice(s, x)
      PROVE  TypeOK'
  <2>1. prices' \in [Symbols -> Prices \cup {None}]
    BY <1>2, <1>4 DEF UpdatePrice
  <2>2. marks' \subseteq [symbol : Symbols, gain : Int]
    <3>1. ASSUME NEW p \in positions
          PROVE  Mark(p, prices') \in [symbol : Symbols, gain : Int]
      <4>1. p \in Position /\ p.symbol \in Symbols
        BY DEF TypeOK, Position
      <4>2. prices'[p.symbol] \in Int
        <5>1. prices'[p.symbol] \in Prices \cup {None}
          BY <2>1, <4>1
        <5> QED BY <5>1, PricesType
      <4>3. Gain(p, prices'[p.symbol]) \in Int
        BY <4>1, <4>2, GainType
      <4> QED BY <4>1, <4>3 DEF Mark
    <3>2. marks' = {Mark(p, prices') : p \in positions}
      BY <1>4 DEF UpdatePrice
    <3> QED BY <3>1, <3>2
  <2>3. \E b \in BookType : Becomes(b)
    <3>1. CASE Becomes(Book)
      BY <1>1, <3>1
    <3>2. CASE \E o \in orders, p \in positions : Becomes(Triggered(Book, o, p, x))
      <4>1. PICK o \in orders, p \in positions : Becomes(Triggered(Book, o, p, x))
        BY <3>2
      <4>2. p \in Position /\ x \in Int
        BY BrokerAssumption DEF TypeOK
      <4> QED BY <1>1, <4>1, <4>2, TriggeredType
    <3> QED BY <1>4, <3>1, <3>2 DEF UpdatePrice
  <2>4. UNCHANGED <<halted, lock, caller>>
    BY <1>4 DEF UpdatePrice
  <2> QED BY <2>1, <2>2, <2>3, <2>4, BookStepType DEF TypeOK
<1>5. ASSUME NEW s \in Symbols, NEW low \in Prices, NEW high \in Prices,
             NEW close \in Prices, ProcessCandle(s, low, high, close)
      PROVE  TypeOK'
  <2>1. lock' \in Candle
    BY <1>5 DEF ProcessCandle, Candle
  <2> QED BY <1>2, <1>5, <2>1 DEF ProcessCandle, TypeOK
<1>6. ASSUME NEW o \in orders, FillLimit(o)
      PROVE  TypeOK'
  <2> DEFINE S == Without(orders, o)
             d == Settle(db, {o})
  <2>1. S \in SUBSET Order /\ d \in Tables /\ o \in Order
    BY SettleType DEF Without, TypeOK
  <2>2. \/ Becomes([Book EXCEPT !.orders = S, !.db = d])
        \/ Becomes(LimitFilled(Book, o))
    BY <1>6 DEF FillLimit, Book
  <2> HIDE DEF S, d
  <2>3. [Book EXCEPT !.orders = S, !.db = d] \in BookType
    BY <1>1, <2>1, WithOrders
  <2>4. LimitFilled(Book, o) \in BookType
    BY <1>1, <2>1, LimitFilledType
  <2> QED BY <1>6, <2>2, <2>3, <2>4, QuietStepType DEF FillLimit
<1>7. CASE FinishCandle
  <2>1. \E b \in BookType : Becomes(b)
    <3>1. ASSUME NEW hit, Becomes([Book EXCEPT !.orders = @ \ hit])
          PROVE  \E b \in BookType : Becomes(b)
      <4>1. [Book EXCEPT !.orders = @ \ hit] \in BookType
        BY <1>1 DEF BookType
      <4> QED BY <3>1, <4>1
    <3>2. ASSUME NEW hit, NEW o \in orders, NEW p \in positions,
                 Becomes([Triggered(Book, o, p, o.price) EXCEPT !.orders = @ \ hit])
          PROVE  \E b \in BookType : Becomes(b)
      <4> DEFINE c == Triggered(Book, o, p, o.price)
      <4>1. p \in Position /\ o.price \in Int
        BY DEF TypeOK, Order
      <4>2. c \in BookType
        BY <1>1, <4>1, TriggeredType
      <4> HIDE DEF c
      <4>3. [c EXCEPT !.orders = @ \ hit] \in BookType
        BY <4>2 DEF BookType
      <4> QED BY <3>2, <4>3 DEF c
    <3> DEFINE stops == Crossed("STOP_MARKET")
               hit == IF stops # {} THEN stops ELSE Crossed("TAKE_PROFIT_MARKET")
    <3>3. hit \subseteq orders
      BY DEF Crossed
    <3>4. \/ Becomes([Book EXCEPT !.orders = @ \ hit])
          \/ \E o \in hit, p \in positions :
               Becomes([Triggered(Book, o, p, o.price) EXCEPT !.orders = @ \ hit])
      BY <1>7 DEF FinishCandle
    <3> HIDE DEF stops, hit
    <3> QED BY <3>1, <3>2, <3>3, <3>4
  <2>2. lock' = Free /\ UNCHANGED <<prices, marks, halted, caller>>
    BY <1>7 DEF FinishCandle
  <2> QED BY <2>1, <2>2, BookStepType DEF TypeOK
<1> QED BY <1>3, <1>4, <1>5, <1>6, <1>7 DEF Tick

LEMMA ProtectType ==
  ASSUME TypeOK, Protect
  PROVE  TypeOK'
<1>1. Book \in BookType
  BY BookTyped
<1>2. ASSUME NEW p \in positions, NEW sl \in Prices, NEW tp \in Targets \cup {None},
             BeginProtect(p, sl, tp)
      PROVE  TypeOK'
  <2> DEFINE S == orders \ Siblings(Book, p)
             d == Settle(db, Siblings(Book, p))
  <2>1. S \in SUBSET Order /\ d \in Tables
    BY SettleType DEF TypeOK
  <2>2. Becomes([Book EXCEPT !.orders = S, !.db = d])
    BY <1>2 DEF BeginProtect, Book
  <2> HIDE DEF S, d
  <2>3. [Book EXCEPT !.orders = S, !.db = d] \in BookType
    BY <1>1, <2>1, WithOrders
  <2>4. caller' \in {Idle} \cup Call
    <3>1. [step |-> "sl", pos |-> p, sl |-> sl, tp |-> tp, slId |-> None,
           tpId |-> None] \in Call
      BY DEF Call, TypeOK, None
    <3> QED BY <1>2, <3>1 DEF BeginProtect
  <2>5. UNCHANGED <<prices, marks, halted, lock>>
    BY <1>2 DEF BeginProtect
  <2> QED BY <2>2, <2>3, <2>4, <2>5, BookStepType DEF TypeOK
<1>3. ASSUME NEW type \in {"STOP_MARKET", "TAKE_PROFIT_MARKET"}, NEW x \in Nat,
             caller \in Call, PlaceExit(type, x), caller' \in Call
      PROVE  TypeOK'
  <2> DEFINE p == caller.pos
             o == [key |-> nextOrderID, id |-> nextOrderID, symbol |-> p.symbol,
                   side |-> IF p.side = "LONG" THEN "SELL" ELSE "BUY",
                   type |-> type, price |-> x, qty |-> p.size, sl |-> None,
                   tp |-> None]
             b == Numbered(Book)
             S == Put(b.orders, {o})
  <2>1. p \in Position
    BY <1>3 DEF Call
  <2> HIDE DEF p
  <2>2. o \in Order
    BY <2>1 DEF Order, Position, TypeOK, None
  <2>3. b \in BookType
    BY <1>1, NumberedType
  <2> HIDE DEF o, b
  <2>4. S \in SUBSET Order
    BY <2>2, <2>3 DEF Put, BookType
  <2>5. Becomes([b EXCEPT !.orders = S]) /\ UNCHANGED <<prices, marks, halted, lock>>
    BY <1>3 DEF PlaceExit, p, o, b
  <2> HIDE DEF S
  <2>6. [b EXCEPT !.orders = S] \in BookType
    BY <2>3, <2>4 DEF BookType
  <2> QED BY <1>3, <2>5, <2>6, BookStepType DEF TypeOK
<1>4. CASE PlaceStop
  <2>1. caller \in Call
    BY <1>4 DEF PlaceStop, TypeOK
  <2>2. caller.sl \in Nat
    BY <2>1, PricesType DEF Call
  <2>3. caller' \in Call
    BY <1>4, <2>1 DEF PlaceStop, Call, TypeOK
  <2> QED BY <1>3, <1>4, <2>1, <2>2, <2>3 DEF PlaceStop
<1>5. CASE PlaceTarget
  <2>1. caller \in Call
    BY <1>5 DEF PlaceTarget, TypeOK
  <2>2. caller.tp \in Nat
    BY <2>1, PricesType, BrokerAssumption DEF Call
  <2>3. caller' \in Call
    BY <1>5, <2>1 DEF PlaceTarget, Call, TypeOK
  <2> QED BY <1>3, <1>5, <2>1, <2>2, <2>3 DEF PlaceTarget
<1>6. CASE Link
  <2>1. caller \in Call
    BY <1>6 DEF Link, TypeOK
  <2>2. \E b \in BookType : Becomes(b)
    <3>1. ASSUME NEW p \in positions,
                 Becomes([Book EXCEPT !.positions = (@ \ {p}) \cup {Relinked(p)},
                                      !.db = UpdatePosition(@, Relinked(p))])
          PROVE  \E b \in BookType : Becomes(b)
      <4> DEFINE q == Relinked(p)
                 S == (positions \ {p}) \cup {q}
                 d == UpdatePosition(db, q)
      <4>1. q \in Position
        <5>1. /\ p \in Position /\ caller.slId \in Nat /\ caller.tpId \in Nat
              /\ caller.sl \in Nat /\ caller.tp \in Nat
          BY <2>1, PricesType, BrokerAssumption DEF TypeOK, Call
        <5>2. [p EXCEPT !.slId = caller.slId, !.sl = caller.sl] \in Position
          BY <5>1 DEF Position
        <5>3. [p EXCEPT !.slId = caller.slId, !.sl = caller.sl,
                        !.tpId = caller.tpId, !.tp = caller.tp] \in Position
          BY <5>1 DEF Position
        <5> QED BY <5>2, <5>3 DEF Relinked
      <4>2. Becomes([Book EXCEPT !.positions = S, !.db = d])
        BY <3>1 DEF Book
      <4> HIDE DEF q
      <4>3. S \in SUBSET Position
        BY <4>1 DEF TypeOK
      <4>4. d \in Tables
        BY <4>1 DEF UpdatePosition, TypeOK, Tables
      <4> HIDE DEF S, d
      <4>5. [Book EXCEPT !.positions = S, !.db = d] \in BookType
        BY <1>1, <4>3, <4>4 DEF BookType
      <4> QED BY <4>2, <4>5
    <3> QED BY <1>1, <1>6, <3>1 DEF Link
  <2>3. caller' = Idle /\ UNCHANGED <<prices, marks, halted, lock>>
    BY <1>6 DEF Link
  <2> QED BY <2>2, <2>3, BookStepType DEF TypeOK
<1> QED BY <1>2, <1>4, <1>5, <1>6 DEF Protect

LEMMA InitType == Init => TypeOK
<1> SUFFICES ASSUME Init PROVE TypeOK
  OBVIOUS
<1>1. acct \in Account
  BY BrokerAssumption DEF Init, Account
<1>2. db \in Tables
  BY <1>1 DEF Init, Tables
<1>3. prices \in [Symbols -> Prices \cup {None}]
  BY DEF Init
<1>4. positions = {} /\ orders = {} /\ marks = {} /\ nextOrderID = 1
  BY DEF Init
<1>5. halted \in BOOLEAN /\ lock \in {Free, Emergency} \cup Candle
      /\ caller \in {Idle} \cup Call
  BY DEF Init
<1> QED BY <1>1, <1>2, <1>3, <1>4, <1>5 DEF TypeOK

\* A step of any client, price or handler keeps the types.
LEMMA NextType == TypeOK /\ [Next]_vars => TypeOK'
<1> SUFFICES ASSUME TypeOK, [Next]_vars PROVE TypeOK'
  OBVIOUS
<1>1. CASE SetHalted
  BY <1>1 DEF SetHalted, TypeOK
<1>2. CASE ResetDailyLoss
  <2>1. acct' \in Account
    BY <1>2 DEF ResetDailyLoss, TypeOK, Account
  <2> QED BY <1>2, <2>1 DEF ResetDailyLoss, TypeOK
<1>3. CASE UNCHANGED vars
  BY <1>3 DEF vars, TypeOK
<1> QED BY <1>1, <1>2, <1>3, EntryType, ExitType, TickType, ProtectType DEF Next

\* The broker's state keeps its types under every sequence of calls.
THEOREM TypeCorrect == Spec => []TypeOK
<1> QED BY InitType, NextType, PTL DEF Spec
-----------------------------------------------------------------------------
(* The account. The wallet model balances, and the daily loss the kill      *)
(* switch reads is complete: both follow from one lemma on what a step does *)
(* to `acct'.                                                               *)

\* The account c is a after realizing pnl and paying the entry fee.
Moved(a, c, pnl, fee) ==
  /\ c.balance = a.balance + pnl - fee
  /\ c.realizedPnL = a.realizedPnL + pnl
  /\ c.entryFees = a.entryFees + fee
  /\ c.dailyLoss = IF pnl < 0 THEN a.dailyLoss - pnl ELSE a.dailyLoss

Moves(a, c) == \E pnl \in Int, fee \in Int : Moved(a, c, pnl, fee)

LEMMA PnlMoves ==
  ASSUME NEW a, NEW c, \E pnl \in Int : Moved(a, c, pnl, 0)
  PROVE  Moves(a, c)
<1>1. PICK pnl \in Int : Moved(a, c, pnl, 0)
  OBVIOUS
<1>2. 0 \in Int
  OBVIOUS
<1> QED BY <1>1, <1>2, Zenon DEF Moves

LEMMA RealizeMoves ==
  ASSUME NEW a \in Account, NEW pnl \in Int, NEW margin \in Int
  PROVE  Moved(a, Realize(a, pnl, margin), pnl, 0)
<1> DEFINE r == Realize(a, pnl, margin)
<1>1. /\ r.balance = a.balance + pnl
      /\ r.realizedPnL = a.realizedPnL + pnl
      /\ r.entryFees = a.entryFees
      /\ r.dailyLoss = IF pnl < 0 THEN a.dailyLoss - pnl ELSE a.dailyLoss
  BY DEF Realize, Account
<1>2. a.balance \in Int /\ a.entryFees \in Int
  BY DEF Account
<1> HIDE DEF r
<1>3. r.balance = a.balance + pnl - 0 /\ r.entryFees = a.entryFees + 0
  BY <1>1, <1>2
<1>4. Moved(a, r, pnl, 0)
  BY <1>1, <1>3 DEF Moved
<1> QED BY <1>4 DEF r

LEMMA ClosedMoves ==
  ASSUME NEW b \in BookType, NEW p \in Position, NEW exit \in Int,
         NEW closing \in BOOLEAN
  PROVE  \E pnl \in Int : Moved(b.acct, Closed(b, p, exit, closing).acct, pnl, 0)
<1> DEFINE x   == SlippedFill(IF p.side = "LONG" THEN "SELL" ELSE "BUY", exit)
           pnl == Gain(p, x) - x * p.size * TakerFee
<1>1. x \in Int
  BY SlippedType
<1>2. pnl \in Int
  <2>1. x * p.size * TakerFee \in Int
    BY <1>1, BrokerAssumption DEF Position
  <2> HIDE DEF x
  <2> QED BY <2>1, <1>1, GainType
<1>3. Closed(b, p, exit, closing).acct = Realize(b.acct, pnl, Margin(p))
  BY DEF Closed
<1> HIDE DEF x, pnl
<1>4. b.acct \in Account /\ Margin(p) \in Int
  BY MarginType DEF BookType
<1>5. Moved(b.acct, Realize(b.acct, pnl, Margin(p)), pnl, 0)
  BY <1>2, <1>4, RealizeMoves
<1> QED BY <1>2, <1>3, <1>5

LEMMA OpenedMoves ==
  ASSUME NEW b \in BookType, NEW symbol \in Symbols,
         NEW side \in {"LONG", "SHORT"}, NEW entry \in Nat, NEW qty \in Nat,
         NEW sl \in Nat, NEW tp \in Nat, NEW feeRate \in Nat
  PROVE  \E fee \in Int :
           Moved(b.acct, Opened(b, symbol, side, qty, entry, sl, tp, feeRate).acct,
                 0, fee)
<1> DEFINE g   == Protection(b, symbol, side, entry, qty, sl, tp)
           p   == [id |-> b.db.nextPosRow, symbol |-> symbol, side |-> side,
                   entry |-> entry, size |-> qty, sl |-> sl, tp |-> tp,
                   slId |-> g.slId, tpId |-> g.tpId]
           fee == entry * qty * feeRate
           a   == b.acct
           c   == [a EXCEPT !.balance = @ - fee, !.usedMargin = @ + Margin(p),
                            !.entryFees = @ + fee]
<1>1. Opened(b, symbol, side, qty, entry, sl, tp, feeRate).acct = c
  BY DEF Opened
<1>2. fee \in Int
  OBVIOUS
<1> HIDE DEF g, p, fee
<1>3. a \in Account
  BY DEF BookType
<1> HIDE DEF a
<1>4. /\ c.balance = a.balance - fee /\ c.realizedPnL = a.realizedPnL
      /\ c.entryFees = a.entryFees + fee /\ c.dailyLoss = a.dailyLoss
  BY <1>3 DEF Account
<1>5. a.balance \in Int /\ a.realizedPnL \in Int
  BY <1>3 DEF Account
<1> HIDE DEF c
<1>6. Moved(a, c, 0, fee)
  BY <1>2, <1>4, <1>5 DEF Moved
<1> QED BY <1>1, <1>2, <1>6 DEF a

\* Closing, then opening, is one move.
LEMMA MovesCompose ==
  ASSUME NEW a \in Account, NEW c, NEW d, NEW pnl \in Int, NEW fee \in Int,
         Moved(a, c, pnl, 0), Moved(c, d, 0, fee)
  PROVE  Moved(a, d, pnl, fee)
<1>1. a.balance \in Int /\ a.realizedPnL \in Int /\ a.entryFees \in Int
      /\ a.dailyLoss \in Int
  BY DEF Account
<1> QED BY <1>1 DEF Moved

LEMMA TriggeredMoves ==
  ASSUME NEW b \in BookType, NEW o, NEW p \in Position, NEW x \in Int
  PROVE  Moves(b.acct, Triggered(b, o, p, x).acct)
<1>1. Triggered(b, o, p, x).acct = Closed(b, p, x, TRUE).acct
  BY DEF Triggered, Closed
<1>2. \E pnl \in Int : Moved(b.acct, Closed(b, p, x, TRUE).acct, pnl, 0)
  BY ClosedMoves
<1> QED BY <1>1, <1>2, PnlMoves

LEMMA LimitFilledMoves ==
  ASSUME NEW b \in BookType, NEW o \in Order
  PROVE  Moves(b.acct, LimitFilled(b, o).acct)
<1> DEFINE e == [b EXCEPT !.db = Settle(@, {o})]
           c == Opened(e, o.symbol, PositionSide(o.side), o.qty, o.price, o.sl,
                       o.tp, MakerFee)
<1>1. e \in BookType /\ e.acct = b.acct
  <2>1. Settle(b.db, {o}) \in Tables
    BY SettleType DEF BookType
  <2> QED BY <2>1 DEF BookType
<1>2. LimitFilled(b, o).acct = c.acct
  BY DEF LimitFilled, Opened
<1> HIDE DEF e
<1>3. \E fee \in Int : Moved(e.acct, c.acct, 0, fee)
  <2>1. /\ o.symbol \in Symbols /\ PositionSide(o.side) \in {"LONG", "SHORT"}
        /\ o.qty \in Nat /\ o.price \in Nat /\ o.sl \in Nat /\ o.tp \in Nat
        /\ MakerFee \in Nat
    BY BrokerAssumption DEF Order, PositionSide
  <2> QED BY <1>1, <2>1, OpenedMoves
<1> QED BY <1>1, <1>2, <1>3 DEF Moves

LEMMA ReducedMoves ==
  ASSUME NEW b \in BookType, NEW p \in Position, NEW qty \in Nat, NEW fill \in Int
  PROVE  Moves(b.acct, Reduced(b, p, qty, fill).acct)
<1> DEFINE move == IF p.side = "LONG" THEN fill - p.entry ELSE p.entry - fill
           pnl  == DefaultLeverage * qty * move - fill * qty * TakerFee
<1>1. pnl \in Int
  <2>1. move \in Int
    BY DEF Position
  <2> HIDE DEF move
  <2> QED BY <2>1, BrokerAssumption
<1>2. Reduced(b, p, qty, fill).acct = Realize(b.acct, pnl, p.entry * qty)
  BY DEF Reduced, BookType
<1> HIDE DEF move, pnl
<1>3. p.entry * qty \in Int /\ b.acct \in Account
  BY DEF Position, BookType
<1>4. Moved(b.acct, Realize(b.acct, pnl, p.entry * qty), pnl, 0)
  BY <1>1, <1>3, RealizeMoves
<1> QED BY <1>1, <1>2, <1>4 DEF Moves

LEMMA EntryMoves ==
  ASSUME TypeOK, Entry
  PROVE  acct' = acct \/ Moves(acct, acct')
<1>1. PICK s \in Symbols, side \in {"BUY", "SELL"} :
        \/ \E qty \in Reductions : RejectReduce(s, side, qty) \/ ReduceOnly(s, side, qty)
        \/ \E qty \in Qtys, sl \in Prices :
             \/ RejectMarket(s, side, qty, sl)
             \/ \E tp \in Targets \cup {None} :
                  \/ PlaceMarket(s, side, qty, sl, tp)
                  \/ \E x \in Prices : PlaceLimit(s, side, qty, x, sl, tp)
  BY DEF Entry
<1> DEFINE b == Numbered(Book)
           fill == MarketFill(s, side)
           posSide == PositionSide(side)
<1>2. b \in BookType /\ b.acct = acct
  <2>1. b.acct = acct
    BY DEF Numbered, Book
  <2> QED BY <2>1, BookTyped, NumberedType
<1>3. posSide \in {"LONG", "SHORT"} /\ TakerFee \in Nat /\ None \in Nat
  BY BrokerAssumption DEF PositionSide, None
<1>4. ASSUME NEW c \in BookType
      PROVE  Filled(c) \in BookType /\ Filled(c).acct = c.acct
  <2>1. Filled(c).acct = c.acct
    BY DEF Filled, BookType
  <2> QED BY <2>1, FilledType
<1>5. ASSUME NEW qty \in Reductions, RejectReduce(s, side, qty)
      PROVE  acct' = acct
  BY <1>2, <1>5 DEF RejectReduce, Becomes
<1>6. ASSUME NEW qty \in Qtys, NEW sl \in Prices, RejectMarket(s, side, qty, sl)
      PROVE  acct' = acct
  BY <1>2, <1>6 DEF RejectMarket, Becomes
<1>7. ASSUME NEW qty \in Qtys, NEW sl \in Prices, NEW tp \in Targets \cup {None},
             NEW x \in Prices, PlaceLimit(s, side, qty, x, sl, tp)
      PROVE  acct' = acct
  BY <1>2, <1>7 DEF PlaceLimit, Becomes, BookType
<1>8. ASSUME NEW qty \in Reductions, ReduceOnly(s, side, qty)
      PROVE  Moves(acct, acct')
  <2>1. fill \in Nat /\ fill \in Int /\ qty \in Nat
    BY <1>8, MarketFillType, BrokerAssumption DEF ReduceOnly, ReduceRefused
  <2>2. \/ \E p \in positions : \/ Becomes(Closed(b, p, fill, FALSE))
                                \/ Becomes(Reduced(b, p, qty, fill))
        \/ Becomes(Opened(Filled(b), s, posSide, qty, fill, None, None, TakerFee))
    BY <1>8 DEF ReduceOnly
  <2> HIDE DEF b, fill, posSide
  <2>3. ASSUME NEW p \in positions
        PROVE  /\ Moves(acct, Closed(b, p, fill, FALSE).acct)
               /\ Moves(acct, Reduced(b, p, qty, fill).acct)
    <3>1. p \in Position
      BY DEF TypeOK
    <3>2. \E pnl \in Int : Moved(b.acct, Closed(b, p, fill, FALSE).acct, pnl, 0)
      BY <1>2, <2>1, <3>1, ClosedMoves
    <3>3. Moves(b.acct, Reduced(b, p, qty, fill).acct)
      BY <1>2, <2>1, <3>1, ReducedMoves
    <3>4. Moves(b.acct, Closed(b, p, fill, FALSE).acct)
      BY <3>2, PnlMoves
    <3> QED BY <1>2, <3>3, <3>4
  <2>4. Moves(acct, Opened(Filled(b), s, posSide, qty, fill, None, None, TakerFee).acct)
    <3>1. Filled(b) \in BookType /\ Filled(b).acct = acct
      BY <1>2, <1>4
    <3>2. \E fee \in Int :
            Moved(Filled(b).acct,
                  Opened(Filled(b), s, posSide, qty, fill, None, None, TakerFee).acct,
                  0, fee)
      BY <1>3, <2>1, <3>1, OpenedMoves
    <3> QED BY <3>1, <3>2 DEF Moves
  <2> QED BY <2>2, <2>3, <2>4 DEF Becomes
<1>9. ASSUME NEW qty \in Qtys, NEW sl \in Prices, NEW tp \in Targets \cup {None},
             PlaceMarket(s, side, qty, sl, tp)
      PROVE  Moves(acct, acct')
  <2> DEFINE Enter(c) == Opened(Filled(c), s, posSide, qty, fill, sl, tp, TakerFee)
  <2>1. fill \in Nat /\ fill \in Int /\ qty \in Nat /\ sl \in Nat /\ tp \in Nat
    BY <1>9, MarketFillType, PricesType, BrokerAssumption
    DEF PlaceMarket, MarketRefused
  <2>2. \/ Becomes(Enter(b))
        \/ \E p \in positions : Becomes(Enter(Closed(b, p, fill, FALSE)))
    BY <1>9 DEF PlaceMarket
  <2> HIDE DEF b, fill, posSide
  <2>3. ASSUME NEW c \in BookType
        PROVE  \E fee \in Int : Moved(c.acct, Enter(c).acct, 0, fee)
    <3>1. Filled(c) \in BookType /\ Filled(c).acct = c.acct
      BY <1>4
    <3>2. \E fee \in Int : Moved(Filled(c).acct, Enter(c).acct, 0, fee)
      BY <1>3, <2>1, <3>1, OpenedMoves
    <3> HIDE DEF Enter
    <3> QED BY <3>1, <3>2
  <2> HIDE DEF Enter
  <2>4. CASE Becomes(Enter(b))
    BY <1>2, <2>3, <2>4 DEF Becomes, Moves
  <2>5. ASSUME NEW p \in positions, Becomes(Enter(Closed(b, p, fill, FALSE)))
        PROVE  Moves(acct, acct')
    <3> DEFINE c == Closed(b, p, fill, FALSE)
    <3>1. p \in Position
      BY DEF TypeOK
    <3>2. c \in BookType
      BY <1>2, <2>1, <3>1, ClosedType
    <3>3. PICK pnl \in Int : Moved(acct, c.acct, pnl, 0)
      BY <1>2, <2>1, <3>1, ClosedMoves
    <3>4. PICK fee \in Int : Moved(c.acct, acct', 0, fee)
      BY <2>3, <2>5, <3>2 DEF Becomes
    <3>5. Moved(acct, acct', pnl, fee)
      BY <3>3, <3>4, MovesCompose DEF TypeOK
    <3> QED BY <3>5 DEF Moves
  <2> QED BY <2>2, <2>4, <2>5
<1> HIDE DEF b, fill, posSide
<1> QED BY <1>1, <1>5, <1>6, <1>7, <1>8, <1>9

LEMMA ExitMoves ==
  ASSUME TypeOK, Exit
  PROVE  acct' = acct \/ Moves(acct, acct')
<1>1. Book \in BookType /\ Book.acct = acct
  BY BookTyped DEF Book
<1>2. ASSUME NEW o \in orders, CancelOrder(o)
      PROVE  acct' = acct
  BY <1>2 DEF CancelOrder, Becomes, Book
<1>3. ASSUME NEW p \in positions, NEW x \in Int, Becomes(Closed(Book, p, x, FALSE))
      PROVE  Moves(acct, acct')
  <2>1. \E pnl \in Int : Moved(acct, Closed(Book, p, x, FALSE).acct, pnl, 0)
    BY <1>1, ClosedMoves DEF TypeOK
  <2>2. Moves(acct, Closed(Book, p, x, FALSE).acct)
    BY <2>1, PnlMoves
  <2> QED BY <1>3, <2>2 DEF Becomes
<1>4. ASSUME NEW p \in positions
      PROVE  p.entry \in Int /\ prices[p.symbol] \in Int
  <2>1. p.symbol \in Symbols /\ p.entry \in Int
    BY DEF TypeOK, Position
  <2> QED BY <2>1, KnownPriceType
<1>5. ASSUME NEW p \in positions, ClosePosition(p)
      PROVE  Moves(acct, acct')
  BY <1>3, <1>4, <1>5 DEF ClosePosition
<1>6. ASSUME NEW p \in positions, EmergencyClose(p)
      PROVE  Moves(acct, acct')
  BY <1>3, <1>4, <1>6 DEF EmergencyClose
<1>7. CASE EmergencyCloseAll
  BY <1>7 DEF EmergencyCloseAll, DropAllOrders
<1> QED BY <1>2, <1>5, <1>6, <1>7 DEF Exit

LEMMA TickMoves ==
  ASSUME TypeOK, Tick
  PROVE  acct' = acct \/ Moves(acct, acct')
<1>1. Book \in BookType /\ Book.acct = acct
  BY BookTyped DEF Book
<1>2. ASSUME NEW o \in orders, NEW p \in positions, NEW x \in Int
      PROVE  Moves(acct, Triggered(Book, o, p, x).acct)
  BY <1>1, TriggeredMoves DEF TypeOK
<1>3. ASSUME NEW s \in Symbols, NEW x \in Prices, SetSymbolPrice(s, x) \/ UpdatePrice(s, x)
      PROVE  acct' = acct \/ Moves(acct, acct')
  <2>1. x \in Int
    BY BrokerAssumption
  <2> QED BY <1>1, <1>2, <1>3, <2>1 DEF SetSymbolPrice, UpdatePrice, Becomes
<1>4. ASSUME NEW s \in Symbols, NEW low \in Prices, NEW high \in Prices,
             NEW close \in Prices, ProcessCandle(s, low, high, close)
      PROVE  acct' = acct
  BY <1>4 DEF ProcessCandle
<1>5. ASSUME NEW o \in orders, FillLimit(o)
      PROVE  acct' = acct \/ Moves(acct, acct')
  <2>1. Moves(acct, LimitFilled(Book, o).acct)
    BY <1>1, LimitFilledMoves DEF TypeOK
  <2>2. [Book EXCEPT !.orders = Without(@, o), !.db = Settle(@, {o})].acct = acct
    BY DEF Book
  <2> QED BY <1>5, <2>1, <2>2 DEF FillLimit, Becomes
<1>6. CASE FinishCandle
  <2> DEFINE stops == Crossed("STOP_MARKET")
             hit == IF stops # {} THEN stops ELSE Crossed("TAKE_PROFIT_MARKET")
  <2>1. hit \subseteq orders
    BY DEF Crossed
  <2>2. \/ Becomes([Book EXCEPT !.orders = @ \ hit])
        \/ \E o \in hit, p \in positions :
             Becomes([Triggered(Book, o, p, o.price) EXCEPT !.orders = @ \ hit])
    BY <1>6 DEF FinishCandle
  <2> HIDE DEF stops, hit
  <2>3. CASE Becomes([Book EXCEPT !.orders = @ \ hit])
    BY <2>3 DEF Becomes, Book
  <2>4. ASSUME NEW o \in hit, NEW p \in positions,
               Becomes([Triggered(Book, o, p, o.price) EXCEPT !.orders = @ \ hit])
        PROVE  Moves(acct, acct')
    <3> DEFINE c == Triggered(Book, o, p, o.price)
    <3>1. o \in orders /\ o.price \in Int /\ p \in Position
      BY <2>1 DEF TypeOK, Order
    <3>2. c \in BookType
      BY <1>1, <3>1, TriggeredType
    <3>3. Moves(acct, c.acct)
      BY <1>2, <3>1
    <3> HIDE DEF c
    <3>4. [c EXCEPT !.orders = @ \ hit].acct = c.acct
      BY <3>2 DEF BookType
    <3> QED BY <2>4, <3>3, <3>4 DEF Becomes, c
  <2> QED BY <2>2, <2>3, <2>4
<1> QED BY <1>3, <1>4, <1>5, <1>6 DEF Tick

LEMMA ProtectMoves ==
  ASSUME TypeOK, Protect
  PROVE  acct' = acct
<1>1. ASSUME NEW p \in positions, NEW sl \in Prices, NEW tp \in Targets \cup {None},
             BeginProtect(p, sl, tp)
      PROVE  acct' = acct
  BY <1>1 DEF BeginProtect, Becomes, Book
<1>2. CASE PlaceStop
  BY <1>2 DEF PlaceStop, PlaceExit, Becomes, Numbered, Book
<1>3. CASE PlaceTarget
  BY <1>3 DEF PlaceTarget, PlaceExit, Becomes, Numbered, Book
<1>4. CASE Link
  BY <1>4 DEF Link, Becomes, Book
<1> QED BY <1>1, <1>2, <1>3, <1>4 DEF Protect

\* What a step does to the account: nothing, a daily reset, or one move.
LEMMA NextMoves ==
  ASSUME TypeOK, [Next]_vars
  PROVE  acct' = acct \/ ResetDailyLoss \/ Moves(acct, acct')
  BY EntryMoves, ExitMoves, TickMoves, ProtectMoves DEF Next, SetHalted, vars
-----------------------------------------------------------------------------
\* The balance is the starting balance, the realized profits and the entry fees,
\* whatever was opened, replaced, reduced, stopped or closed in an emergency.
THEOREM WalletBalances == Spec => []LedgerBalanced
<1>1. Init => LedgerBalanced
  BY BrokerAssumption DEF Init, LedgerBalanced
<1>2. TypeOK /\ LedgerBalanced /\ [Next]_vars => LedgerBalanced'
  <2> SUFFICES ASSUME TypeOK, LedgerBalanced, [Next]_vars PROVE LedgerBalanced'
    OBVIOUS
  <2>1. /\ acct.balance \in Int /\ acct.realizedPnL \in Int
        /\ acct.entryFees \in Int /\ StartingBalance \in Int
    BY BrokerAssumption DEF TypeOK, Account
  <2>2. CASE acct' = acct
    BY <2>2 DEF LedgerBalanced
  <2>3. CASE ResetDailyLoss
    BY <2>3 DEF ResetDailyLoss, LedgerBalanced, TypeOK, Account
  <2>4. CASE Moves(acct, acct')
    BY <2>1, <2>4 DEF Moves, Moved, LedgerBalanced
  <2> QED BY <2>2, <2>3, <2>4, NextMoves
<1> QED BY <1>1, <1>2, TypeCorrect, PTL DEF Spec

\* No path to a realized loss misses the daily loss.
THEOREM LossesCounted == Spec => EveryLossCounted
<1> DEFINE loss == acct.realizedPnL - acct'.realizedPnL
           A == loss > 0 => acct'.dailyLoss = acct.dailyLoss + loss
<1>1. TypeOK /\ [Next]_vars => [A]_vars
  <2> SUFFICES ASSUME TypeOK, [Next]_vars PROVE A
    OBVIOUS
  <2>1. acct.realizedPnL \in Int /\ acct.dailyLoss \in Int
    BY DEF TypeOK, Account
  <2>2. CASE acct' = acct
    BY <2>1, <2>2
  <2>3. CASE ResetDailyLoss
    BY <2>1, <2>3 DEF ResetDailyLoss, TypeOK, Account
  <2>4. CASE Moves(acct, acct')
    BY <2>1, <2>4 DEF Moves, Moved
  <2> QED BY <2>2, <2>3, <2>4, NextMoves
<1> QED BY <1>1, TypeCorrect, PTL DEF Spec, EveryLossCounted
-----------------------------------------------------------------------------
(* The tables. NotSaved is what the clients of this part never call: a      *)
(* reduction and the orders of SetProtectiveOrders are kept in memory only. *)

NotSaved == {"reduce", "setProtective"}

\* Rows are numbered once, below the next number.
Numbers(d) ==
  /\ \A o \in d.orders : o.id < d.nextOrderRow
  /\ \A o, r \in d.orders : o.id = r.id => o = r
  /\ \A p \in d.positions : p.id < d.nextPosRow
  /\ \A p, q \in d.positions : p.id = q.id => p = q

Saved(b) ==
  /\ b.orders \subseteq b.db.orders /\ b.positions \subseteq b.db.positions
  /\ Numbers(b.db)

\* The inductive invariant: rows are deleted by number, so what is in memory
\* keeps its row only because no two rows share one.
SavedInv ==
  /\ orders \subseteq db.orders /\ positions \subseteq db.positions
  /\ Numbers(db)
  /\ caller = Idle

LEMMA SettleKeeps ==
  ASSUME NEW d \in Tables, NEW done
  PROVE  LET e == Settle(d, done)
         IN  /\ e.orders = {r \in d.orders : \A o \in done : r.id # o.id}
             /\ e.positions = d.positions /\ e.nextPosRow = d.nextPosRow
             /\ e.nextOrderRow = d.nextOrderRow
             /\ Numbers(d) => Numbers(e)
  BY DEF Settle, Tables, Numbers

LEMMA InsertSettledKeeps ==
  ASSUME NEW d \in Tables
  PROVE  LET e == InsertSettled(d)
         IN  /\ e \in Tables
             /\ e.orders = d.orders /\ e.positions = d.positions
             /\ Numbers(d) => Numbers(e)
<1> DEFINE e == InsertSettled(d)
<1>1. /\ e \in Tables /\ e.orders = d.orders /\ e.positions = d.positions
      /\ e.nextPosRow = d.nextPosRow /\ e.nextOrderRow = d.nextOrderRow + 1
      /\ d.nextOrderRow \in Nat
  BY DEF InsertSettled, Tables
<1>2. \A o \in d.orders : o.id \in Nat
  BY DEF Tables, Order
<1> HIDE DEF e
<1>3. Numbers(d) => Numbers(e)
  BY <1>1, <1>2 DEF Numbers
<1> QED BY <1>1, <1>3 DEF e

\* An order leaves the map of open orders by its key and the table by its row.
LEMMA OneSettled ==
  ASSUME NEW d \in Tables, Numbers(d), NEW S \in SUBSET d.orders,
         NEW T \in SUBSET S, NEW o \in S
  PROVE  Without(T, o) \subseteq Settle(d, {o}).orders
  BY SettleKeeps DEF Without, Numbers

LEMMA ClosedSaved ==
  ASSUME NEW b \in BookType, Saved(b), NEW p \in b.positions, NEW exit \in Int,
         NEW closing \in BOOLEAN
  PROVE  /\ Saved(Closed(b, p, exit, closing))
         /\ Closed(b, p, exit, closing).orders \subseteq b.orders
<1> DEFINE R    == Siblings(b, p)
           done == Settle(b.db, R)
           d    == IF closing THEN done ELSE InsertSettled(done)
           x    == SlippedFill(IF p.side = "LONG" THEN "SELL" ELSE "BUY", exit)
           a    == Realize(b.acct, Gain(p, x) - x * p.size * TakerFee, Margin(p))
           c    == Closed(b, p, exit, closing)
<1>1. /\ c.positions = {q \in b.positions : q.symbol # p.symbol}
      /\ c.orders = b.orders \ R
      /\ c.db = DropPosition(d, p, a)
  BY DEF Closed
<1>2. R \subseteq b.orders /\ b.db \in Tables
  BY DEF Siblings, BookType
<1> HIDE DEF R, a, c
<1>3. /\ done \in Tables /\ Numbers(done) /\ done.positions = b.db.positions
      /\ b.orders \ R \subseteq done.orders
  BY <1>2, SettleType, SettleKeeps DEF Saved, Numbers
<1> HIDE DEF done
<1>4. /\ d \in Tables /\ Numbers(d) /\ d.positions = b.db.positions
      /\ b.orders \ R \subseteq d.orders
  BY <1>3, InsertSettledKeeps
<1> HIDE DEF d
<1>5. /\ c.db.orders = d.orders /\ c.db.nextOrderRow = d.nextOrderRow
      /\ c.db.positions = {r \in d.positions : r.id # p.id}
      /\ c.db.nextPosRow = d.nextPosRow
  BY <1>1, <1>4 DEF DropPosition, Tables
<1>6. Numbers(c.db)
  BY <1>4, <1>5 DEF Numbers
<1>7. c.positions \subseteq c.db.positions
  BY <1>1, <1>4, <1>5 DEF Saved, Numbers
<1> QED BY <1>1, <1>4, <1>5, <1>6, <1>7 DEF Saved, c

\* The protective orders of an entry take the next rows, one each.
LEMMA ProtectionRows ==
  ASSUME NEW b \in BookType, NEW symbol, NEW side, NEW entry, NEW qty, NEW sl, NEW tp
  PROVE  LET g == Protection(b, symbol, side, entry, qty, sl, tp)
         IN  /\ \A o \in g.new : /\ o.id >= b.db.nextOrderRow
                                 /\ o.id < b.db.nextOrderRow + g.count
             /\ \A o, r \in g.new : o.id = r.id => o = r
<1> DEFINE exitSide == IF side = "LONG" THEN "SELL" ELSE "BUY"
           wanted   == tp # None /\ OnProfitSide(side, tp, entry)
           stops    == IF sl = None THEN 0 ELSE 1
           targets  == IF wanted THEN 1 ELSE 0
           row      == b.db.nextOrderRow
           ExitOrder(k, type, x) ==
             [key |-> b.nextOrderID + k, id |-> row + k, symbol |-> symbol,
              side |-> exitSide, type |-> type, price |-> x, qty |-> qty,
              sl |-> None, tp |-> None]
           stop   == ExitOrder(0, "STOP_MARKET", sl)
           target == ExitOrder(stops, "TAKE_PROFIT_MARKET", tp)
           g == Protection(b, symbol, side, entry, qty, sl, tp)
<1>1. row \in Nat
  BY DEF BookType, Tables
<1>2. /\ g.new = {ExitOrder(0, "STOP_MARKET", sl) : i \in 1 .. stops}
                   \cup {ExitOrder(stops, "TAKE_PROFIT_MARKET", tp) : i \in 1 .. targets}
      /\ g.count = stops + targets
  BY DEF Protection
<1>3. stop.id = row /\ target.id = row + stops
  BY <1>1
<1>4. /\ \A o \in g.new : (o = stop /\ stops = 1) \/ (o = target /\ targets = 1)
      /\ stops \in {0, 1} /\ targets \in {0, 1}
  <2> HIDE DEF ExitOrder, wanted, g
  <2> QED BY <1>2
<1> HIDE DEF stop, target, g, row, stops, targets
<1>5. /\ \A o \in g.new : o.id >= row /\ o.id < row + g.count
      /\ \A o, r \in g.new : o.id = r.id => o = r
  <2>1. g.count = stops + targets
    BY <1>2
  <2> QED BY <1>1, <1>3, <1>4, <2>1
<1> QED BY <1>5 DEF g, row

\* An entry saves its orders and its position. S is what of the open orders had
\* its row before.
LEMMA OpenedSaved ==
  ASSUME NEW b \in BookType, NEW symbol \in Symbols,
         NEW side \in {"LONG", "SHORT"}, NEW entry \in Nat, NEW qty \in Nat,
         NEW sl \in Nat, NEW tp \in Nat, NEW feeRate \in Nat,
         Numbers(b.db), b.positions \subseteq b.db.positions,
         NEW S \in SUBSET b.db.orders
  PROVE  LET c == Opened(b, symbol, side, qty, entry, sl, tp, feeRate)
         IN  /\ Numbers(c.db) /\ c.positions \subseteq c.db.positions
             /\ S \cup (c.orders \ b.orders) \subseteq c.db.orders
<1> DEFINE g == Protection(b, symbol, side, entry, qty, sl, tp)
           p == [id |-> b.db.nextPosRow, symbol |-> symbol, side |-> side,
                 entry |-> entry, size |-> qty, sl |-> sl, tp |-> tp,
                 slId |-> g.slId, tpId |-> g.tpId]
           fee == entry * qty * feeRate
           a   == [b.acct EXCEPT !.balance = @ - fee, !.usedMargin = @ + Margin(p),
                                 !.entryFees = @ + fee]
           row == b.db.nextOrderRow
           d == InsertOrders(b.db, g.new, g.count)
           c == Opened(b, symbol, side, qty, entry, sl, tp, feeRate)
<1>1. /\ c.positions = {q \in b.positions : q.symbol # symbol} \cup {p}
      /\ c.orders = Put(b.orders, g.new)
      /\ c.db = InsertPosition(d, p, a)
  BY DEF Opened
<1>2. p.id = b.db.nextPosRow
  OBVIOUS
<1>3. /\ g.new \subseteq Order /\ g.count \in {0, 1, 2}
      /\ \A o \in g.new : o.id >= row /\ o.id < row + g.count
      /\ \A o, r \in g.new : o.id = r.id => o = r
  BY ProtectionType, ProtectionRows
<1> HIDE DEF g, p, fee, a, c
<1>4. b.db \in Tables /\ g.new \in SUBSET Order /\ g.count \in Nat /\ row \in Nat
  BY <1>3 DEF BookType, Tables
<1>5. /\ d \in Tables
      /\ d.orders = b.db.orders \cup g.new /\ d.nextOrderRow = row + g.count
      /\ d.positions = b.db.positions /\ d.nextPosRow = b.db.nextPosRow
  BY <1>4, InsertOrdersType DEF InsertOrders, Tables
<1> HIDE DEF d
<1>6. /\ c.db.orders = d.orders /\ c.db.nextOrderRow = d.nextOrderRow
      /\ c.db.positions = d.positions \cup {p}
      /\ c.db.nextPosRow = d.nextPosRow + 1
  BY <1>1, <1>5 DEF InsertPosition, Tables
<1>7. /\ \A o \in b.db.orders \cup g.new : o.id \in Nat
      /\ \A q \in b.db.positions : q.id \in Nat
      /\ b.db.nextPosRow \in Nat
  BY <1>4 DEF Tables, Order, Position
<1>8. /\ \A o \in c.db.orders : o.id < c.db.nextOrderRow
      /\ \A o, r \in c.db.orders : o.id = r.id => o = r
  <2>1. \A o \in b.db.orders : o.id < row
    BY DEF Numbers, row
  <2>2. \A o \in c.db.orders : o.id < c.db.nextOrderRow
    BY <1>3, <1>4, <1>5, <1>6, <1>7, <2>1
  <2>3. \A o \in b.db.orders, r \in g.new : o.id # r.id
    BY <1>3, <1>4, <1>7, <2>1
  <2>4. \A o, r \in b.db.orders : o.id = r.id => o = r
    BY DEF Numbers
  <2> QED BY <1>3, <1>5, <1>6, <2>2, <2>3, <2>4
<1>9. /\ \A q \in c.db.positions : q.id < c.db.nextPosRow
      /\ \A q, r \in c.db.positions : q.id = r.id => q = r
  BY <1>2, <1>5, <1>6, <1>7 DEF Numbers
<1>10. S \cup (c.orders \ b.orders) \subseteq c.db.orders
  BY <1>1, <1>5, <1>6 DEF Put
<1> QED BY <1>1, <1>5, <1>6, <1>8, <1>9, <1>10 DEF Numbers, c

LEMMA TriggeredSaved ==
  ASSUME NEW b \in BookType, Saved(b), NEW o \in b.orders, NEW p \in b.positions,
         NEW x \in Int
  PROVE  Saved(Triggered(b, o, p, x))
<1> DEFINE e == Closed(b, p, x, TRUE)
           c == Triggered(b, o, p, x)
<1>1. Saved(e) /\ e.orders \subseteq b.orders /\ e \in BookType
  <2>1. p \in Position
    BY DEF BookType
  <2> QED BY <2>1, ClosedSaved, ClosedType
<1> HIDE DEF e
<1>2. /\ c.positions = e.positions /\ c.orders = Without(e.orders, o)
      /\ c.db = Settle(e.db, {o})
  BY <1>1 DEF Triggered, e, BookType
<1> HIDE DEF c
<1>3. c.orders \subseteq c.db.orders
  <2>1. Without(e.orders, o) \subseteq {r \in e.orders : r.id # o.id}
    BY <1>1 DEF Without, Saved, Numbers
  <2> QED BY <1>1, <1>2, <2>1, SettleKeeps DEF Saved, BookType
<1>4. c.db.positions = e.db.positions /\ Numbers(c.db)
  BY <1>1, <1>2, SettleKeeps DEF Saved, BookType
<1> QED BY <1>1, <1>2, <1>3, <1>4 DEF Saved, c

\* A filled limit order is settled before the entry and deleted after it.
LEMMA LimitFilledSaved ==
  ASSUME NEW b \in BookType, Saved(b), NEW o \in b.orders
  PROVE  Saved(LimitFilled(b, o))
<1> DEFINE e == [b EXCEPT !.db = Settle(@, {o})]
           c == Opened(e, o.symbol, PositionSide(o.side), o.qty, o.price, o.sl,
                       o.tp, MakerFee)
           f == LimitFilled(b, o)
           S == Without(b.orders, o)
<1>1. /\ Settle(b.db, {o}) \in Tables /\ Numbers(Settle(b.db, {o}))
      /\ S \subseteq Settle(b.db, {o}).orders
      /\ Settle(b.db, {o}).positions = b.db.positions
  <2>1. b.db \in Tables /\ b.orders \in SUBSET b.db.orders /\ Numbers(b.db)
    BY DEF BookType, Saved
  <2> QED BY <2>1, SettleType, SettleKeeps, OneSettled
<1>2. /\ e \in BookType /\ e.db = Settle(b.db, {o})
      /\ e.positions = b.positions /\ e.orders = b.orders
  BY <1>1 DEF BookType
<1> HIDE DEF e, S
<1>3. /\ Numbers(c.db) /\ c.positions \subseteq c.db.positions
      /\ S \cup (c.orders \ e.orders) \subseteq c.db.orders
  <2>1. /\ o.symbol \in Symbols /\ PositionSide(o.side) \in {"LONG", "SHORT"}
        /\ o.qty \in Nat /\ o.price \in Nat /\ o.sl \in Nat /\ o.tp \in Nat
        /\ MakerFee \in Nat
    BY BrokerAssumption DEF BookType, Order, PositionSide
  <2>2. /\ Numbers(e.db) /\ e.positions \subseteq e.db.positions
        /\ S \in SUBSET e.db.orders
    BY <1>1, <1>2 DEF Saved
  <2> QED BY <1>2, <2>1, <2>2, OpenedSaved
<1>4. f.positions = c.positions /\ f.db = c.db /\ f.orders = Without(c.orders, o)
  BY DEF LimitFilled, Opened, e
<1> HIDE DEF c, f
<1>5. f.orders \subseteq S \cup (c.orders \ e.orders)
  BY <1>2, <1>4 DEF Without, S
<1> QED BY <1>3, <1>4, <1>5 DEF Saved, f

LEMMA NumberedSaved ==
  ASSUME NEW b \in BookType, Saved(b)
  PROVE  Saved(Numbered(b)) /\ Numbered(b) \in BookType
<1>1. Numbered(b).orders = b.orders /\ Numbered(b).positions = b.positions
      /\ Numbered(b).db = b.db
  BY DEF Numbered, BookType
<1> QED BY <1>1, NumberedType DEF Saved

LEMMA BookSaved ==
  ASSUME TypeOK, SavedInv
  PROVE  /\ Book \in BookType /\ Saved(Book)
         /\ Book.orders = orders /\ Book.positions = positions /\ Book.db = db
  BY BookTyped DEF Book, SavedInv, Saved

LEMMA StepSaved ==
  ASSUME SavedInv, NEW b, Becomes(b), Saved(b), UNCHANGED caller
  PROVE  SavedInv'
  BY DEF SavedInv, Becomes, Saved

LEMMA EntrySaved ==
  ASSUME TypeOK, SavedInv, Entry, "reduce" \notin ClientOps
  PROVE  SavedInv'
<1>1. PICK s \in Symbols, side \in {"BUY", "SELL"}, qty \in Qtys, sl \in Prices :
        \/ RejectMarket(s, side, qty, sl)
        \/ \E tp \in Targets \cup {None} :
             \/ PlaceMarket(s, side, qty, sl, tp)
             \/ \E x \in Prices : PlaceLimit(s, side, qty, x, sl, tp)
  BY DEF Entry, RejectReduce, ReduceOnly, Calls
<1> DEFINE b == Numbered(Book)
<1>2. b \in BookType /\ Saved(b)
  BY BookSaved, NumberedSaved
<1>3. CASE RejectMarket(s, side, qty, sl)
  BY <1>2, <1>3, StepSaved DEF RejectMarket
<1>4. ASSUME NEW tp \in Targets \cup {None}, PlaceMarket(s, side, qty, sl, tp)
      PROVE  SavedInv'
  <2> DEFINE fill == MarketFill(s, side)
             Enter(c) == Opened(Filled(c), s, PositionSide(side), qty, fill, sl, tp,
                                TakerFee)
  <2>1. caller' = caller /\ prices[s] # None
    BY <1>4 DEF PlaceMarket, MarketRefused
  <2>2. fill \in Nat /\ fill \in Int
    BY <2>1, MarketFillType
  <2>3. \/ Becomes(Enter(b))
        \/ \E p \in positions : Becomes(Enter(Closed(b, p, fill, FALSE)))
    BY <1>4 DEF PlaceMarket
  <2>4. /\ PositionSide(side) \in {"LONG", "SHORT"} /\ TakerFee \in Nat
        /\ qty \in Nat /\ sl \in Nat /\ tp \in Nat
    BY BrokerAssumption, PricesType DEF PositionSide, None
  <2>5. b.positions = positions
    BY DEF Numbered, Book
  <2> HIDE DEF b, fill
  <2>6. ASSUME NEW c \in BookType, Saved(c)
        PROVE  Saved(Enter(c))
    <3> DEFINE f == Filled(c)
    <3>1. f \in BookType
      BY FilledType
    <3>2. f.db = InsertSettled(c.db) /\ f.orders = c.orders /\ f.positions = c.positions
      BY DEF Filled, BookType
    <3> HIDE DEF f
    <3>3. /\ Numbers(f.db) /\ f.positions \subseteq f.db.positions
          /\ f.orders \in SUBSET f.db.orders
      BY <2>6, <3>2, InsertSettledKeeps DEF Saved, BookType
    <3> DEFINE g == Opened(f, s, PositionSide(side), qty, fill, sl, tp, TakerFee)
    <3>4. /\ Numbers(g.db) /\ g.positions \subseteq g.db.positions
          /\ f.orders \cup (g.orders \ f.orders) \subseteq g.db.orders
      BY <2>2, <2>4, <3>1, <3>3, OpenedSaved
    <3> HIDE DEF g
    <3>5. Saved(g)
      BY <3>4 DEF Saved
    <3> QED BY <3>5 DEF g, f
  <2>7. ASSUME Becomes(Enter(b)) PROVE SavedInv'
    <3>1. Saved(Enter(b))
      BY <1>2, <2>6
    <3> HIDE DEF Enter
    <3> QED BY <2>1, <2>7, <3>1, StepSaved
  <2>8. ASSUME NEW p \in positions, Becomes(Enter(Closed(b, p, fill, FALSE)))
        PROVE  SavedInv'
    <3> DEFINE c == Closed(b, p, fill, FALSE)
    <3>1. p \in Position /\ p \in b.positions
      BY <2>5 DEF TypeOK
    <3>2. c \in BookType /\ Saved(c)
      BY <1>2, <2>2, <3>1, ClosedType, ClosedSaved
    <3>3. Becomes(Enter(c))
      BY <2>8
    <3> HIDE DEF c
    <3>4. Saved(Enter(c))
      BY <2>6, <3>2
    <3> HIDE DEF Enter
    <3> QED BY <2>1, <3>3, <3>4, StepSaved
  <2> QED BY <2>3, <2>7, <2>8
<1>5. ASSUME NEW tp \in Targets \cup {None}, NEW x \in Prices,
             PlaceLimit(s, side, qty, x, sl, tp)
      PROVE  SavedInv'
  <2> DEFINE o == [key |-> nextOrderID, id |-> db.nextOrderRow, symbol |-> s,
                   side |-> side, type |-> "LIMIT", price |-> x, qty |-> qty,
                   sl |-> sl, tp |-> tp]
  <2>1. /\ orders' = Put(orders, {o}) /\ positions' = positions
        /\ db' = InsertOrders(db, {o}, 1) /\ caller' = caller
    BY <1>5 DEF PlaceLimit, Becomes, Numbered, Book
  <2>2. o.id = db.nextOrderRow
    OBVIOUS
  <2> HIDE DEF o
  <2>3. /\ db'.orders = db.orders \cup {o} /\ db'.positions = db.positions
        /\ db'.nextOrderRow = db.nextOrderRow + 1 /\ db'.nextPosRow = db.nextPosRow
        /\ db.nextOrderRow \in Nat /\ \A q \in db.orders : q.id \in Nat
    BY <2>1 DEF InsertOrders, TypeOK, Tables, Order
  <2>4. Numbers(db')
    BY <2>2, <2>3 DEF SavedInv, Numbers
  <2> QED BY <2>1, <2>3, <2>4 DEF SavedInv, Put
<1> QED BY <1>1, <1>3, <1>4, <1>5

LEMMA ExitSaved ==
  ASSUME TypeOK, SavedInv, Exit
  PROVE  SavedInv'
<1>1. /\ Book \in BookType /\ Saved(Book)
      /\ Book.positions = positions
  BY BookSaved
<1>2. ASSUME NEW o \in orders, CancelOrder(o)
      PROVE  SavedInv'
  <2>1. /\ orders' = Without(orders, o) /\ positions' = positions
        /\ db' = Settle(db, {o}) /\ caller' = caller
    BY <1>2 DEF CancelOrder, Becomes, Book
  <2>2. db \in Tables /\ Numbers(db) /\ orders \in SUBSET db.orders
    BY DEF TypeOK, SavedInv
  <2> QED BY <2>1, <2>2, SettleKeeps, OneSettled DEF SavedInv
<1>3. ASSUME NEW p \in positions, NEW x \in Int, Becomes(Closed(Book, p, x, FALSE)),
             UNCHANGED caller
      PROVE  SavedInv'
  <2>1. Saved(Closed(Book, p, x, FALSE))
    BY <1>1, ClosedSaved
  <2> QED BY <1>3, <2>1, StepSaved
<1>4. ASSUME NEW p \in positions
      PROVE  p.entry \in Int /\ prices[p.symbol] \in Int
  BY KnownPriceType DEF TypeOK, Position
<1>5. CASE EmergencyCloseAll
  BY <1>5 DEF EmergencyCloseAll, DropAllOrders, SavedInv
<1> QED BY <1>2, <1>3, <1>4, <1>5 DEF Exit, ClosePosition, EmergencyClose

LEMMA TickSaved ==
  ASSUME TypeOK, SavedInv, Tick
  PROVE  SavedInv'
<1>1. /\ Book \in BookType /\ Saved(Book) /\ Book.db = db
      /\ Book.positions = positions /\ Book.orders = orders
  BY BookSaved
<1>2. CASE UNCHANGED <<positions, orders, db, caller>>
  BY <1>2 DEF SavedInv
<1>3. ASSUME NEW o \in orders, NEW p \in positions, NEW x \in Int
      PROVE  Saved(Triggered(Book, o, p, x)) /\ Triggered(Book, o, p, x) \in BookType
  <2>1. p \in Position
    BY DEF TypeOK
  <2> QED BY <1>1, <2>1, TriggeredSaved, TriggeredType
<1>4. ASSUME NEW s \in Symbols, NEW x \in Prices, UpdatePrice(s, x)
      PROVE  SavedInv'
  <2>1. x \in Int
    BY BrokerAssumption
  <2>1a. caller' = caller
    BY <1>4 DEF UpdatePrice
  <2>2. CASE Becomes(Book)
    BY <1>1, <2>1a, <2>2, StepSaved
  <2>3. ASSUME NEW o \in orders, NEW p \in positions, Becomes(Triggered(Book, o, p, x))
        PROVE  SavedInv'
    BY <1>3, <2>1, <2>1a, <2>3, StepSaved
  <2> QED BY <1>4, <2>2, <2>3 DEF UpdatePrice
<1>5. ASSUME NEW o \in orders, FillLimit(o)
      PROVE  SavedInv'
  <2>1. caller' = caller
    BY <1>5 DEF FillLimit
  <2>2. CASE LimitRefused(o)
    <3>1. /\ positions' = positions /\ db' = Settle(db, {o})
          /\ orders' = Without(orders, o)
      BY <1>5, <2>2 DEF FillLimit, Becomes, Book
    <3>2. db \in Tables /\ Numbers(db) /\ orders \in SUBSET db.orders
      BY DEF TypeOK, SavedInv
    <3> QED BY <2>1, <3>1, <3>2, SettleKeeps, OneSettled DEF SavedInv
  <2>3. CASE ~LimitRefused(o)
    <3>1. Saved(LimitFilled(Book, o)) /\ Becomes(LimitFilled(Book, o))
      BY <1>1, <1>5, <2>3, LimitFilledSaved DEF FillLimit
    <3> QED BY <2>1, <3>1, StepSaved
  <2> QED BY <2>2, <2>3
\* The orders a candle drops from memory keep their rows.
<1>6. CASE FinishCandle
  <2> DEFINE stops == Crossed("STOP_MARKET")
             hit   == IF stops # {} THEN stops ELSE Crossed("TAKE_PROFIT_MARKET")
  <2>1. hit \subseteq orders
    BY DEF Crossed
  <2>2. /\ caller' = caller
        /\ \/ Becomes([Book EXCEPT !.orders = @ \ hit])
           \/ \E o \in hit, p \in positions :
                Becomes([Triggered(Book, o, p, o.price) EXCEPT !.orders = @ \ hit])
    BY <1>6 DEF FinishCandle
  <2> HIDE DEF hit
  <2>3. CASE Becomes([Book EXCEPT !.orders = @ \ hit])
    BY <2>2, <2>3 DEF Becomes, Book, SavedInv
  <2>4. ASSUME NEW o \in hit, NEW p \in positions,
               Becomes([Triggered(Book, o, p, o.price) EXCEPT !.orders = @ \ hit])
        PROVE  SavedInv'
    <3> DEFINE c == Triggered(Book, o, p, o.price)
    <3>1. o \in orders /\ o.price \in Int
      BY <2>1 DEF TypeOK, Order
    <3>2. c \in BookType /\ Saved(c)
      BY <1>3, <3>1
    <3> HIDE DEF c
    <3>3. positions' = c.positions /\ db' = c.db /\ orders' = c.orders \ hit
      BY <2>4, <3>2 DEF c, Becomes, BookType
    <3> QED BY <2>2, <3>2, <3>3 DEF SavedInv, Saved
  <2> QED BY <2>2, <2>3, <2>4
<1> QED BY <1>2, <1>4, <1>5, <1>6 DEF Tick, SetSymbolPrice, ProcessCandle

LEMMA InitSaved == Init => SavedInv
  BY DEF Init, SavedInv, Numbers

LEMMA NextSaved ==
  ASSUME TypeOK, SavedInv, [Next]_vars, ClientOps \cap NotSaved = {}
  PROVE  SavedInv'
<1>1. "reduce" \notin ClientOps /\ "setProtective" \notin ClientOps
  BY DEF NotSaved
<1>2. CASE Protect
  BY <1>1, <1>2 DEF Protect, BeginProtect, PlaceStop, PlaceTarget, Link, Calls, SavedInv
<1>3. CASE SetHalted \/ ResetDailyLoss \/ UNCHANGED vars
  BY <1>3 DEF SetHalted, ResetDailyLoss, vars, SavedInv
<1> QED BY <1>1, <1>2, <1>3, EntrySaved, ExitSaved, TickSaved DEF Next

\* Whatever the broker knows a restart would load, between any two calls of
\* clients that neither reduce nor call SetProtectiveOrders: every order and
\* position that a handler leaves in memory it leaves in the tables too. Not the
\* converse: of EmergencyCloseAll's orders the rows stay live.
THEOREM BookIsSaved ==
  ASSUME ClientOps \cap NotSaved = {}
  PROVE  Spec => []NothingForgotten
<1>1. Init => SavedInv
  BY InitSaved
<1>2. TypeOK /\ SavedInv /\ [Next]_vars => SavedInv'
  BY NextSaved
<1>3. SavedInv => NothingForgotten
  BY DEF SavedInv, NothingForgotten
<1> QED BY <1>1, <1>2, <1>3, TypeCorrect, PTL DEF Spec

-----------------------------------------------------------------------------
(* Sums of margins. MapThenSumSet is defined by recursion on a set, and what *)
(* it computes is shown with least numbers: of the sets that break a law one *)
(* is smallest, and taking an element off gives a smaller one.               *)

\* A set of numbers has a least one.
LEMMA LeastNumber ==
  ASSUME NEW S \in SUBSET Nat, S # {}
  PROVE  \E n \in S : \A m \in S : n <= m
<1>1. PICK n \in S : \A m \in S : ~ (<<m, n>> \in OpToRel(<, Nat))
  BY NatLessThanWellFounded, WFMin
<1>2. ASSUME NEW m \in S PROVE n <= m
  <2>1. m \in Nat /\ n \in Nat
    OBVIOUS
  <2>2. ~(m < n)
    BY <1>1, <2>1 DEF OpToRel
  <2> QED BY <2>1, <2>2
<1> QED BY <1>2

Any(s) == CHOOSE x \in s : TRUE

\* g adds up the margins of every set in D.
Adds(g, D) ==
  g = [s \in D |-> IF s = {} THEN 0 ELSE Margin(Any(s)) + g[s \ {Any(s)}]]

LEMMA SumDef ==
  ASSUME NEW S, NEW g, Adds(g, SUBSET S)
  PROVE  \E h : Adds(h, SUBSET S) /\ MapThenSumSet(Margin, S) = h[S]
<1> DEFINE h == CHOOSE h : Adds(h, SUBSET S)
<1>1. Adds(h, SUBSET S)
  OBVIOUS
<1>2. MapThenSumSet(Margin, S) = h[S]
  BY DEF MapThenSumSet, MapThenFoldSet, Adds, Any
<1> QED BY <1>1, <1>2

LEMMA AnyIn == \A s : s # {} => Any(s) \in s
  BY DEF Any

UpTo(S, n) == {s \in SUBSET S : Cardinality(s) <= n}

\* Without its next element a set is smaller by one.
LEMMA OneLess ==
  ASSUME NEW S, IsFiniteSet(S), NEW s \in SUBSET S, NEW x \in s
  PROVE  /\ IsFiniteSet(s) /\ s \ {x} \in SUBSET S
         /\ Cardinality(s) \in Nat \ {0}
         /\ Cardinality(s \ {x}) = Cardinality(s) - 1
<1>1. IsFiniteSet(s)
  BY FS_Subset
<1>2. Cardinality(s) \in Nat /\ Cardinality(s) # 0
  BY <1>1, FS_CardinalityType, FS_EmptySet
<1>3. Cardinality(s \ {x}) = Cardinality(s) - 1
  BY <1>1, FS_RemoveElement
<1> QED BY <1>1, <1>2, <1>3

LEMMA AddsUpTo ==
  ASSUME NEW S, IsFiniteSet(S), NEW n \in Nat
  PROVE  \E g : Adds(g, UpTo(S, n))
<1> DEFINE T == {m \in Nat : ~ \E g : Adds(g, UpTo(S, m))}
<1> SUFFICES ASSUME T # {} PROVE FALSE
  OBVIOUS
<1>1. PICK m \in T : \A k \in T : m <= k
  BY LeastNumber
<1> HIDE DEF T
<1>2. m \in Nat /\ ~ \E g : Adds(g, UpTo(S, m))
  BY <1>1 DEF T
<1>3. CASE m = 0
  <2> DEFINE g == [s \in UpTo(S, m) |-> 0]
  <2>1. ASSUME NEW s \in UpTo(S, m) PROVE s = {}
    <3>1. IsFiniteSet(s) /\ Cardinality(s) \in Nat /\ Cardinality(s) <= 0
      BY <1>3, FS_Subset, FS_CardinalityType DEF UpTo
    <3> QED BY <3>1, FS_EmptySet
  <2>2. Adds(g, UpTo(S, m))
    BY <2>1 DEF Adds
  <2> QED BY <1>2, <2>2
<1>4. CASE m # 0
  <2>1. m - 1 \in Nat /\ m - 1 \notin T
    BY <1>1, <1>2, <1>4
  <2>2. PICK h : Adds(h, UpTo(S, m - 1))
    BY <2>1 DEF T
  <2> DEFINE g == [s \in UpTo(S, m) |->
                     IF s = {} THEN 0 ELSE Margin(Any(s)) + h[s \ {Any(s)}]]
  <2>3. ASSUME NEW s \in UpTo(S, m), s # {}
        PROVE  s \ {Any(s)} \in UpTo(S, m - 1) /\ s \ {Any(s)} \in UpTo(S, m)
    <3>1. /\ s \ {Any(s)} \in SUBSET S /\ Cardinality(s) \in Nat \ {0}
          /\ Cardinality(s \ {Any(s)}) = Cardinality(s) - 1
          /\ Cardinality(s) <= m
      BY <2>3, AnyIn, OneLess DEF UpTo
    <3>2. Cardinality(s \ {Any(s)}) <= m - 1 /\ Cardinality(s \ {Any(s)}) <= m
      BY <1>2, <3>1
    <3> QED BY <3>1, <3>2 DEF UpTo
  <2>4. ASSUME NEW s \in UpTo(S, m - 1), s \in UpTo(S, m)
        PROVE  g[s] = h[s]
    BY <2>2, <2>4 DEF Adds
  <2>5. ASSUME NEW s \in UpTo(S, m), s # {}
        PROVE  g[s \ {Any(s)}] = h[s \ {Any(s)}]
    <3> HIDE DEF g
    <3> QED BY <2>3, <2>4, <2>5
  <2>6. Adds(g, UpTo(S, m))
    BY <2>5 DEF Adds
  <2> QED BY <1>2, <2>6
<1> QED BY <1>3, <1>4

LEMMA AddsExists ==
  ASSUME NEW S, IsFiniteSet(S)
  PROVE  \E g : Adds(g, SUBSET S)
<1>1. Cardinality(S) \in Nat
  BY FS_CardinalityType
<1>2. UpTo(S, Cardinality(S)) = SUBSET S
  BY FS_Subset DEF UpTo
<1>3. \E g : Adds(g, UpTo(S, Cardinality(S)))
  BY <1>1, AddsUpTo
<1> QED BY <1>2, <1>3

LEMMA AddsStep ==
  ASSUME NEW S, NEW g, Adds(g, SUBSET S)
  PROVE  /\ g[{}] = 0
         /\ \A s \in SUBSET S : s # {} => g[s] = Margin(Any(s)) + g[s \ {Any(s)}]
<1>1. {} \in SUBSET S
  OBVIOUS
<1> QED BY <1>1 DEF Adds

LEMMA AddsValue ==
  ASSUME NEW S \in SUBSET Position, IsFiniteSet(S), NEW g, Adds(g, SUBSET S)
  PROVE  \A s \in SUBSET S : g[s] \in Nat
<1> DEFINE T == {Cardinality(s) : s \in {r \in SUBSET S : g[r] \notin Nat}}
<1>0. T \in SUBSET Nat
  BY FS_Subset, FS_CardinalityType
<1> SUFFICES ASSUME T # {} PROVE FALSE
  OBVIOUS
<1>1. PICK m \in T : \A k \in T : m <= k
  BY <1>0, LeastNumber
<1>2. PICK s \in SUBSET S : g[s] \notin Nat /\ m = Cardinality(s)
  BY <1>1
<1>3. s # {}
  <2> HIDE DEF T
  <2>1. g[{}] = 0
    BY AddsStep
  <2>2. g[{}] \in Nat
    BY <2>1
  <2> QED BY <1>2, <2>2, Zenon
<1> DEFINE c == Any(s)
           r == s \ {c}
<1>4. c \in s /\ c \in Position
  BY <1>3, AnyIn
<1>5. r \in SUBSET S /\ Cardinality(s) \in Nat \ {0} /\ Cardinality(r) = Cardinality(s) - 1
  BY <1>4, OneLess
<1>6. Cardinality(r) \notin T
  <2> HIDE DEF T, r, c
  <2> QED BY <1>1, <1>2, <1>5
<1>7. g[r] \in Nat
  BY <1>5, <1>6
<1>8. g[s] = Margin(c) + g[r]
  BY <1>3, AddsStep
<1> QED BY <1>2, <1>4, <1>7, <1>8, MarginType

\* Whichever element is taken off.
LEMMA AddsRemove ==
  ASSUME NEW S \in SUBSET Position, IsFiniteSet(S), NEW g, Adds(g, SUBSET S)
  PROVE  \A s \in SUBSET S : \A x \in s : g[s] = Margin(x) + g[s \ {x}]
<1> DEFINE Bad(s) == \E x \in s : g[s] # Margin(x) + g[s \ {x}]
           T == {Cardinality(s) : s \in {r \in SUBSET S : Bad(r)}}
<1>0. T \in SUBSET Nat
  BY FS_Subset, FS_CardinalityType
<1> SUFFICES ASSUME T # {} PROVE FALSE
  OBVIOUS
<1>1. PICK m \in T : \A k \in T : m <= k
  BY <1>0, LeastNumber
<1>2. PICK s \in SUBSET S : Bad(s) /\ m = Cardinality(s)
  BY <1>1
<1>3. PICK x \in s : g[s] # Margin(x) + g[s \ {x}]
  BY <1>2
<1> DEFINE c == Any(s)
           r == s \ {c}
           q == s \ {x}
<1>4. c \in s /\ c \in Position /\ x \in Position
  BY <1>3, AnyIn
<1>5. g[s] = Margin(c) + g[r]
  BY <1>3, AddsStep
<1>6. x # c
  BY <1>3, <1>5
<1>7. /\ r \in SUBSET S /\ q \in SUBSET S /\ Cardinality(s) \in Nat \ {0}
      /\ Cardinality(r) = Cardinality(s) - 1 /\ Cardinality(q) = Cardinality(s) - 1
  BY <1>4, OneLess
<1>8. ~Bad(r) /\ ~Bad(q)
  <2>1. Cardinality(r) \notin T /\ Cardinality(q) \notin T
    <3> HIDE DEF T, r, q, c
    <3> QED BY <1>1, <1>2, <1>7
  <2> HIDE DEF r, q, c, Bad
  <2> QED BY <1>7, <2>1
<1>9. g[r] = Margin(x) + g[r \ {x}] /\ g[q] = Margin(c) + g[q \ {c}]
  BY <1>4, <1>6, <1>8
<1>10. r \ {x} = q \ {c}
  OBVIOUS
<1>11. g[r \ {x}] \in Nat /\ Margin(c) \in Nat /\ Margin(x) \in Nat
  <2>1. r \ {x} \in SUBSET S
    OBVIOUS
  <2> QED BY <1>4, <2>1, AddsValue, MarginType
<1> HIDE DEF c, r, q
<1>12. g[s] = Margin(x) + g[q]
  <2>1. g[q] = Margin(c) + g[r \ {x}]
    BY <1>9, <1>10
  <2>2. g[s] = Margin(c) + (Margin(x) + g[r \ {x}])
    BY <1>5, <1>9
  <2> QED BY <1>11, <2>1, <2>2
<1> QED BY <1>3, <1>12 DEF q

LEMMA AddsAgree ==
  \A S, g, R, h : S \in SUBSET Position /\ IsFiniteSet(S) /\ Adds(g, SUBSET S)
                  /\ R \in SUBSET S /\ Adds(h, SUBSET R) => g[R] = h[R]
<1> SUFFICES ASSUME NEW S, NEW g, NEW R, NEW h,
                    S \in SUBSET Position, IsFiniteSet(S), Adds(g, SUBSET S),
                    R \in SUBSET S, Adds(h, SUBSET R)
             PROVE  g[R] = h[R]
  OBVIOUS
<1> DEFINE T == {Cardinality(s) : s \in {r \in SUBSET R : g[r] # h[r]}}
<1>0. T \in SUBSET Nat
  BY FS_Subset, FS_CardinalityType
<1>1. ASSUME T # {} PROVE FALSE
  <2>1. PICK m \in T : \A k \in T : m <= k
    BY <1>0, <1>1, LeastNumber
  <2>2. PICK s \in SUBSET R : g[s] # h[s] /\ m = Cardinality(s)
    BY <2>1
  <2>3. s # {}
    BY <2>2, AddsStep
  <2> DEFINE c == Any(s)
             r == s \ {c}
  <2>4. c \in s
    BY <2>3, AnyIn
  <2>5. r \in SUBSET R /\ Cardinality(s) \in Nat \ {0} /\ Cardinality(r) = Cardinality(s) - 1
    BY <2>4, OneLess
  <2>6. g[r] = h[r]
    <3>1. Cardinality(r) \notin T
      <4> HIDE DEF T, r, c
      <4> QED BY <2>1, <2>2, <2>5
    <3> QED BY <2>5, <3>1
  <2>7. g[s] = Margin(c) + g[r]
    <3>1. s \in SUBSET S
      OBVIOUS
    <3> QED BY <2>3, <3>1, AddsStep
  <2>8. h[s] = Margin(c) + h[r]
    <3>1. \A q \in SUBSET R : q # {} => h[q] = Margin(Any(q)) + h[q \ {Any(q)}]
      BY AddsStep
    <3> QED BY <2>3, <3>1
  <2> QED BY <2>2, <2>6, <2>7, <2>8
<1>2. R \in SUBSET R
  OBVIOUS
<1>3. g[R] # h[R] => Cardinality(R) \in T
  BY <1>2
<1> QED BY <1>1, <1>3

\* The sum of the margins of P, as MarginCovered states it.
Reserved(P) == MapThenSumSet(Margin, P)

LEMMA ReservedAdds ==
  ASSUME NEW P \in SUBSET Position, IsFiniteSet(P)
  PROVE  /\ Reserved({}) = 0
         /\ Reserved(P) \in Nat
         /\ \A p \in P : Reserved(P) = Margin(p) + Reserved(P \ {p})
<1>1. \A S : IsFiniteSet(S) => \E h : Adds(h, SUBSET S) /\ Reserved(S) = h[S]
  BY AddsExists, SumDef DEF Reserved
<1>2. Reserved({}) = 0
  BY <1>1, AddsStep, FS_EmptySet
<1>3. PICK g : Adds(g, SUBSET P) /\ Reserved(P) = g[P]
  BY <1>1
<1>4. Reserved(P) \in Nat
  BY <1>3, AddsValue
<1>5. ASSUME NEW p \in P
      PROVE  Reserved(P) = Margin(p) + Reserved(P \ {p})
  <2>1. PICK R \in SUBSET P : R = P \ {p}
    OBVIOUS
  <2>2. IsFiniteSet(R)
    BY FS_Subset
  <2>3. PICK h : Adds(h, SUBSET R) /\ Reserved(R) = h[R]
    BY <1>1, <2>2
  <2>4. P \in SUBSET Position /\ IsFiniteSet(P) /\ Adds(g, SUBSET P)
        /\ R \in SUBSET P /\ Adds(h, SUBSET R)
    BY <1>3, <2>1, <2>3
  <2>5. g[P] = Margin(p) + g[R]
    BY <1>3, <2>1, AddsRemove
  <2>6. g[R] = h[R]
    BY <2>4, AddsAgree, Zenon
  <2> QED BY <1>3, <2>1, <2>3, <2>5, <2>6
<1> QED BY <1>2, <1>4, <1>5
-----------------------------------------------------------------------------
(* The reserve. usedMargin and the sum over the positions move together,    *)
(* except that a limit fill on a symbol already held replaces the position  *)
(* and leaves its margin reserved.                                          *)

\* The reserve of the book b covers its positions, one per symbol.
Covers(b) ==
  /\ IsFiniteSet(b.positions)
  /\ \A p, q \in b.positions : p.symbol = q.symbol => p = q
  /\ b.acct.usedMargin >= Reserved(b.positions)

LEMMA ReservedWithout ==
  ASSUME NEW P \in SUBSET Position, IsFiniteSet(P), NEW p \in P
  PROVE  /\ IsFiniteSet(P \ {p})
         /\ Reserved(P) \in Nat /\ Reserved(P \ {p}) \in Nat /\ Margin(p) \in Nat
         /\ Reserved(P) = Margin(p) + Reserved(P \ {p})
<1>1. P \ {p} \in SUBSET Position /\ IsFiniteSet(P \ {p}) /\ p \in Position
  BY FS_Subset
<1>2. \A Q \in SUBSET Position : IsFiniteSet(Q) => Reserved(Q) \in Nat
  BY ReservedAdds
<1>3. Reserved(P) = Margin(p) + Reserved(P \ {p})
  BY ReservedAdds
<1> QED BY <1>1, <1>2, <1>3, MarginType

LEMMA ReservedWith ==
  ASSUME NEW P \in SUBSET Position, IsFiniteSet(P), NEW p \in Position, p \notin P
  PROVE  /\ IsFiniteSet(P \cup {p})
         /\ Reserved(P) \in Nat /\ Margin(p) \in Nat
         /\ Reserved(P \cup {p}) = Margin(p) + Reserved(P)
<1> DEFINE Q == P \cup {p}
<1>1. Q \in SUBSET Position /\ IsFiniteSet(Q) /\ p \in Q /\ Q \ {p} = P
  BY FS_AddElement
<1> HIDE DEF Q
<1>2. Reserved(Q) = Margin(p) + Reserved(Q \ {p})
  BY <1>1, ReservedWithout
<1>3. Reserved(P) \in Nat
  BY ReservedAdds
<1> QED BY <1>1, <1>2, <1>3, MarginType DEF Q

\* The reserve of a book whose account and positions are those of another.
LEMMA CoversSame ==
  ASSUME NEW b, NEW c, Covers(b), c.positions = b.positions,
         c.acct.usedMargin = b.acct.usedMargin
  PROVE  Covers(c)
  BY DEF Covers

LEMMA RealizeUsed ==
  ASSUME NEW a \in Account, NEW pnl, NEW margin
  PROVE  Realize(a, pnl, margin).usedMargin = a.usedMargin - margin
  BY DEF Realize, Account

LEMMA ClosedCovers ==
  ASSUME NEW b \in BookType, Covers(b), NEW p \in b.positions, NEW exit,
         NEW closing
  PROVE  Covers(Closed(b, p, exit, closing))
<1> DEFINE c == Closed(b, p, exit, closing)
           x == SlippedFill(IF p.side = "LONG" THEN "SELL" ELSE "BUY", exit)
           pnl == Gain(p, x) - x * p.size * TakerFee
<1>1. c.acct = Realize(b.acct, pnl, Margin(p))
  BY DEF Closed
<1> HIDE DEF pnl
<1>2. b.acct \in Account /\ b.acct.usedMargin \in Int
  BY DEF BookType, Account
<1>3. c.acct.usedMargin = b.acct.usedMargin - Margin(p)
  <2> HIDE DEF c
  <2> QED BY <1>1, <1>2, RealizeUsed
<1>4. c.positions = b.positions \ {p}
  BY DEF Closed, Covers
<1> HIDE DEF c
<1>5. b.positions \in SUBSET Position
  BY DEF BookType
<1>6. /\ IsFiniteSet(b.positions \ {p})
      /\ Reserved(b.positions) \in Nat /\ Reserved(b.positions \ {p}) \in Nat
      /\ Margin(p) \in Nat
      /\ Reserved(b.positions) = Margin(p) + Reserved(b.positions \ {p})
  BY <1>5, ReservedWithout DEF Covers
<1>7. c.acct.usedMargin >= Reserved(c.positions)
  <2>1. b.acct.usedMargin >= Reserved(b.positions)
    BY DEF Covers
  <2> QED BY <1>2, <1>3, <1>4, <1>6, <2>1
<1>8. Covers(c)
  BY <1>4, <1>6, <1>7 DEF Covers
<1> QED BY <1>8 DEF c

\* Whatever was open on the symbol before.
LEMMA OpenedCovers ==
  ASSUME NEW b \in BookType, Covers(b), NEW symbol \in Symbols,
         NEW side \in {"LONG", "SHORT"}, NEW entry \in Nat, NEW qty \in Nat,
         NEW sl \in Nat, NEW tp \in Nat, NEW feeRate \in Nat
  PROVE  Covers(Opened(b, symbol, side, qty, entry, sl, tp, feeRate))
<1> DEFINE g == Protection(b, symbol, side, entry, qty, sl, tp)
           p == [id |-> b.db.nextPosRow, symbol |-> symbol, side |-> side,
                 entry |-> entry, size |-> qty, sl |-> sl, tp |-> tp,
                 slId |-> g.slId, tpId |-> g.tpId]
           c == Opened(b, symbol, side, qty, entry, sl, tp, feeRate)
           P == {q \in b.positions : q.symbol # symbol}
           fee == entry * qty * feeRate
<1>1. g.slId \in Nat /\ g.tpId \in Nat
  BY ProtectionType
<1> HIDE DEF g
<1>2. p \in Position /\ p.symbol = symbol
  BY <1>1 DEF Position, BookType, Tables
<1>3. c.positions = P \cup {p}
      /\ c.acct = [b.acct EXCEPT !.balance = @ - fee, !.usedMargin = @ + Margin(p),
                                 !.entryFees = @ + fee]
  BY DEF Opened, g
<1> HIDE DEF p, c, fee
<1>4. b.acct \in Account /\ b.acct.usedMargin \in Int
  BY DEF BookType, Account
<1>5. c.acct.usedMargin = b.acct.usedMargin + Margin(p)
  BY <1>3, <1>4 DEF Account
<1>6. P \in SUBSET Position /\ IsFiniteSet(P) /\ p \notin P
  BY <1>2, FS_Subset DEF BookType, Covers
<1>7. Reserved(b.positions) >= Reserved(P) /\ Reserved(b.positions) \in Nat
  <2>1. b.positions \in SUBSET Position /\ IsFiniteSet(b.positions)
    BY DEF BookType, Covers
  <2>2. Reserved(b.positions) \in Nat
    BY <2>1, ReservedAdds
  <2>3. CASE P = b.positions
    <3> DEFINE n == Reserved(b.positions)
    <3>1. n \in Nat /\ Reserved(P) = n
      BY <2>2, <2>3
    <3> HIDE DEF n, P
    <3>2. n >= Reserved(P)
      BY <3>1
    <3> QED BY <2>2, <3>2 DEF n
  <2>4. ASSUME NEW q \in b.positions, q.symbol = symbol
        PROVE  Reserved(b.positions) >= Reserved(P)
    <3>1. P = b.positions \ {q}
      BY <2>4 DEF Covers
    <3> HIDE DEF P
    <3>2. /\ Reserved(b.positions \ {q}) \in Nat /\ Margin(q) \in Nat
          /\ Reserved(b.positions) = Margin(q) + Reserved(b.positions \ {q})
      BY <2>1, ReservedWithout
    <3> QED BY <3>1, <3>2
  <2> QED BY <2>2, <2>3, <2>4
<1>8. /\ IsFiniteSet(P \cup {p}) /\ Reserved(P) \in Nat /\ Margin(p) \in Nat
      /\ Reserved(P \cup {p}) = Margin(p) + Reserved(P)
  BY <1>2, <1>6, ReservedWith
<1>9. \A q, r \in P \cup {p} : q.symbol = r.symbol => q = r
  BY <1>2 DEF Covers
<1> HIDE DEF P
<1>10. c.acct.usedMargin >= Reserved(c.positions)
  <2>1. b.acct.usedMargin >= Reserved(b.positions)
    BY DEF Covers
  <2> QED BY <1>3, <1>4, <1>5, <1>7, <1>8, <2>1
<1>11. Covers(c)
  BY <1>3, <1>8, <1>9, <1>10 DEF Covers
<1> QED BY <1>11 DEF c

\* A position replaced by another of its symbol that ties up less by `freed'.
LEMMA ReplacedCovers ==
  ASSUME NEW b \in BookType, Covers(b), NEW p \in b.positions,
         NEW q \in Position, q.symbol = p.symbol, NEW freed \in Int,
         Margin(p) = Margin(q) + freed,
         NEW c, c.positions = (b.positions \ {p}) \cup {q},
         c.acct.usedMargin = b.acct.usedMargin - freed
  PROVE  Covers(c)
<1> DEFINE P == b.positions \ {p}
<1>1. b.positions \in SUBSET Position /\ b.acct.usedMargin \in Int
      /\ IsFiniteSet(b.positions)
  BY DEF BookType, Account, Covers
<1>2. /\ IsFiniteSet(P) /\ Reserved(b.positions) \in Nat /\ Reserved(P) \in Nat
      /\ Margin(p) \in Nat /\ Reserved(b.positions) = Margin(p) + Reserved(P)
  BY <1>1, ReservedWithout
<1>3. P \in SUBSET Position /\ q \notin P
  BY <1>1 DEF Covers
<1>4. /\ IsFiniteSet(P \cup {q}) /\ Margin(q) \in Nat
      /\ Reserved(P \cup {q}) = Margin(q) + Reserved(P)
  BY <1>2, <1>3, ReservedWith
<1>5. \A r, s \in P \cup {q} : r.symbol = s.symbol => r = s
  BY DEF Covers
<1>6. c.positions = P \cup {q}
  OBVIOUS
<1> HIDE DEF P
<1>7. c.acct.usedMargin >= Reserved(c.positions)
  <2>1. b.acct.usedMargin >= Reserved(b.positions)
    BY DEF Covers
  <2>2. Reserved(c.positions) = Margin(q) + Reserved(P)
    BY <1>4, <1>6
  <2>3. Margin(p) = Margin(q) + freed /\ c.acct.usedMargin = b.acct.usedMargin - freed
    OBVIOUS
  <2> QED BY <1>1, <1>2, <1>4, <2>1, <2>2, <2>3
<1> QED BY <1>4, <1>5, <1>6, <1>7 DEF Covers

LEMMA ReducedCovers ==
  ASSUME NEW b \in BookType, Covers(b), NEW p \in b.positions, NEW qty \in Nat,
         NEW fill, qty < p.size
  PROVE  Covers(Reduced(b, p, qty, fill))
<1> DEFINE q == [p EXCEPT !.size = @ - qty]
           c == Reduced(b, p, qty, fill)
           pnl == DefaultLeverage * qty
                    * (IF p.side = "LONG" THEN fill - p.entry ELSE p.entry - fill)
                  - fill * qty * TakerFee
<1>1. p \in Position /\ p.entry \in Nat /\ p.size \in Nat
  BY DEF BookType, Position
<1>2. q \in Position /\ q.symbol = p.symbol /\ q.entry = p.entry /\ q.size = p.size - qty
  BY <1>1 DEF Position
<1>3. c.positions = (b.positions \ {p}) \cup {q}
  BY DEF Reduced, BookType
<1>4. c.acct = Realize(b.acct, pnl, p.entry * qty)
  BY DEF Reduced, BookType
<1> HIDE DEF c, q, pnl
<1>5. c.acct.usedMargin = b.acct.usedMargin - p.entry * qty
  BY <1>4, RealizeUsed DEF BookType
<1>6. Margin(p) = Margin(q) + p.entry * qty
  BY <1>1, <1>2 DEF Margin
<1>7. p.entry * qty \in Int
  BY <1>1
<1>8. Covers(c)
  BY <1>2, <1>3, <1>5, <1>6, <1>7, ReplacedCovers
<1> QED BY <1>8 DEF c

LEMMA TriggeredCovers ==
  ASSUME NEW b \in BookType, Covers(b), NEW o, NEW p \in b.positions, NEW x
  PROVE  Covers(Triggered(b, o, p, x))
<1> DEFINE c == Closed(b, p, x, TRUE)
           t == Triggered(b, o, p, x)
<1>1. Covers(c)
  BY ClosedCovers
<1>2. t.positions = c.positions /\ t.acct = c.acct
  BY DEF Triggered, Closed
<1> HIDE DEF c, t
<1>3. Covers(t)
  BY <1>1, <1>2, CoversSame
<1> QED BY <1>3 DEF t

LEMMA LimitFilledCovers ==
  ASSUME NEW b \in BookType, Covers(b), NEW o \in Order
  PROVE  Covers(LimitFilled(b, o))
<1> DEFINE e == [b EXCEPT !.db = Settle(@, {o})]
           c == Opened(e, o.symbol, PositionSide(o.side), o.qty, o.price, o.sl,
                       o.tp, MakerFee)
           f == LimitFilled(b, o)
<1>1. e \in BookType /\ e.acct = b.acct /\ e.positions = b.positions
  <2>1. Settle(b.db, {o}) \in Tables
    BY SettleType DEF BookType
  <2> QED BY <2>1 DEF BookType
<1>2. f.acct = c.acct /\ f.positions = c.positions
  BY DEF LimitFilled, Opened
<1> HIDE DEF e
<1>3. Covers(e)
  BY <1>1, CoversSame
<1>4. Covers(c)
  <2>1. /\ o.symbol \in Symbols /\ PositionSide(o.side) \in {"LONG", "SHORT"}
        /\ o.qty \in Nat /\ o.price \in Nat /\ o.sl \in Nat /\ o.tp \in Nat
        /\ MakerFee \in Nat
    BY BrokerAssumption DEF Order, PositionSide
  <2> QED BY <1>1, <1>3, <2>1, OpenedCovers
<1> HIDE DEF c, f
<1>5. Covers(f)
  BY <1>2, <1>4, CoversSame
<1> QED BY <1>5 DEF f

\* The invariant behind MarginCovered: its sum can be taken step by step, since
\* the positions are finitely many and one per symbol.
MarginInv == Covers(Book)

LEMMA BecomesCovers ==
  ASSUME NEW b, Becomes(b), Covers(b)
  PROVE  MarginInv'
  BY DEF MarginInv, Covers, Book, Becomes

LEMMA QuietCovers ==
  ASSUME MarginInv, positions' = positions, acct'.usedMargin = acct.usedMargin
  PROVE  MarginInv'
  BY DEF MarginInv, Covers, Book

LEMMA EntryCovers ==
  ASSUME TypeOK, MarginInv, Entry
  PROVE  MarginInv'
<1>1. PICK s \in Symbols, side \in {"BUY", "SELL"} :
        \/ \E qty \in Reductions : RejectReduce(s, side, qty) \/ ReduceOnly(s, side, qty)
        \/ \E qty \in Qtys, sl \in Prices :
             \/ RejectMarket(s, side, qty, sl)
             \/ \E tp \in Targets \cup {None} :
                  \/ PlaceMarket(s, side, qty, sl, tp)
                  \/ \E x \in Prices : PlaceLimit(s, side, qty, x, sl, tp)
  BY DEF Entry
<1> DEFINE b == Numbered(Book)
           fill == MarketFill(s, side)
           posSide == PositionSide(side)
<1>2. b \in BookType /\ Covers(b) /\ b.positions = positions /\ b.acct = acct
  <2>1. b.positions = positions /\ b.acct = acct
    BY DEF Numbered, Book
  <2>2. Book.positions = positions /\ Book.acct = acct
    BY DEF Book
  <2> HIDE DEF b
  <2>3. Covers(b)
    BY <2>1, <2>2, CoversSame DEF MarginInv
  <2> QED BY <2>1, <2>3, BookTyped, NumberedType DEF b
<1>3. posSide \in {"LONG", "SHORT"} /\ TakerFee \in Nat /\ None \in Nat
  BY BrokerAssumption DEF PositionSide, None
<1>4. ASSUME NEW c \in BookType, Covers(c)
      PROVE  Filled(c) \in BookType /\ Covers(Filled(c))
  <2>1. Filled(c).acct = c.acct /\ Filled(c).positions = c.positions
    BY DEF Filled, BookType
  <2> QED BY <1>4, <2>1, FilledType, CoversSame
<1>5. ASSUME NEW qty \in Reductions, RejectReduce(s, side, qty)
      PROVE  MarginInv'
  BY <1>2, <1>5, BecomesCovers DEF RejectReduce
<1>6. ASSUME NEW qty \in Qtys, NEW sl \in Prices, RejectMarket(s, side, qty, sl)
      PROVE  MarginInv'
  BY <1>2, <1>6, BecomesCovers DEF RejectMarket
<1>7. ASSUME NEW qty \in Qtys, NEW sl \in Prices, NEW tp \in Targets \cup {None},
             NEW x \in Prices, PlaceLimit(s, side, qty, x, sl, tp)
      PROVE  MarginInv'
  <2>1. positions' = positions /\ acct' = acct
    BY <1>2, <1>7 DEF PlaceLimit, Becomes, BookType
  <2> QED BY <2>1, QuietCovers
<1>8. ASSUME NEW qty \in Reductions, ReduceOnly(s, side, qty)
      PROVE  MarginInv'
  <2>1. fill \in Nat /\ qty \in Nat
    BY <1>8, MarketFillType, BrokerAssumption DEF ReduceOnly, ReduceRefused
  <2>2. \/ \E p \in positions :
             \/ Becomes(Closed(b, p, fill, FALSE))
             \/ qty < p.size /\ Becomes(Reduced(b, p, qty, fill))
        \/ Becomes(Opened(Filled(b), s, posSide, qty, fill, None, None, TakerFee))
    BY <1>8 DEF ReduceOnly
  <2> HIDE DEF b, fill, posSide
  <2>3. ASSUME NEW p \in positions
        PROVE  /\ Covers(Closed(b, p, fill, FALSE))
               /\ qty < p.size => Covers(Reduced(b, p, qty, fill))
    <3>1. p \in b.positions
      BY <1>2
    <3> QED BY <1>2, <2>1, <3>1, ClosedCovers, ReducedCovers
  <2>4. Covers(Opened(Filled(b), s, posSide, qty, fill, None, None, TakerFee))
    <3>1. Filled(b) \in BookType /\ Covers(Filled(b))
      BY <1>2, <1>4
    <3> QED BY <1>3, <2>1, <3>1, OpenedCovers
  <2> QED BY <2>2, <2>3, <2>4, BecomesCovers
<1>9. ASSUME NEW qty \in Qtys, NEW sl \in Prices, NEW tp \in Targets \cup {None},
             PlaceMarket(s, side, qty, sl, tp)
      PROVE  MarginInv'
  <2> DEFINE Enter(c) == Opened(Filled(c), s, posSide, qty, fill, sl, tp, TakerFee)
  <2>1. fill \in Nat /\ fill \in Int /\ qty \in Nat /\ sl \in Nat /\ tp \in Nat
    BY <1>9, MarketFillType, PricesType, BrokerAssumption
    DEF PlaceMarket, MarketRefused
  <2>2. \/ Becomes(Enter(b))
        \/ \E p \in positions : Becomes(Enter(Closed(b, p, fill, FALSE)))
    BY <1>9 DEF PlaceMarket
  <2> HIDE DEF b, fill, posSide
  <2>3. ASSUME NEW c \in BookType, Covers(c)
        PROVE  Covers(Enter(c))
    <3>1. Filled(c) \in BookType /\ Covers(Filled(c))
      BY <1>4, <2>3
    <3> QED BY <1>3, <2>1, <3>1, OpenedCovers
  <2> HIDE DEF Enter
  <2>4. ASSUME NEW p \in positions
        PROVE  Covers(Enter(Closed(b, p, fill, FALSE)))
    <3>1. p \in b.positions /\ p \in Position
      BY <1>2 DEF TypeOK
    <3>2. Closed(b, p, fill, FALSE) \in BookType
      BY <1>2, <2>1, <3>1, ClosedType
    <3>3. Covers(Closed(b, p, fill, FALSE))
      BY <1>2, <3>1, ClosedCovers
    <3> QED BY <2>3, <3>2, <3>3
  <2> QED BY <1>2, <2>2, <2>3, <2>4, BecomesCovers
<1> HIDE DEF b, fill, posSide
<1> QED BY <1>1, <1>5, <1>6, <1>7, <1>8, <1>9

LEMMA ExitCovers ==
  ASSUME TypeOK, MarginInv, Exit
  PROVE  MarginInv'
<1>1. Book \in BookType /\ Covers(Book) /\ Book.positions = positions
  BY BookTyped DEF Book, MarginInv
<1>2. ASSUME NEW o \in orders, CancelOrder(o)
      PROVE  MarginInv'
  <2>1. positions' = positions /\ acct' = acct
    BY <1>2 DEF CancelOrder, Becomes, Book
  <2> QED BY <2>1, QuietCovers
<1>3. ASSUME NEW p \in positions, NEW x, Becomes(Closed(Book, p, x, FALSE))
      PROVE  MarginInv'
  BY <1>1, <1>3, ClosedCovers, BecomesCovers
<1>4. CASE EmergencyCloseAll
  <2>1. positions' = positions /\ acct' = acct
    BY <1>4 DEF EmergencyCloseAll, DropAllOrders
  <2> QED BY <2>1, QuietCovers
<1> QED BY <1>2, <1>3, <1>4 DEF Exit, ClosePosition, EmergencyClose

LEMMA TickCovers ==
  ASSUME TypeOK, MarginInv, Tick
  PROVE  MarginInv'
<1>1. Book \in BookType /\ Covers(Book) /\ Book.positions = positions
  BY BookTyped DEF Book, MarginInv
<1>2. ASSUME NEW o, NEW p \in positions, NEW x
      PROVE  Covers(Triggered(Book, o, p, x))
  BY <1>1, TriggeredCovers
<1>3. ASSUME positions' = positions, acct' = acct
      PROVE  MarginInv'
  BY <1>3, QuietCovers
<1>4. ASSUME NEW s \in Symbols, NEW x \in Prices, SetSymbolPrice(s, x) \/ UpdatePrice(s, x)
      PROVE  MarginInv'
  BY <1>1, <1>2, <1>3, <1>4, BecomesCovers DEF SetSymbolPrice, UpdatePrice
<1>5. ASSUME NEW s \in Symbols, NEW low \in Prices, NEW high \in Prices,
             NEW close \in Prices, ProcessCandle(s, low, high, close)
      PROVE  MarginInv'
  BY <1>3, <1>5 DEF ProcessCandle
<1>6. ASSUME NEW o \in orders, FillLimit(o)
      PROVE  MarginInv'
  <2>1. Covers(LimitFilled(Book, o))
    BY <1>1, LimitFilledCovers DEF TypeOK
  <2> DEFINE c == [Book EXCEPT !.orders = Without(@, o), !.db = Settle(@, {o})]
  <2>2. c.positions = positions /\ c.acct = acct
    BY DEF Book
  <2>3. Becomes(c) \/ Becomes(LimitFilled(Book, o))
    BY <1>6 DEF FillLimit
  <2> HIDE DEF c
  <2> QED BY <1>3, <2>1, <2>2, <2>3, BecomesCovers DEF Becomes
<1>7. CASE FinishCandle
  <2> DEFINE stops == Crossed("STOP_MARKET")
             hit == IF stops # {} THEN stops ELSE Crossed("TAKE_PROFIT_MARKET")
  <2>1. hit \subseteq orders
    BY DEF Crossed
  <2>2. \/ Becomes([Book EXCEPT !.orders = @ \ hit])
        \/ \E o \in hit, p \in positions :
             Becomes([Triggered(Book, o, p, o.price) EXCEPT !.orders = @ \ hit])
    BY <1>7 DEF FinishCandle
  <2> HIDE DEF stops, hit
  <2>3. CASE Becomes([Book EXCEPT !.orders = @ \ hit])
    BY <1>3, <2>3 DEF Becomes, Book
  <2>4. ASSUME NEW o \in hit, NEW p \in positions,
               Becomes([Triggered(Book, o, p, o.price) EXCEPT !.orders = @ \ hit])
        PROVE  MarginInv'
    <3> DEFINE c == Triggered(Book, o, p, o.price)
               d == [c EXCEPT !.orders = @ \ hit]
    <3>1. o \in orders /\ o.price \in Int /\ p \in Position
      BY <2>1 DEF TypeOK, Order
    <3>2. c \in BookType
      BY <1>1, <3>1, TriggeredType
    <3>3. Covers(c)
      BY <1>2
    <3>4. Becomes(d)
      BY <2>4
    <3> HIDE DEF c
    <3>5. d.positions = c.positions /\ d.acct = c.acct
      BY <3>2 DEF BookType
    <3> HIDE DEF d
    <3>6. Covers(d)
      BY <3>3, <3>5, CoversSame
    <3> QED BY <3>4, <3>6, BecomesCovers
  <2> QED BY <2>2, <2>3, <2>4
<1> QED BY <1>4, <1>5, <1>6, <1>7 DEF Tick

LEMMA ProtectCovers ==
  ASSUME TypeOK, MarginInv, Protect
  PROVE  MarginInv'
<1>1. Book \in BookType /\ Covers(Book) /\ Book.positions = positions
  BY BookTyped DEF Book, MarginInv
<1>2. ASSUME positions' = positions, acct' = acct
      PROVE  MarginInv'
  BY <1>2, QuietCovers
<1>3. ASSUME NEW p \in positions, NEW sl \in Prices, NEW tp \in Targets \cup {None},
             BeginProtect(p, sl, tp)
      PROVE  MarginInv'
  BY <1>2, <1>3 DEF BeginProtect, Becomes, Book
<1>4. CASE PlaceStop
  BY <1>2, <1>4 DEF PlaceStop, PlaceExit, Becomes, Numbered, Book
<1>5. CASE PlaceTarget
  BY <1>2, <1>5 DEF PlaceTarget, PlaceExit, Becomes, Numbered, Book
<1>6. CASE Link
  <2>1. ASSUME NEW p \in positions,
               Becomes([Book EXCEPT !.positions = (@ \ {p}) \cup {Relinked(p)},
                                    !.db = UpdatePosition(@, Relinked(p))])
        PROVE  MarginInv'
    <3> DEFINE q == Relinked(p)
               c == [Book EXCEPT !.positions = (@ \ {p}) \cup {q},
                                 !.db = UpdatePosition(@, q)]
    <3>1. p \in Position
      BY DEF TypeOK
    <3>2. caller \in Call
      BY <1>6 DEF Link, TypeOK
    <3>3. q \in Position
      <4>1. /\ caller.slId \in Nat /\ caller.tpId \in Nat
            /\ caller.sl \in Nat /\ caller.tp \in Nat
        BY <3>2, PricesType, BrokerAssumption DEF Call
      <4>2. [p EXCEPT !.slId = caller.slId, !.sl = caller.sl] \in Position
        BY <3>1, <4>1 DEF Position
      <4>3. [p EXCEPT !.slId = caller.slId, !.sl = caller.sl,
                      !.tpId = caller.tpId, !.tp = caller.tp] \in Position
        BY <3>1, <4>1 DEF Position
      <4> QED BY <4>2, <4>3 DEF Relinked
    <3>4. q.symbol = p.symbol /\ q.entry = p.entry /\ q.size = p.size
      BY <3>1 DEF Relinked, Position
    <3>5. Becomes(c)
      BY <2>1
    <3> HIDE DEF q
    <3>6. c.positions = (Book.positions \ {p}) \cup {q} /\ c.acct = Book.acct
      BY DEF Book
    <3> HIDE DEF c
    <3>7. Margin(p) = Margin(q) + 0
      <4>1. Margin(p) = Margin(q) /\ Margin(p) \in Nat
        BY <3>1, <3>4, MarginType DEF Margin
      <4> QED BY <4>1
    <3>8. c.acct.usedMargin = Book.acct.usedMargin - 0
      BY <1>1, <3>6 DEF BookType, Account
    <3>9. Covers(c)
      <4>1. p \in Book.positions /\ 0 \in Int
        BY <1>1
      <4> QED BY <1>1, <3>3, <3>4, <3>6, <3>7, <3>8, <4>1, ReplacedCovers
    <3> QED BY <3>5, <3>9, BecomesCovers
  <2>2. CASE Becomes(Book)
    BY <1>2, <2>2 DEF Becomes, Book
  <2> QED BY <1>6, <2>1, <2>2 DEF Link
<1> QED BY <1>3, <1>4, <1>5, <1>6 DEF Protect

LEMMA NextCovers ==
  ASSUME TypeOK, MarginInv, [Next]_vars
  PROVE  MarginInv'
<1>1. ASSUME positions' = positions, acct'.usedMargin = acct.usedMargin
      PROVE  MarginInv'
  BY <1>1, QuietCovers
<1>2. CASE SetHalted
  BY <1>1, <1>2 DEF SetHalted
<1>3. CASE ResetDailyLoss
  BY <1>1, <1>3 DEF ResetDailyLoss, TypeOK, Account
<1>4. CASE UNCHANGED vars
  BY <1>1, <1>4 DEF vars
<1> QED BY <1>2, <1>3, <1>4, EntryCovers, ExitCovers, TickCovers, ProtectCovers
    DEF Next

LEMMA InitCovers == Init => MarginInv
<1> SUFFICES ASSUME Init PROVE MarginInv
  OBVIOUS
<1>1. Book.positions = {} /\ Book.acct.usedMargin = 0
  BY DEF Init, Book
<1>2. IsFiniteSet({}) /\ Reserved({}) = 0
  BY FS_EmptySet, ReservedAdds
<1> QED BY <1>1, <1>2 DEF MarginInv, Covers

\* paper.go admits an entry on balance - usedMargin. However replacements,
\* reductions, limit fills and emergency closes follow one another, that reserve
\* never falls below what the open positions tie up.
THEOREM MarginIsCovered == Spec => []MarginCovered
<1>1. MarginInv => MarginCovered
  BY DEF MarginInv, Covers, MarginCovered, Reserved, Book
<1> QED BY <1>1, InitType, NextType, InitCovers, NextCovers, PTL DEF Spec

-----------------------------------------------------------------------------
(* The stops.                                                              *)
(*                                                                         *)
(* "Broker must guarantee no position exists without SL": proved for       *)
(* clients that place entries, close, halt and reset, but never reduce,    *)
(* cancel a single order or call SetProtectiveOrders. The assumption is    *)
(* needed: with a reduce-only order alone the broker breaks its guarantee. *)
(*                                                                         *)
(* A stop is on the losing side of its position's entry: proved for all    *)
(* clients.                                                                *)

\* The pending orders S were numbered below n, each with a number of its own,
\* and the entries among them ask for a stop.
Sound(S, n) ==
  /\ \A o \in S : o.key < n
  /\ \A o, q \in S : o.key = q.key => o = q
  /\ \A o \in S : o.type = "LIMIT" => o.sl # None

\* Of the orders S, one is the live stop of p.
GuardedBy(S, p) ==
  \E o \in S : /\ o.type = "STOP_MARKET" /\ o.symbol = p.symbol
               /\ o.id = p.slId /\ o.price = p.sl

AllGuarded(P, S) == \A p \in P : GuardedBy(S, p)

SoundBook(b) == Sound(b.orders, b.nextOrderID)
GuardedBook(b) == AllGuarded(b.positions, b.orders)

\* The inductive invariant. Without the first two conjuncts a new order could
\* overwrite the stop of another position in the map of open orders; while
\* EmergencyCloseAll is under way the stops are gone and the positions are not.
GuardInv ==
  /\ Sound(orders, nextOrderID)
  /\ caller = Idle
  /\ lock # Emergency => AllGuarded(positions, orders)

LEMMA FewerSound ==
  ASSUME NEW S \in SUBSET Order, NEW T \in SUBSET S, NEW n \in Nat, NEW m \in Nat,
         n <= m, Sound(S, n)
  PROVE  Sound(T, m)
<1>1. \A o \in T : o.key \in Nat /\ o.key < n
  BY DEF Sound, Order
<1>2. \A o \in T : o.key < m
  BY <1>1
<1>3. \A o, q \in T : o.key = q.key => o = q
  BY DEF Sound
<1> QED BY <1>2, <1>3 DEF Sound

\* Orders of another symbol, or that are no stops, may go.
LEMMA OthersMayGo ==
  ASSUME NEW P, NEW S, NEW T, AllGuarded(P, S),
         \A o \in S \ T : o.type = "STOP_MARKET" => \A p \in P : p.symbol # o.symbol
  PROVE  AllGuarded(P, T)
  BY DEF AllGuarded, GuardedBy

\* Closing a position takes only its own orders with it.
LEMMA ClosedGuarded ==
  ASSUME NEW b \in BookType, NEW p \in Position, NEW exit, NEW closing \in BOOLEAN
  PROVE  LET c == Closed(b, p, exit, closing)
         IN  /\ c.orders \subseteq b.orders
             /\ c.positions = {q \in b.positions : q.symbol # p.symbol}
             /\ SoundBook(b) => SoundBook(c)
             /\ GuardedBook(b) => GuardedBook(c)
<1> DEFINE c == Closed(b, p, exit, closing)
           R == Siblings(b, p)
<1>1. /\ c.positions = {q \in b.positions : q.symbol # p.symbol}
      /\ c.orders = b.orders \ R
      /\ c.nextOrderID = IF closing THEN b.nextOrderID ELSE b.nextOrderID + 1
  BY DEF Closed
<1>2. \A o \in R : o.symbol = p.symbol
  BY DEF Siblings
<1> HIDE DEF c, R
<1>3. SoundBook(b) => SoundBook(c)
  <2>1. /\ b.nextOrderID \in Nat /\ c.nextOrderID \in Nat
        /\ b.nextOrderID <= c.nextOrderID
        /\ b.orders \in SUBSET Order /\ c.orders \in SUBSET b.orders
    BY <1>1 DEF BookType
  <2> QED BY <2>1, FewerSound DEF SoundBook
<1>4. GuardedBook(b) => GuardedBook(c)
  <2> SUFFICES ASSUME GuardedBook(b) PROVE GuardedBook(c)
    OBVIOUS
  <2>1. AllGuarded(c.positions, b.orders)
    BY <1>1 DEF GuardedBook, AllGuarded
  <2>2. \A o \in b.orders \ c.orders : \A q \in c.positions : q.symbol # o.symbol
    BY <1>1, <1>2
  <2> QED BY <2>1, <2>2, OthersMayGo DEF GuardedBook
<1> QED BY <1>1, <1>3, <1>4 DEF c

\* The protective orders g of an entry with a stop: the stop, at the next number
\* and linked by its row, and perhaps a target, at the number after.
StopAndTarget(b, g, symbol, sl) ==
  \E stop, target :
    /\ \/ g.new = {stop} /\ g.count = 1
       \/ g.new = {stop, target} /\ g.count = 2
    /\ stop.key = b.nextOrderID /\ target.key = b.nextOrderID + 1
    /\ stop.type = "STOP_MARKET" /\ target.type = "TAKE_PROFIT_MARKET"
    /\ stop.symbol = symbol
    /\ stop.id = g.slId /\ stop.price = sl

LEMMA ProtectionShape ==
  ASSUME NEW b \in BookType, NEW symbol, NEW side, NEW entry, NEW qty,
         NEW sl \in Nat \ {None}, NEW tp
  PROVE  StopAndTarget(b, Protection(b, symbol, side, entry, qty, sl, tp), symbol, sl)
<1> DEFINE exitSide == IF side = "LONG" THEN "SELL" ELSE "BUY"
           wanted   == tp # None /\ OnProfitSide(side, tp, entry)
           targets  == IF wanted THEN 1 ELSE 0
           row      == b.db.nextOrderRow
           ExitOrder(k, type, x) ==
             [key |-> b.nextOrderID + k, id |-> row + k, symbol |-> symbol,
              side |-> exitSide, type |-> type, price |-> x, qty |-> qty,
              sl |-> None, tp |-> None]
           stop   == ExitOrder(0, "STOP_MARKET", sl)
           target == ExitOrder(1, "TAKE_PROFIT_MARKET", tp)
           g == Protection(b, symbol, side, entry, qty, sl, tp)
<1>1. b.nextOrderID \in Nat /\ row \in Nat
  BY DEF BookType, Tables
<1>2. /\ g.new = {ExitOrder(0, "STOP_MARKET", sl) : i \in 1 .. 1}
                   \cup {ExitOrder(1, "TAKE_PROFIT_MARKET", tp) : i \in 1 .. targets}
      /\ g.count = 1 + targets
      /\ g.slId = row
  BY DEF Protection
<1>3. /\ stop.key = b.nextOrderID /\ target.key = b.nextOrderID + 1
      /\ stop.type = "STOP_MARKET" /\ target.type = "TAKE_PROFIT_MARKET"
      /\ stop.symbol = symbol
      /\ stop.id = row /\ stop.price = sl
  BY <1>1
<1>4. \/ g.new = {stop} /\ g.count = 1
      \/ g.new = {stop, target} /\ g.count = 2
  <2> HIDE DEF ExitOrder, wanted, g
  <2>1. CASE wanted
    BY <1>2, <2>1
  <2>2. CASE ~wanted
    BY <1>2, <2>2
  <2> QED BY <2>1, <2>2
<1> HIDE DEF stop, target, g
<1>5. StopAndTarget(b, g, symbol, sl)
  <2> USE DEF StopAndTarget
  <2> SUFFICES \E s, t : /\ \/ g.new = {s} /\ g.count = 1
                            \/ g.new = {s, t} /\ g.count = 2
                         /\ s.key = b.nextOrderID /\ t.key = b.nextOrderID + 1
                         /\ s.type = "STOP_MARKET"
                         /\ t.type = "TAKE_PROFIT_MARKET"
                         /\ s.symbol = symbol
                         /\ s.id = g.slId /\ s.price = sl
    OBVIOUS
  <2> WITNESS stop, target
  <2> QED BY <1>2, <1>3, <1>4
<1> QED BY <1>5 DEF g

\* New numbers overwrite no order.
LEMMA PutFresh ==
  ASSUME NEW S \in SUBSET Order, NEW n \in Nat, Sound(S, n),
         NEW new, \A o \in new : o.key \in Nat /\ o.key >= n
  PROVE  Put(S, new) = S \cup new
<1>1. \A o \in S : o.key \in Nat /\ o.key < n
  BY DEF Sound, Order
<1>2. \A o \in S, m \in new : m.key # o.key
  BY <1>1
<1> QED BY <1>2 DEF Put

\* An entry with a stop keeps the others' stops and brings its own.
LEMMA OpenedGuarded ==
  ASSUME NEW b \in BookType, NEW symbol \in Symbols,
         NEW side \in {"LONG", "SHORT"}, NEW entry \in Nat, NEW qty \in Nat,
         NEW sl \in Nat \ {None}, NEW tp \in Nat, NEW feeRate \in Nat,
         SoundBook(b), GuardedBook(b)
  PROVE  LET c == Opened(b, symbol, side, qty, entry, sl, tp, feeRate)
         IN  /\ SoundBook(c) /\ GuardedBook(c)
             /\ c.nextOrderID >= b.nextOrderID
<1> DEFINE g == Protection(b, symbol, side, entry, qty, sl, tp)
           p == [id |-> b.db.nextPosRow, symbol |-> symbol, side |-> side,
                 entry |-> entry, size |-> qty, sl |-> sl, tp |-> tp,
                 slId |-> g.slId, tpId |-> g.tpId]
           c == Opened(b, symbol, side, qty, entry, sl, tp, feeRate)
           n == b.nextOrderID
<1>1. /\ c.positions = {q \in b.positions : q.symbol # symbol} \cup {p}
      /\ c.orders = Put(b.orders, g.new)
      /\ c.nextOrderID = n + g.count
  BY DEF Opened
<1>2. /\ p.symbol = symbol /\ p.sl = sl /\ p.slId = g.slId
  OBVIOUS
<1>3. n \in Nat /\ b.orders \in SUBSET Order
  BY DEF BookType
<1>3a. StopAndTarget(b, g, symbol, sl)
  BY ProtectionShape
<1>4. PICK stop, target :
        /\ \/ g.new = {stop} /\ g.count = 1
           \/ g.new = {stop, target} /\ g.count = 2
        /\ stop.key = n /\ target.key = n + 1
        /\ stop.type = "STOP_MARKET" /\ target.type = "TAKE_PROFIT_MARKET"
        /\ stop.symbol = symbol
        /\ stop.id = g.slId /\ stop.price = sl
  BY <1>3a DEF StopAndTarget
<1> HIDE DEF g, p, c, n
<1>5. c.nextOrderID \in Nat /\ c.nextOrderID > n
  BY <1>1, <1>3, <1>4
<1>6. \A o \in g.new : o.key \in Nat /\ o.key >= n /\ o.key < c.nextOrderID
  BY <1>1, <1>3, <1>4
<1>7. \A o, q \in g.new : o.key = q.key => o = q
  BY <1>3, <1>4
<1>8. c.orders = b.orders \cup g.new
  BY <1>1, <1>3, <1>6, PutFresh DEF SoundBook, n
<1>9. SoundBook(c)
  <2>1. \A o \in b.orders : o.key \in Nat /\ o.key < n
    BY <1>3 DEF SoundBook, Sound, Order, n
  <2>2. \A o \in c.orders : o.key < c.nextOrderID
    BY <1>3, <1>5, <1>6, <1>8, <2>1
  <2>3. \A o, q \in c.orders : o.key = q.key => o = q
    <3> SUFFICES ASSUME NEW o \in c.orders, NEW q \in c.orders, o.key = q.key
                 PROVE  o = q
      OBVIOUS
    <3>1. CASE o \in b.orders /\ q \in b.orders
      BY <3>1 DEF SoundBook, Sound
    <3>2. CASE o \in g.new /\ q \in g.new
      BY <1>7, <3>2
    <3>3. ~(o \in b.orders /\ q \in g.new) /\ ~(q \in b.orders /\ o \in g.new)
      BY <1>3, <1>6, <2>1
    <3> QED BY <1>8, <3>1, <3>2, <3>3
  <2>4. \A o \in c.orders : o.type = "LIMIT" => o.sl # None
    BY <1>4, <1>8 DEF SoundBook, Sound
  <2> QED BY <2>2, <2>3, <2>4 DEF SoundBook, Sound
<1>10. GuardedBook(c)
  <2>1. GuardedBy(c.orders, p)
    BY <1>2, <1>4, <1>8 DEF GuardedBy
  <2>2. \A q \in b.positions : GuardedBy(c.orders, q)
    BY <1>8 DEF GuardedBook, AllGuarded, GuardedBy
  <2> QED BY <1>1, <2>1, <2>2 DEF GuardedBook, AllGuarded
<1> QED BY <1>3, <1>5, <1>9, <1>10 DEF c, n

\* An order that triggers takes its position with it.
LEMMA TriggeredGuarded ==
  ASSUME NEW b \in BookType, NEW o \in b.orders, NEW p \in Position, NEW x,
         o.symbol = p.symbol, SoundBook(b), GuardedBook(b)
  PROVE  LET c == Triggered(b, o, p, x)
         IN  /\ SoundBook(c) /\ GuardedBook(c)
             /\ \A q \in c.positions : q.symbol # p.symbol
<1> DEFINE e == Closed(b, p, x, TRUE)
           c == Triggered(b, o, p, x)
<1>1. /\ e.orders \subseteq b.orders
      /\ e.positions = {q \in b.positions : q.symbol # p.symbol}
      /\ SoundBook(e) /\ GuardedBook(e)
  BY ClosedGuarded
<1>2. e.nextOrderID = b.nextOrderID
  BY DEF Closed
<1>3. /\ c.positions = e.positions
      /\ c.orders = Without(e.orders, o)
      /\ c.nextOrderID = e.nextOrderID
  BY DEF Triggered, Closed
<1> HIDE DEF e, c
<1>4. \A q \in e.orders \ c.orders : q = o
  BY <1>1, <1>3 DEF Without, SoundBook, Sound
<1>5. SoundBook(c)
  BY <1>1, <1>3 DEF Without, SoundBook, Sound
<1>6. GuardedBook(c)
  <2>1. AllGuarded(c.positions, e.orders)
    BY <1>1, <1>3 DEF GuardedBook
  <2>2. \A q \in e.orders \ c.orders : \A r \in c.positions : r.symbol # q.symbol
    BY <1>1, <1>3, <1>4
  <2> QED BY <2>1, <2>2, OthersMayGo DEF GuardedBook
<1> QED BY <1>1, <1>3, <1>5, <1>6 DEF c
-----------------------------------------------------------------------------
(* The steps. Bystanders is what the clients of this theorem never call.   *)

Bystanders == {"reduce", "cancel", "setProtective"}

LEMMA BookGuarded ==
  ASSUME TypeOK, GuardInv, lock # Emergency
  PROVE  Book \in BookType /\ SoundBook(Book) /\ GuardedBook(Book)
  BY BookTyped DEF GuardInv, SoundBook, GuardedBook, Book

\* A handler that leaves a guarded book, the lock and the caller.
LEMMA StepGuarded ==
  ASSUME GuardInv, NEW b, Becomes(b), SoundBook(b), GuardedBook(b),
         UNCHANGED caller
  PROVE  GuardInv'
  BY DEF GuardInv, Becomes, SoundBook, GuardedBook

LEMMA NumberedGuarded ==
  ASSUME NEW b \in BookType, SoundBook(b), GuardedBook(b)
  PROVE  SoundBook(Numbered(b)) /\ GuardedBook(Numbered(b))
<1> DEFINE c == Numbered(b)
<1>1. c.orders = b.orders /\ c.positions = b.positions
      /\ c.nextOrderID = b.nextOrderID + 1
  BY DEF Numbered, BookType
<1>2. b.orders \in SUBSET Order /\ b.nextOrderID \in Nat
  BY DEF BookType
<1> HIDE DEF c
<1>3. b.orders \in SUBSET b.orders /\ c.nextOrderID \in Nat
      /\ b.nextOrderID <= c.nextOrderID
  BY <1>1, <1>2
<1>4. Sound(b.orders, c.nextOrderID)
  BY <1>2, <1>3, FewerSound DEF SoundBook
<1>5. SoundBook(c) /\ GuardedBook(c)
  BY <1>1, <1>4 DEF SoundBook, GuardedBook
<1> QED BY <1>5 DEF c

LEMMA EnterGuarded ==
  ASSUME NEW b \in BookType, SoundBook(b), GuardedBook(b), NEW s \in Symbols,
         NEW side \in {"BUY", "SELL"}, NEW qty \in Qtys, NEW fill \in Nat,
         NEW sl \in Prices, NEW tp \in Targets \cup {None}
  PROVE  LET c == Opened(Filled(b), s, PositionSide(side), qty, fill, sl, tp, TakerFee)
         IN  SoundBook(c) /\ GuardedBook(c)
<1> DEFINE f == Filled(b)
<1>1. f \in BookType
  BY FilledType
<1>2. f.orders = b.orders /\ f.positions = b.positions
      /\ f.nextOrderID = b.nextOrderID
  BY DEF Filled, BookType
<1> HIDE DEF f
<1>3. SoundBook(f) /\ GuardedBook(f)
  BY <1>2 DEF SoundBook, GuardedBook
<1>4. /\ PositionSide(side) \in {"LONG", "SHORT"} /\ qty \in Nat
      /\ sl \in Nat \ {None} /\ tp \in Nat /\ TakerFee \in Nat
  BY BrokerAssumption, PricesType DEF PositionSide, None
<1> DEFINE c == Opened(f, s, PositionSide(side), qty, fill, sl, tp, TakerFee)
<1>5. SoundBook(c) /\ GuardedBook(c)
  BY <1>1, <1>3, <1>4, OpenedGuarded
<1> QED BY <1>5 DEF c, f

LEMMA EntryGuarded ==
  ASSUME TypeOK, GuardInv, Entry, ClientOps \cap Bystanders = {}
  PROVE  GuardInv'
<1>1. ~Calls("reduce")
  BY DEF Calls, Bystanders
<1>2. PICK s \in Symbols, side \in {"BUY", "SELL"}, qty \in Qtys, sl \in Prices :
        \/ RejectMarket(s, side, qty, sl)
        \/ \E tp \in Targets \cup {None} :
             \/ PlaceMarket(s, side, qty, sl, tp)
             \/ \E x \in Prices : PlaceLimit(s, side, qty, x, sl, tp)
  BY <1>1 DEF Entry, RejectReduce, ReduceOnly
<1>3. lock = Free
  BY <1>2 DEF RejectMarket, PlaceMarket, PlaceLimit, Calls
<1>4. lock # Emergency
  BY <1>3 DEF Free, Emergency
<1> DEFINE b == Numbered(Book)
<1>5. Book \in BookType /\ b \in BookType
  BY BookTyped, NumberedType
<1>6. SoundBook(Book) /\ GuardedBook(Book)
  BY <1>4, BookGuarded
<1>7. SoundBook(b) /\ GuardedBook(b)
  BY <1>5, <1>6, NumberedGuarded
<1>8. CASE RejectMarket(s, side, qty, sl)
  BY <1>7, <1>8, StepGuarded DEF RejectMarket
<1>9. ASSUME NEW tp \in Targets \cup {None}, PlaceMarket(s, side, qty, sl, tp)
      PROVE  GuardInv'
  <2> DEFINE fill == MarketFill(s, side)
             Enter(c) == Opened(Filled(c), s, PositionSide(side), qty, fill, sl, tp,
                                TakerFee)
  <2>1. prices[s] # None
    BY <1>9 DEF PlaceMarket, MarketRefused
  <2>2. fill \in Nat /\ fill \in Int
    BY <2>1, MarketFillType
  <2>3. \/ Becomes(Enter(b))
        \/ \E p \in positions : Becomes(Enter(Closed(b, p, fill, FALSE)))
    BY <1>9 DEF PlaceMarket
  <2>4. caller' = caller
    BY <1>9 DEF PlaceMarket
  <2> HIDE DEF b, fill
  <2>5. ASSUME NEW c \in BookType, SoundBook(c), GuardedBook(c)
        PROVE  SoundBook(Enter(c)) /\ GuardedBook(Enter(c))
    BY <2>2, <2>5, EnterGuarded
  <2>6. ASSUME Becomes(Enter(b)) PROVE GuardInv'
    <3>1. SoundBook(Enter(b)) /\ GuardedBook(Enter(b))
      BY <1>5, <1>7, <2>5
    <3> HIDE DEF Enter
    <3> QED BY <2>4, <2>6, <3>1, StepGuarded
  <2>7. ASSUME NEW p \in positions, Becomes(Enter(Closed(b, p, fill, FALSE)))
        PROVE  GuardInv'
    <3> DEFINE c == Closed(b, p, fill, FALSE)
    <3>1. p \in Position
      BY DEF TypeOK
    <3>2. c \in BookType
      BY <1>5, <2>2, <3>1, ClosedType
    <3>3. SoundBook(c) /\ GuardedBook(c)
      BY <1>5, <1>7, <3>1, ClosedGuarded
    <3>4. Becomes(Enter(c))
      BY <2>7
    <3> HIDE DEF c
    <3>5. SoundBook(Enter(c)) /\ GuardedBook(Enter(c))
      BY <2>5, <3>2, <3>3
    <3> HIDE DEF Enter
    <3> QED BY <2>4, <3>4, <3>5, StepGuarded
  <2> QED BY <2>3, <2>6, <2>7
<1>10. ASSUME NEW tp \in Targets \cup {None}, NEW x \in Prices,
              PlaceLimit(s, side, qty, x, sl, tp)
       PROVE  GuardInv'
  <2> DEFINE o == [key |-> nextOrderID, id |-> db.nextOrderRow, symbol |-> s,
                   side |-> side, type |-> "LIMIT", price |-> x, qty |-> qty,
                   sl |-> sl, tp |-> tp]
  <2>1. /\ orders' = Put(orders, {o}) /\ positions' = positions
        /\ nextOrderID' = nextOrderID + 1 /\ caller' = caller
    BY <1>10 DEF PlaceLimit, Becomes, Numbered, Book
  <2>2. o.key = nextOrderID /\ o.sl # None
    BY BrokerAssumption DEF None
  <2>3. nextOrderID \in Nat /\ orders \in SUBSET Order
    BY DEF TypeOK
  <2> HIDE DEF o
  <2>4. Sound(orders, nextOrderID) /\ AllGuarded(positions, orders)
    BY <1>4 DEF GuardInv
  <2>5. orders' = orders \cup {o}
    <3>1. \A q \in {o} : q.key \in Nat /\ q.key >= nextOrderID
      BY <2>2, <2>3
    <3> QED BY <2>1, <2>3, <2>4, <3>1, PutFresh
  <2>6. \A q \in orders : q.key \in Nat /\ q.key < nextOrderID
    BY <2>3, <2>4 DEF Sound, Order
  <2>7. Sound(orders', nextOrderID')
    <3>1. \A q \in orders' : q.key < nextOrderID'
      BY <2>1, <2>2, <2>3, <2>5, <2>6
    <3>2. \A q, r \in orders' : q.key = r.key => q = r
      BY <2>2, <2>3, <2>4, <2>5, <2>6 DEF Sound
    <3>3. \A q \in orders' : q.type = "LIMIT" => q.sl # None
      BY <2>2, <2>4, <2>5 DEF Sound
    <3> QED BY <3>1, <3>2, <3>3 DEF Sound
  <2>8. AllGuarded(positions', orders')
    BY <2>1, <2>4, <2>5 DEF AllGuarded, GuardedBy
  <2> QED BY <2>1, <2>7, <2>8 DEF GuardInv
<1> QED BY <1>2, <1>8, <1>9, <1>10

LEMMA ExitGuarded ==
  ASSUME TypeOK, GuardInv, Exit, ClientOps \cap Bystanders = {}
  PROVE  GuardInv'
<1>1. ~Calls("cancel")
  BY DEF Calls, Bystanders
<1>2. ASSUME NEW p \in positions, ClosePosition(p)
      PROVE  GuardInv'
  <2>1. lock # Emergency /\ caller' = caller
    BY <1>2 DEF ClosePosition, Calls, Free, Emergency
  <2>2. Book \in BookType /\ SoundBook(Book) /\ GuardedBook(Book)
    BY <2>1, BookGuarded
  <2> DEFINE c == Closed(Book, p, prices[p.symbol], FALSE)
  <2>3. SoundBook(c) /\ GuardedBook(c)
    <3>1. p \in Position
      BY DEF TypeOK
    <3> QED BY <2>2, <3>1, ClosedGuarded
  <2>4. Becomes(c)
    BY <1>2 DEF ClosePosition
  <2> HIDE DEF c
  <2> QED BY <2>1, <2>3, <2>4, StepGuarded
<1>3. ASSUME EmergencyCloseAll
      PROVE  GuardInv'
  <2>1. /\ orders' = {} /\ caller' = caller /\ positions' = positions
        /\ lock' = IF positions = {} THEN Free ELSE Emergency
    BY <1>3 DEF EmergencyCloseAll, DropAllOrders
  <2> QED BY <2>1 DEF GuardInv, Sound, AllGuarded
\* The last position to go leaves nothing to guard.
<1>4. ASSUME NEW p \in positions, EmergencyClose(p)
      PROVE  GuardInv'
  <2> DEFINE x == IF prices[p.symbol] = None THEN p.entry ELSE prices[p.symbol]
             c == Closed(Book, p, x, FALSE)
  <2>1. /\ Becomes(c) /\ caller' = caller
        /\ lock' = IF positions' = {} THEN Free ELSE Emergency
    BY <1>4 DEF EmergencyClose
  <2>2. SoundBook(c)
    <3>1. p \in Position
      BY DEF TypeOK
    <3>2. Book \in BookType
      BY BookTyped
    <3>3. SoundBook(Book)
      BY DEF GuardInv, SoundBook, Book
    <3> QED BY <3>1, <3>2, <3>3, ClosedGuarded
  <2> HIDE DEF c
  <2> QED BY <2>1, <2>2 DEF GuardInv, Becomes, SoundBook, AllGuarded
<1> QED BY <1>1, <1>2, <1>3, <1>4 DEF Exit, CancelOrder

\* A limit order that fills is itself no stop.
LEMMA LimitFilledGuarded ==
  ASSUME NEW b \in BookType, NEW o \in b.orders, o.type = "LIMIT",
         SoundBook(b), GuardedBook(b)
  PROVE  SoundBook(LimitFilled(b, o)) /\ GuardedBook(LimitFilled(b, o))
<1> DEFINE e == [b EXCEPT !.db = Settle(@, {o})]
           c == Opened(e, o.symbol, PositionSide(o.side), o.qty, o.price, o.sl,
                       o.tp, MakerFee)
           f == LimitFilled(b, o)
<1>1. e \in BookType
  <2>1. Settle(b.db, {o}) \in Tables
    BY SettleType DEF BookType
  <2> QED BY <2>1 DEF BookType
<1>2. e.orders = b.orders /\ e.positions = b.positions
      /\ e.nextOrderID = b.nextOrderID
  BY DEF BookType
<1>3. f = [c EXCEPT !.orders = Without(@, o)]
  BY DEF LimitFilled
<1> HIDE DEF e
<1>4. SoundBook(e) /\ GuardedBook(e)
  BY <1>2 DEF SoundBook, GuardedBook
<1>5. /\ o \in Order
      /\ o.symbol \in Symbols /\ PositionSide(o.side) \in {"LONG", "SHORT"}
      /\ o.qty \in Nat /\ o.price \in Nat /\ o.tp \in Nat
      /\ o.sl \in Nat \ {None} /\ MakerFee \in Nat
  BY BrokerAssumption DEF BookType, Order, PositionSide, SoundBook, Sound
<1>6. SoundBook(c) /\ GuardedBook(c)
  BY <1>1, <1>4, <1>5, OpenedGuarded
<1>7. o \in c.orders
  <2>1. \A n \in Protection(e, o.symbol, PositionSide(o.side), o.price, o.qty,
                            o.sl, o.tp).new : n.key # o.key
    <3> DEFINE g == Protection(e, o.symbol, PositionSide(o.side), o.price, o.qty,
                               o.sl, o.tp)
    <3>1. StopAndTarget(e, g, o.symbol, o.sl)
      BY <1>1, <1>5, ProtectionShape
    <3>2. o.key \in Nat /\ e.nextOrderID \in Nat /\ o.key < e.nextOrderID
      BY <1>1, <1>2, <1>4, <1>5 DEF BookType, Order, SoundBook, Sound
    <3> HIDE DEF g
    <3>3. \A n \in g.new : n.key # o.key
      BY <3>1, <3>2 DEF StopAndTarget
    <3> QED BY <3>3 DEF g
  <2> QED BY <1>2, <2>1 DEF Opened, Put
<1>8. /\ f.orders = Without(c.orders, o) /\ f.positions = c.positions
      /\ f.nextOrderID = c.nextOrderID
  BY <1>3 DEF Opened
<1> HIDE DEF c, f
<1>9. SoundBook(f)
  BY <1>6, <1>8 DEF SoundBook, Sound, Without
<1>10. GuardedBook(f)
  <2>1. \A q \in c.orders \ f.orders : q = o
    BY <1>6, <1>7, <1>8 DEF Without, SoundBook, Sound
  <2>2. AllGuarded(f.positions, c.orders)
    BY <1>6, <1>8 DEF GuardedBook
  <2>3. \A q \in c.orders \ f.orders : q.type # "STOP_MARKET"
    BY <2>1
  <2> QED BY <2>2, <2>3, OthersMayGo DEF GuardedBook
<1> QED BY <1>9, <1>10 DEF f

LEMMA TickGuarded ==
  ASSUME TypeOK, GuardInv, Tick
  PROVE  GuardInv'
<1>1. ASSUME NEW s \in Symbols, NEW x \in Prices, SetSymbolPrice(s, x)
      PROVE  GuardInv'
  BY <1>1 DEF SetSymbolPrice, GuardInv
<1>2. ASSUME NEW s \in Symbols, NEW x \in Prices, UpdatePrice(s, x)
      PROVE  GuardInv'
  <2>1. lock # Emergency /\ caller' = caller
    BY <1>2 DEF UpdatePrice, Free, Emergency
  <2>2. Book \in BookType /\ SoundBook(Book) /\ GuardedBook(Book)
    BY <2>1, BookGuarded
  <2>3. CASE Becomes(Book)
    BY <2>1, <2>2, <2>3, StepGuarded
  <2>4. ASSUME NEW o \in orders, NEW p \in positions, o.symbol = p.symbol,
               Becomes(Triggered(Book, o, p, x))
        PROVE  GuardInv'
    <3> DEFINE c == Triggered(Book, o, p, x)
    <3>1. o \in Book.orders /\ p \in Position
      BY DEF Book, TypeOK
    <3>2. SoundBook(c) /\ GuardedBook(c)
      BY <2>2, <2>4, <3>1, TriggeredGuarded
    <3> HIDE DEF c
    <3> QED BY <2>1, <2>4, <3>2, StepGuarded DEF c
  <2> QED BY <1>2, <2>3, <2>4 DEF UpdatePrice
<1>3. ASSUME NEW s \in Symbols, NEW low \in Prices, NEW high \in Prices,
             NEW close \in Prices, ProcessCandle(s, low, high, close)
      PROVE  GuardInv'
  BY <1>3 DEF ProcessCandle, GuardInv, Free, Emergency
<1>4. ASSUME lock \in Candle
      PROVE  lock # Emergency
  <2>1. lock.op = "candle"
    BY <1>4 DEF Candle
  <2>2. Emergency.op = "emergency"
    BY DEF Emergency
  <2> QED BY <2>1, <2>2
<1>5. ASSUME NEW o \in orders, FillLimit(o)
      PROVE  GuardInv'
  <2>1. /\ lock # Emergency /\ caller' = caller /\ o.type = "LIMIT"
    BY <1>4, <1>5 DEF FillLimit, Reached
  <2>2. Book \in BookType /\ SoundBook(Book) /\ GuardedBook(Book)
    BY <2>1, BookGuarded
  <2>3. CASE Becomes(LimitFilled(Book, o))
    <3>1. o \in Book.orders
      BY DEF Book
    <3>2. SoundBook(LimitFilled(Book, o)) /\ GuardedBook(LimitFilled(Book, o))
      BY <2>1, <2>2, <3>1, LimitFilledGuarded
    <3> QED BY <2>1, <2>3, <3>2, StepGuarded
  <2>4. CASE Becomes([Book EXCEPT !.orders = Without(@, o), !.db = Settle(@, {o})])
    <3>1. /\ orders' = Without(orders, o) /\ positions' = positions
          /\ nextOrderID' = nextOrderID
      BY <2>4 DEF Becomes, Book
    <3>2. Sound(orders, nextOrderID) /\ AllGuarded(positions, orders)
      BY <2>1 DEF GuardInv
    <3>3. Sound(orders', nextOrderID')
      BY <3>1, <3>2 DEF Sound, Without
    <3>4. \A q \in orders \ orders' : q = o
      BY <3>1, <3>2 DEF Sound, Without
    <3>5. AllGuarded(positions, orders')
      BY <2>1, <3>2, <3>4, OthersMayGo
    <3> QED BY <2>1, <3>1, <3>3, <3>5 DEF GuardInv
  <2> QED BY <1>5, <2>3, <2>4 DEF FillLimit
\* What a candle drops was crossed on its symbol, and so was what it closes.
<1>6. ASSUME FinishCandle
      PROVE  GuardInv'
  <2> DEFINE stops == Crossed("STOP_MARKET")
             hit   == IF stops # {} THEN stops ELSE Crossed("TAKE_PROFIT_MARKET")
             held  == {p \in positions : p.symbol = lock.symbol}
  <2>1. /\ lock # Emergency /\ caller' = caller
        /\ \/ /\ hit = {} \/ held = {}
              /\ Becomes([Book EXCEPT !.orders = @ \ hit])
           \/ \E o \in hit, p \in held :
                LET c == Triggered(Book, o, p, o.price)
                IN  Becomes([c EXCEPT !.orders = @ \ hit])
    BY <1>4, <1>6 DEF FinishCandle
  <2>2. Book \in BookType /\ SoundBook(Book) /\ GuardedBook(Book)
    BY <2>1, BookGuarded
  <2>3. hit \subseteq orders /\ \A o \in hit : o.symbol = lock.symbol
    BY DEF Crossed
  <2>4. held \subseteq positions /\ \A p \in held : p.symbol = lock.symbol
    OBVIOUS
  <2>5. hit = {} \/ held = {} => \A o \in hit, p \in positions : p.symbol # o.symbol
    BY <2>3
  <2> HIDE DEF stops, hit, held
  <2>6. ASSUME hit = {} \/ held = {}, Becomes([Book EXCEPT !.orders = @ \ hit])
        PROVE  GuardInv'
    <3>1. /\ orders' = orders \ hit /\ positions' = positions
          /\ nextOrderID' = nextOrderID
      BY <2>6 DEF Becomes, Book
    <3>2. Sound(orders, nextOrderID) /\ AllGuarded(positions, orders)
      BY <2>1 DEF GuardInv
    <3>3. Sound(orders', nextOrderID')
      BY <3>1, <3>2 DEF Sound
    <3>4. \A o \in orders \ orders', p \in positions : p.symbol # o.symbol
      BY <2>5, <2>6, <3>1
    <3>5. AllGuarded(positions, orders')
      BY <3>2, <3>4, OthersMayGo
    <3> QED BY <2>1, <3>1, <3>3, <3>5 DEF GuardInv
  <2>7. ASSUME NEW o \in hit, NEW p \in held,
               Becomes([Triggered(Book, o, p, o.price) EXCEPT !.orders = @ \ hit])
        PROVE  GuardInv'
    <3> DEFINE c == Triggered(Book, o, p, o.price)
    <3>1. o \in Book.orders /\ p \in Position /\ o.symbol = p.symbol
      BY <2>3, <2>4 DEF Book, TypeOK
    <3>2. SoundBook(c) /\ GuardedBook(c) /\ \A q \in c.positions : q.symbol # p.symbol
      BY <2>2, <3>1, TriggeredGuarded
    <3>3. /\ orders' = c.orders \ hit /\ positions' = c.positions
          /\ nextOrderID' = c.nextOrderID
      BY <2>7 DEF Becomes, Triggered, Closed
    <3> HIDE DEF c
    <3>4. Sound(orders', nextOrderID')
      BY <3>2, <3>3 DEF SoundBook, Sound
    <3>5. \A q \in c.orders \ orders', r \in c.positions : r.symbol # q.symbol
      BY <2>3, <2>4, <3>2, <3>3
    <3>6. AllGuarded(c.positions, orders')
      BY <3>2, <3>5, OthersMayGo DEF GuardedBook
    <3> QED BY <2>1, <3>3, <3>4, <3>6 DEF GuardInv
  <2> QED BY <2>1, <2>6, <2>7
<1> QED BY <1>1, <1>2, <1>3, <1>5, <1>6 DEF Tick

LEMMA NextGuarded ==
  ASSUME TypeOK, GuardInv, [Next]_vars, ClientOps \cap Bystanders = {}
  PROVE  GuardInv'
<1>1. CASE Protect
  <2>1. ~Calls("setProtective") /\ caller = Idle
    BY DEF Calls, Bystanders, GuardInv
  <2> QED BY <1>1, <2>1 DEF Protect, BeginProtect, PlaceStop, PlaceTarget, Link, Idle
<1>2. CASE SetHalted \/ ResetDailyLoss \/ UNCHANGED vars
  BY <1>2 DEF SetHalted, ResetDailyLoss, vars, GuardInv
<1> QED BY <1>1, <1>2, EntryGuarded, ExitGuarded, TickGuarded DEF Next

-----------------------------------------------------------------------------
\* broker.go: "Broker must guarantee no position exists without SL". Outside an
\* EmergencyCloseAll, every open position has a live stop order at its own stop
\* price, through every entry, replacement, limit fill, trigger and candle, for
\* clients that never reduce, cancel one order, or call SetProtectiveOrders.
THEOREM AlwaysGuarded ==
  ASSUME ClientOps \cap Bystanders = {}
  PROVE  Spec => []NoNakedPosition
<1>1. Init => GuardInv
  BY DEF Init, GuardInv, Sound, AllGuarded
<1>2. TypeOK /\ GuardInv /\ [Next]_vars => GuardInv'
  BY NextGuarded
<1>3. GuardInv => NoNakedPosition
  BY DEF GuardInv, AllGuarded, GuardedBy, NoNakedPosition, Guarded
<1> QED BY <1>1, <1>2, <1>3, TypeCorrect, PTL DEF Spec
-----------------------------------------------------------------------------
(* Stop prices: for every set of clients, SetProtectiveOrders included.     *)

StopSided(p) == p.sl # None => OnLossSide(p.side, p.sl, p.entry)

\* The same row of the table: what validated a stop of p validates it for q.
Agrees(p, q) == p.id = q.id => p.side = q.side /\ p.entry = q.entry

\* The positions P have rows below n and stops on their losing side.
Sided(P, n) ==
  /\ \A p \in P : p.id < n /\ StopSided(p)
  /\ \A p, q \in P : Agrees(p, q)

\* The inductive invariant: a SetProtectiveOrders in progress validated its stop
\* against a position whose row number no later position of the symbol reuses.
StopInv ==
  /\ Sided(positions, db.nextPosRow)
  /\ caller # Idle =>
       /\ caller.pos.id < db.nextPosRow
       /\ OnLossSide(caller.pos.side, caller.sl, caller.pos.entry)
       /\ \A p \in positions : Agrees(caller.pos, p)

\* Each position of Q is one of P, maybe reduced.
Shrinks(P, Q) ==
  \A q \in Q : \E p \in P : /\ q.id = p.id /\ q.side = p.side
                            /\ q.entry = p.entry /\ q.sl = p.sl

\* From P, with n the next row, positions were closed or reduced and at most one
\* was opened.
Evolves(P, n, Q, m) ==
  \/ Shrinks(P, Q) /\ m = n
  \/ m = n + 1 /\ \E e \in Q : e.id = n /\ StopSided(e) /\ Shrinks(P, Q \ {e})

BookEvolves(b, c) ==
  Evolves(b.positions, b.db.nextPosRow, c.positions, c.db.nextPosRow)

LEMMA EvolvesSided ==
  ASSUME NEW P \in SUBSET Position, NEW Q \in SUBSET Position,
         NEW n \in Nat, NEW m \in Nat,
         Sided(P, n), Evolves(P, n, Q, m)
  PROVE  /\ Sided(Q, m)
         /\ \A r \in Position : r.id < n /\ (\A p \in P : Agrees(r, p)) =>
              r.id < m /\ \A q \in Q : Agrees(r, q)
<1>1. CASE Shrinks(P, Q) /\ m = n
  <2>1. \A q \in Q : q.id < m /\ StopSided(q)
    BY <1>1 DEF Shrinks, Sided, StopSided
  <2>2. \A q, r \in Q : Agrees(q, r)
    BY <1>1 DEF Shrinks, Sided, Agrees
  <2>3. ASSUME NEW r \in Position, \A p \in P : Agrees(r, p)
        PROVE  \A q \in Q : Agrees(r, q)
    BY <1>1, <2>3 DEF Shrinks, Agrees
  <2> QED BY <1>1, <2>1, <2>2, <2>3 DEF Sided
<1>2. ASSUME m = n + 1, NEW e \in Q, e.id = n, StopSided(e), Shrinks(P, Q \ {e})
      PROVE  /\ Sided(Q, m)
             /\ \A r \in Position : r.id < n /\ (\A p \in P : Agrees(r, p)) =>
                  r.id < m /\ \A q \in Q : Agrees(r, q)
  <2>1. \A q \in Q \ {e} : q.id < n /\ StopSided(q)
    BY <1>2 DEF Shrinks, Sided, StopSided
  <2>2. \A q \in Q : q.id \in Nat
    BY DEF Position
  <2>3. \A q \in Q : q.id < m /\ StopSided(q)
    BY <1>2, <2>1, <2>2
  <2>4. \A q, r \in Q \ {e} : Agrees(q, r)
    BY <1>2 DEF Shrinks, Sided, Agrees
  <2>5. \A q \in Q \ {e} : Agrees(q, e) /\ Agrees(e, q)
    BY <1>2, <2>1, <2>2 DEF Agrees
  <2>6. \A q, r \in Q : Agrees(q, r)
    BY <2>4, <2>5 DEF Agrees
  <2>7. ASSUME NEW r \in Position, r.id < n, \A p \in P : Agrees(r, p)
        PROVE  r.id < m /\ \A q \in Q : Agrees(r, q)
    <3>1. r.id \in Nat
      BY DEF Position
    <3>2. \A q \in Q \ {e} : Agrees(r, q)
      BY <1>2, <2>7 DEF Shrinks, Agrees
    <3> QED BY <1>2, <2>7, <3>1, <3>2 DEF Agrees
  <2> QED BY <2>3, <2>6, <2>7 DEF Sided
<1> QED BY <1>1, <1>2 DEF Evolves

\* A handler whose book evolves, and that leaves the caller.
LEMMA StepSided ==
  ASSUME TypeOK, TypeOK', StopInv, UNCHANGED caller,
         Evolves(positions, db.nextPosRow, positions', db'.nextPosRow)
  PROVE  StopInv'
<1>1. /\ positions \in SUBSET Position /\ positions' \in SUBSET Position
      /\ db.nextPosRow \in Nat /\ db'.nextPosRow \in Nat
  BY DEF TypeOK, Tables
<1>2. caller # Idle => caller.pos \in Position
  BY DEF TypeOK, Call
<1> QED BY <1>1, <1>2, EvolvesSided DEF StopInv

LEMMA ClosedEvolves ==
  ASSUME NEW b \in BookType, NEW p, NEW exit, NEW closing \in BOOLEAN
  PROVE  LET c == Closed(b, p, exit, closing)
         IN  c.positions \subseteq b.positions /\ c.db.nextPosRow = b.db.nextPosRow
<1> DEFINE done == Settle(b.db, Siblings(b, p))
           d    == IF closing THEN done ELSE InsertSettled(done)
           a    == Realize(b.acct, Gain(p, SlippedFill(IF p.side = "LONG" THEN "SELL" ELSE "BUY", exit))
                     - SlippedFill(IF p.side = "LONG" THEN "SELL" ELSE "BUY", exit) * p.size * TakerFee, Margin(p))
           c    == Closed(b, p, exit, closing)
<1>1. c.positions = {q \in b.positions : q.symbol # p.symbol}
  BY DEF Closed
<1>2. c.db = DropPosition(d, p, a)
  BY DEF Closed
<1>3. done \in Tables /\ done.nextPosRow = b.db.nextPosRow
  BY SettleType DEF Settle, BookType, Tables
<1> HIDE DEF done, a, c
<1>4. d.nextPosRow = b.db.nextPosRow /\ d \in Tables
  BY <1>3 DEF InsertSettled, Tables
<1> HIDE DEF d
<1>5. DropPosition(d, p, a).nextPosRow = d.nextPosRow
  BY <1>4 DEF DropPosition, Tables
<1> QED BY <1>1, <1>2, <1>4, <1>5 DEF c

\* One position is opened, at the next row, with the stop and entry asked for.
LEMMA OpenedEvolves ==
  ASSUME NEW b \in BookType, NEW symbol \in Symbols,
         NEW side \in {"LONG", "SHORT"}, NEW entry \in Nat, NEW qty \in Nat,
         NEW sl \in Nat, NEW tp \in Nat, NEW feeRate \in Nat,
         sl # None => OnLossSide(side, sl, entry)
  PROVE  BookEvolves(b, Opened(b, symbol, side, qty, entry, sl, tp, feeRate))
<1> DEFINE g == Protection(b, symbol, side, entry, qty, sl, tp)
           p == [id |-> b.db.nextPosRow, symbol |-> symbol, side |-> side,
                 entry |-> entry, size |-> qty, sl |-> sl, tp |-> tp,
                 slId |-> g.slId, tpId |-> g.tpId]
           fee == entry * qty * feeRate
           a   == [b.acct EXCEPT !.balance = @ - fee, !.usedMargin = @ + Margin(p),
                                 !.entryFees = @ + fee]
           d == InsertOrders(b.db, g.new, g.count)
           c == Opened(b, symbol, side, qty, entry, sl, tp, feeRate)
<1>1. /\ c.positions = {q \in b.positions : q.symbol # symbol} \cup {p}
      /\ c.db = InsertPosition(d, p, a)
  BY DEF Opened
<1>2. p.id = b.db.nextPosRow /\ p.side = side /\ p.entry = entry /\ p.sl = sl
  OBVIOUS
<1>3. d \in Tables /\ d.nextPosRow = b.db.nextPosRow
  <2>1. g.new \subseteq Order /\ g.count \in {0, 1, 2}
    BY ProtectionType
  <2> HIDE DEF g
  <2>2. g.new \in SUBSET Order /\ g.count \in Nat /\ b.db \in Tables
    BY <2>1 DEF BookType
  <2> QED BY <2>2, InsertOrdersType DEF InsertOrders, Tables
<1> HIDE DEF g, p, fee, a, d, c
<1>4. c.db.nextPosRow = b.db.nextPosRow + 1
  BY <1>1, <1>3 DEF InsertPosition, Tables
<1>5. p \in c.positions /\ StopSided(p) /\ Shrinks(b.positions, c.positions \ {p})
  BY <1>1, <1>2 DEF StopSided, Shrinks
<1>6. BookEvolves(b, c)
  BY <1>2, <1>4, <1>5 DEF BookEvolves, Evolves
<1> QED BY <1>6 DEF c

LEMMA TriggeredEvolves ==
  ASSUME NEW b \in BookType, NEW o, NEW p \in Position, NEW x \in Int
  PROVE  LET c == Triggered(b, o, p, x)
         IN  c.positions \subseteq b.positions /\ c.db.nextPosRow = b.db.nextPosRow
<1> DEFINE e == Closed(b, p, x, TRUE)
           c == Triggered(b, o, p, x)
<1>1. e.positions \subseteq b.positions /\ e.db.nextPosRow = b.db.nextPosRow
  BY ClosedEvolves
<1>2. e \in BookType
  BY ClosedType
<1> HIDE DEF e
<1>3. c.positions = e.positions /\ c.db = Settle(e.db, {o})
  BY <1>2 DEF Triggered, e, BookType
<1> HIDE DEF c
<1>4. Settle(e.db, {o}).nextPosRow = e.db.nextPosRow
  BY <1>2 DEF Settle, BookType, Tables
<1> QED BY <1>1, <1>3, <1>4 DEF c

LEMMA LimitFilledEvolves ==
  ASSUME NEW b \in BookType, NEW o \in Order,
         OnLossSide(PositionSide(o.side), o.sl, o.price)
  PROVE  BookEvolves(b, LimitFilled(b, o))
<1> DEFINE e == [b EXCEPT !.db = Settle(@, {o})]
           c == Opened(e, o.symbol, PositionSide(o.side), o.qty, o.price, o.sl,
                       o.tp, MakerFee)
           f == LimitFilled(b, o)
<1>1. Settle(b.db, {o}) \in Tables /\ Settle(b.db, {o}).nextPosRow = b.db.nextPosRow
  BY SettleType DEF Settle, BookType, Tables
<1>2. e \in BookType /\ e.positions = b.positions /\ e.db.nextPosRow = b.db.nextPosRow
  BY <1>1 DEF BookType
<1> HIDE DEF e
<1>3. BookEvolves(e, c)
  <2>1. /\ o.symbol \in Symbols /\ PositionSide(o.side) \in {"LONG", "SHORT"}
        /\ o.qty \in Nat /\ o.price \in Nat /\ o.sl \in Nat /\ o.tp \in Nat
        /\ MakerFee \in Nat
    BY BrokerAssumption DEF Order, PositionSide
  <2> QED BY <1>2, <2>1, OpenedEvolves
<1>4. f.positions = c.positions /\ f.db = c.db
  BY DEF LimitFilled, Opened, e
<1> HIDE DEF c, f
<1>5. BookEvolves(b, f)
  BY <1>2, <1>3, <1>4 DEF BookEvolves
<1> QED BY <1>5 DEF f

\* What was closed before the entry makes no difference.
LEMMA EvolvesAfterClose ==
  ASSUME NEW P, NEW Q \in SUBSET P, NEW n, NEW R, NEW m, Evolves(Q, n, R, m)
  PROVE  Evolves(P, n, R, m)
  BY DEF Evolves, Shrinks

LEMMA EntryEvolves ==
  ASSUME TypeOK, Entry
  PROVE  Evolves(positions, db.nextPosRow, positions', db'.nextPosRow)
<1> DEFINE b == Numbered(Book)
<1>1. PICK s \in Symbols, side \in {"BUY", "SELL"} :
        \/ \E qty \in Reductions : RejectReduce(s, side, qty) \/ ReduceOnly(s, side, qty)
        \/ \E qty \in Qtys, sl \in Prices :
             \/ RejectMarket(s, side, qty, sl)
             \/ \E tp \in Targets \cup {None} :
                  \/ PlaceMarket(s, side, qty, sl, tp)
                  \/ \E x \in Prices : PlaceLimit(s, side, qty, x, sl, tp)
  BY DEF Entry
<1>2. Book \in BookType /\ b \in BookType
  BY BookTyped, NumberedType
<1>3. b.positions = positions /\ b.db = db
  BY DEF Numbered, Book
<1>4. db \in Tables
  BY DEF TypeOK
<1> DEFINE fill == MarketFill(s, side)
           Enter(c, qty, sl, tp) ==
             Opened(Filled(c), s, PositionSide(side), qty, fill, sl, tp, TakerFee)
<1> HIDE DEF b
<1>5. ASSUME NEW c \in BookType, NEW qty \in Nat, NEW sl \in Nat, NEW tp \in Nat,
             fill \in Nat, sl # None => OnLossSide(PositionSide(side), sl, fill)
      PROVE  BookEvolves(c, Enter(c, qty, sl, tp))
  <2> DEFINE f == Filled(c)
  <2>1. f \in BookType
    BY FilledType
  <2>2. f.positions = c.positions /\ f.db.nextPosRow = c.db.nextPosRow
    BY DEF Filled, InsertSettled, BookType, Tables
  <2>3. PositionSide(side) \in {"LONG", "SHORT"} /\ TakerFee \in Nat
    BY BrokerAssumption DEF PositionSide
  <2> HIDE DEF f, fill
  <2>4. BookEvolves(f, Opened(f, s, PositionSide(side), qty, fill, sl, tp, TakerFee))
    BY <1>5, <2>1, <2>3, OpenedEvolves
  <2> QED BY <2>2, <2>4 DEF BookEvolves, f
<1>6. ASSUME NEW p \in Position, fill \in Nat
      PROVE  /\ Closed(b, p, fill, FALSE) \in BookType
             /\ Closed(b, p, fill, FALSE).positions \subseteq positions
             /\ Closed(b, p, fill, FALSE).db.nextPosRow = db.nextPosRow
  <2> DEFINE c == Closed(b, p, fill, FALSE)
  <2>1. fill \in Int
    BY <1>6
  <2> HIDE DEF fill
  <2>2. c \in BookType
    BY <1>2, <2>1, ClosedType
  <2>3. c.positions \subseteq b.positions /\ c.db.nextPosRow = b.db.nextPosRow
    BY <1>2, ClosedEvolves
  <2> QED BY <1>3, <2>2, <2>3
<1>7. ASSUME Becomes(b)
      PROVE  Evolves(positions, db.nextPosRow, positions', db'.nextPosRow)
  BY <1>3, <1>7 DEF Becomes, Evolves, Shrinks
<1>8. ASSUME NEW qty \in Qtys, NEW sl \in Prices, NEW tp \in Targets \cup {None},
             PlaceMarket(s, side, qty, sl, tp)
      PROVE  Evolves(positions, db.nextPosRow, positions', db'.nextPosRow)
  <2>1. qty \in Nat /\ sl \in Nat /\ tp \in Nat
    BY BrokerAssumption, PricesType DEF None
  <2>2. prices[s] # None /\ OnLossSide(PositionSide(side), sl, fill)
    BY <1>8 DEF PlaceMarket, MarketRefused
  <2>3. fill \in Nat
    BY <2>2, MarketFillType
  <2>4. \/ Becomes(Enter(b, qty, sl, tp))
        \/ \E p \in positions : Becomes(Enter(Closed(b, p, fill, FALSE), qty, sl, tp))
    BY <1>8 DEF PlaceMarket, b
  <2> HIDE DEF Enter, fill
  <2>5. ASSUME Becomes(Enter(b, qty, sl, tp))
        PROVE  Evolves(positions, db.nextPosRow, positions', db'.nextPosRow)
    BY <1>2, <1>3, <1>5, <2>1, <2>2, <2>3, <2>5 DEF Becomes, BookEvolves
  <2>6. ASSUME NEW p \in positions,
               Becomes(Enter(Closed(b, p, fill, FALSE), qty, sl, tp))
        PROVE  Evolves(positions, db.nextPosRow, positions', db'.nextPosRow)
    <3> DEFINE c == Closed(b, p, fill, FALSE)
    <3>1. /\ c \in BookType /\ c.positions \subseteq positions
          /\ c.db.nextPosRow = db.nextPosRow
      BY <1>6, <2>3 DEF TypeOK
    <3> HIDE DEF c
    <3>2. BookEvolves(c, Enter(c, qty, sl, tp))
      BY <1>5, <2>1, <2>2, <2>3, <3>1
    <3>3. Becomes(Enter(c, qty, sl, tp))
      BY <2>6 DEF c
    <3>4. Evolves(c.positions, db.nextPosRow, positions', db'.nextPosRow)
      BY <3>1, <3>2, <3>3 DEF Becomes, BookEvolves
    <3> QED BY <3>1, <3>4, EvolvesAfterClose
  <2> QED BY <2>4, <2>5, <2>6
<1>9. ASSUME NEW qty \in Qtys, NEW sl \in Prices, NEW tp \in Targets \cup {None},
             NEW x \in Prices, PlaceLimit(s, side, qty, x, sl, tp)
      PROVE  Evolves(positions, db.nextPosRow, positions', db'.nextPosRow)
  <2>1. positions' = positions /\ db'.nextPosRow = db.nextPosRow
    BY <1>4, <1>9 DEF PlaceLimit, Becomes, Numbered, Book, InsertOrders, Tables
  <2> QED BY <2>1 DEF Evolves, Shrinks
<1>10. ASSUME NEW qty \in Reductions, ReduceOnly(s, side, qty)
       PROVE  Evolves(positions, db.nextPosRow, positions', db'.nextPosRow)
  <2>1. fill \in Nat
    BY <1>10, MarketFillType DEF ReduceOnly, ReduceRefused
  <2>2. ASSUME NEW p \in positions, Becomes(Closed(b, p, fill, FALSE))
        PROVE  Evolves(positions, db.nextPosRow, positions', db'.nextPosRow)
    <3>1. p \in Position
      BY DEF TypeOK
    <3> QED BY <1>6, <2>1, <2>2, <3>1 DEF Becomes, Evolves, Shrinks
  <2>3. ASSUME NEW p \in positions, Becomes(Reduced(b, p, qty, fill))
        PROVE  Evolves(positions, db.nextPosRow, positions', db'.nextPosRow)
    <3>1. p \in Position /\ b.positions \in SUBSET Position
      BY <1>3 DEF TypeOK
    <3>2. /\ positions' = (positions \ {p}) \cup {[p EXCEPT !.size = @ - qty]}
          /\ db' = db
      BY <1>2, <1>3, <2>3 DEF Becomes, Reduced, BookType
    <3>3. LET q == [p EXCEPT !.size = @ - qty]
          IN  q.id = p.id /\ q.side = p.side /\ q.entry = p.entry /\ q.sl = p.sl
      BY <3>1 DEF Position
    <3> QED BY <3>2, <3>3 DEF Evolves, Shrinks
  <2>4. ASSUME Becomes(Enter(b, qty, None, None))
        PROVE  Evolves(positions, db.nextPosRow, positions', db'.nextPosRow)
    <3>1. qty \in Nat /\ None \in Nat
      BY BrokerAssumption DEF None
    <3> HIDE DEF Enter, fill
    <3> QED BY <1>2, <1>3, <1>5, <2>1, <2>4, <3>1 DEF Becomes, BookEvolves
  <2> QED BY <1>10, <2>2, <2>3, <2>4 DEF ReduceOnly, b
<1>11. ASSUME NEW qty, NEW sl, RejectReduce(s, side, qty) \/ RejectMarket(s, side, qty, sl)
       PROVE  Becomes(b)
  BY <1>11 DEF RejectReduce, RejectMarket, b
<1> QED BY <1>1, <1>7, <1>8, <1>9, <1>10, <1>11

LEMMA ExitEvolves ==
  ASSUME TypeOK, Exit
  PROVE  Evolves(positions, db.nextPosRow, positions', db'.nextPosRow)
<1>1. Book \in BookType /\ Book.positions = positions /\ Book.db = db
  BY BookTyped DEF Book
<1>2. ASSUME NEW o \in orders, CancelOrder(o)
      PROVE  Evolves(positions, db.nextPosRow, positions', db'.nextPosRow)
  <2>1. positions' = positions /\ db' = Settle(db, {o})
    BY <1>2 DEF CancelOrder, Becomes, Book
  <2> QED BY <2>1 DEF Settle, TypeOK, Tables, Evolves, Shrinks
<1>3. ASSUME NEW p \in positions, NEW x, Becomes(Closed(Book, p, x, FALSE))
      PROVE  Evolves(positions, db.nextPosRow, positions', db'.nextPosRow)
  <2> DEFINE c == Closed(Book, p, x, FALSE)
  <2>1. c.positions \subseteq positions /\ c.db.nextPosRow = db.nextPosRow
    BY <1>1, ClosedEvolves
  <2>2. positions' = c.positions /\ db' = c.db
    BY <1>3 DEF Becomes
  <2> HIDE DEF c
  <2> QED BY <2>1, <2>2 DEF Evolves, Shrinks
<1>4. CASE EmergencyCloseAll
  BY <1>4 DEF EmergencyCloseAll, DropAllOrders, Evolves, Shrinks
<1> QED BY <1>2, <1>3, <1>4 DEF Exit, ClosePosition, EmergencyClose

LEMMA TickEvolves ==
  ASSUME TypeOK, Tick
  PROVE  Evolves(positions, db.nextPosRow, positions', db'.nextPosRow)
<1>1. /\ Book \in BookType /\ Book.positions = positions /\ Book.db = db
      /\ Book.orders = orders
  BY BookTyped DEF Book
<1>2. CASE UNCHANGED <<positions, db>>
  BY <1>2 DEF Evolves, Shrinks
<1>3. ASSUME NEW o \in orders, NEW p \in positions, NEW x \in Int,
             positions' = Triggered(Book, o, p, x).positions,
             db' = Triggered(Book, o, p, x).db
      PROVE  Evolves(positions, db.nextPosRow, positions', db'.nextPosRow)
  <2>1. LET c == Triggered(Book, o, p, x)
        IN  c.positions \subseteq positions /\ c.db.nextPosRow = db.nextPosRow
    <3>1. p \in Position
      BY DEF TypeOK
    <3> QED BY <1>1, <3>1, TriggeredEvolves
  <2> QED BY <1>3, <2>1 DEF Evolves, Shrinks
<1>4. ASSUME NEW s \in Symbols, NEW x \in Prices, UpdatePrice(s, x)
      PROVE  Evolves(positions, db.nextPosRow, positions', db'.nextPosRow)
  <2>1. x \in Int
    BY BrokerAssumption
  <2> QED BY <1>1, <1>2, <1>3, <1>4, <2>1 DEF UpdatePrice, Becomes
<1>5. ASSUME NEW o \in orders, FillLimit(o)
      PROVE  Evolves(positions, db.nextPosRow, positions', db'.nextPosRow)
  <2>1. CASE LimitRefused(o)
    <3>1. positions' = positions /\ db' = Settle(db, {o})
      BY <1>5, <2>1 DEF FillLimit, Becomes, Book
    <3> QED BY <3>1 DEF Settle, TypeOK, Tables, Evolves, Shrinks
  <2>2. CASE ~LimitRefused(o)
    <3>1. BookEvolves(Book, LimitFilled(Book, o))
      <4>1. o \in Order /\ OnLossSide(PositionSide(o.side), o.sl, o.price)
        BY <2>2 DEF LimitRefused, TypeOK
      <4> QED BY <1>1, <4>1, LimitFilledEvolves
    <3>2. Becomes(LimitFilled(Book, o))
      BY <1>5, <2>2 DEF FillLimit
    <3> QED BY <1>1, <3>1, <3>2 DEF Becomes, BookEvolves
  <2> QED BY <2>1, <2>2
<1>6. CASE FinishCandle
  <2> DEFINE stops == Crossed("STOP_MARKET")
             hit   == IF stops # {} THEN stops ELSE Crossed("TAKE_PROFIT_MARKET")
  <2>1. hit \subseteq orders
    BY DEF Crossed
  <2>2. \/ Becomes([Book EXCEPT !.orders = @ \ hit])
        \/ \E o \in hit, p \in positions :
             Becomes([Triggered(Book, o, p, o.price) EXCEPT !.orders = @ \ hit])
    BY <1>6 DEF FinishCandle
  <2> HIDE DEF hit
  <2>3. CASE Becomes([Book EXCEPT !.orders = @ \ hit])
    BY <1>2, <2>3 DEF Becomes, Book
  <2>4. ASSUME NEW o \in hit, NEW p \in positions,
               Becomes([Triggered(Book, o, p, o.price) EXCEPT !.orders = @ \ hit])
        PROVE  Evolves(positions, db.nextPosRow, positions', db'.nextPosRow)
    <3> DEFINE c == Triggered(Book, o, p, o.price)
    <3>1. o \in orders /\ o.price \in Int /\ p \in Position
      BY <2>1 DEF TypeOK, Order
    <3>2. c \in BookType
      BY <1>1, <3>1, TriggeredType
    <3> HIDE DEF c
    <3>3. positions' = c.positions /\ db' = c.db
      BY <2>4, <3>2 DEF c, Becomes, BookType
    <3> QED BY <1>3, <3>1, <3>3 DEF c
  <2> QED BY <2>2, <2>3, <2>4
<1> QED BY <1>2, <1>4, <1>5, <1>6 DEF Tick, SetSymbolPrice, ProcessCandle

\* The four steps of SetProtectiveOrders, the last of which moves a stop.
LEMMA ProtectSided ==
  ASSUME TypeOK, TypeOK', StopInv, Protect
  PROVE  StopInv'
<1>1. positions \subseteq Position /\ db \in Tables /\ (caller # Idle => caller.pos \in Position)
  BY DEF TypeOK, Call
<1>2. ASSUME NEW p \in positions, NEW sl \in Prices, NEW tp \in Targets \cup {None},
             BeginProtect(p, sl, tp)
      PROVE  StopInv'
  <2>1. /\ positions' = positions /\ db'.nextPosRow = db.nextPosRow
        /\ \/ caller' = Idle
           \/ /\ OnLossSide(p.side, sl, p.entry)
              /\ caller' = [step |-> "sl", pos |-> p, sl |-> sl, tp |-> tp,
                            slId |-> None, tpId |-> None]
    BY <1>1, <1>2 DEF BeginProtect, Becomes, Book, Settle, Tables
  <2> QED BY <2>1 DEF StopInv, Sided
<1>3. CASE PlaceStop \/ PlaceTarget
  <2>1. /\ positions' = positions /\ db' = db /\ caller # Idle
        /\ caller'.pos = caller.pos /\ caller'.sl = caller.sl
    <3>1. caller # Idle /\ caller \in Call
      BY <1>3 DEF PlaceStop, PlaceTarget, TypeOK
    <3> QED BY <1>3, <3>1 DEF PlaceStop, PlaceTarget, PlaceExit, Becomes, Numbered, Book, Call
  <2> QED BY <2>1 DEF StopInv
<1>4. CASE Link
  <2>1. caller # Idle /\ caller' = Idle
    BY <1>4 DEF Link
  <2>2. CASE Becomes(Book)
    BY <2>1, <2>2 DEF Becomes, Book, StopInv
  <2>3. ASSUME NEW p \in positions, StillHeld(p),
               Becomes([Book EXCEPT !.positions = (@ \ {p}) \cup {Relinked(p)},
                                    !.db = UpdatePosition(@, Relinked(p))])
        PROVE  StopInv'
    <3> DEFINE q == Relinked(p)
    <3>1. /\ positions' = (positions \ {p}) \cup {q}
          /\ db' = UpdatePosition(db, q)
      BY <2>3 DEF Becomes, Book
    <3>2. db'.nextPosRow = db.nextPosRow
      BY <1>1, <3>1 DEF UpdatePosition, Tables
    <3>3. q.id = p.id /\ q.side = p.side /\ q.entry = p.entry /\ q.sl = caller.sl
      BY <1>1 DEF Relinked, Position
    <3>4. StopSided(q)
      BY <2>1, <2>3, <3>3 DEF StopInv, Agrees, StillHeld, StopSided
    <3> HIDE DEF q
    <3>5. Sided(positions', db.nextPosRow)
      BY <3>1, <3>3, <3>4 DEF StopInv, Sided, Agrees
    <3> QED BY <2>1, <3>2, <3>5 DEF StopInv
  <2> QED BY <1>4, <2>2, <2>3 DEF Link
<1> QED BY <1>2, <1>3, <1>4 DEF Protect

LEMMA NextSided ==
  ASSUME TypeOK, StopInv, [Next]_vars
  PROVE  StopInv'
<1>1. TypeOK'
  BY NextType
<1>2. CASE Entry \/ Exit \/ Tick
  <2>1. ASSUME Entry PROVE UNCHANGED caller
    <3>1. PICK s \in Symbols, side \in {"BUY", "SELL"} :
            \/ \E qty \in Reductions : RejectReduce(s, side, qty) \/ ReduceOnly(s, side, qty)
            \/ \E qty \in Qtys, sl \in Prices :
                 \/ RejectMarket(s, side, qty, sl)
                 \/ \E tp \in Targets \cup {None} :
                      \/ PlaceMarket(s, side, qty, sl, tp)
                      \/ \E x \in Prices : PlaceLimit(s, side, qty, x, sl, tp)
      BY <2>1 DEF Entry
    <3>2. \A qty : RejectReduce(s, side, qty) \/ ReduceOnly(s, side, qty) => UNCHANGED caller
      BY DEF RejectReduce, ReduceOnly
    <3>3. \A qty, sl : RejectMarket(s, side, qty, sl) => UNCHANGED caller
      BY DEF RejectMarket
    <3>4. \A qty, sl, tp : PlaceMarket(s, side, qty, sl, tp) => UNCHANGED caller
      BY DEF PlaceMarket
    <3>5. \A qty, sl, tp, x : PlaceLimit(s, side, qty, x, sl, tp) => UNCHANGED caller
      BY DEF PlaceLimit
    <3> QED BY <3>1, <3>2, <3>3, <3>4, <3>5
  <2>2. Exit => UNCHANGED caller
    BY DEF Exit, CancelOrder, ClosePosition, EmergencyClose, EmergencyCloseAll,
           DropAllOrders
  <2>3. Tick => UNCHANGED caller
    BY DEF Tick, SetSymbolPrice, UpdatePrice, ProcessCandle, FillLimit, FinishCandle
  <2> QED BY <1>1, <1>2, <2>1, <2>2, <2>3, EntryEvolves, ExitEvolves, TickEvolves,
             StepSided
<1>3. CASE SetHalted \/ ResetDailyLoss \/ UNCHANGED vars
  BY <1>3 DEF SetHalted, ResetDailyLoss, vars, StopInv
<1> QED BY <1>1, <1>2, <1>3, ProtectSided DEF Next

\* validateStopLoss holds of what is open, not only of what was asked: whatever
\* the clients call, and however SetProtectiveOrders races the close and
\* re-entry of its symbol, no position has its stop on the profit side.
THEOREM StopsOnLossSide == Spec => []StopOnLossSide
<1>1. Init => StopInv
  BY DEF Init, StopInv, Sided, Idle
<1>2. TypeOK /\ StopInv /\ [Next]_vars => StopInv'
  BY NextSided
<1>3. StopInv => StopOnLossSide
  BY DEF StopInv, Sided, StopSided, StopOnLossSide
<1> QED BY <1>1, <1>2, <1>3, TypeCorrect, PTL DEF Spec
=============================================================================
