----------------------- MODULE BrokerRecoveryProofs -----------------------
(***************************************************************************)
(* BrokerRecovery, for every value of the constants: types for all         *)
(* clients; that no start is refused; and, for clients that place market   *)
(* entries and close positions, that stops survive a restart and that a    *)
(* restart between two calls changes nothing.                              *)
(***************************************************************************)
EXTENDS BrokerRecovery, PaperBrokerProofs

\* The rows of the tables d are numbered below the next ones.
Rows(d) ==
  /\ d.nextOrderRow # 0
  /\ \A o \in d.orders : o.id < d.nextOrderRow
  /\ \A p \in d.positions : p.id < d.nextPosRow
  /\ \A p, q \in d.positions : p.id = q.id => p = q
  /\ IsFiniteSet(d.positions)

-----------------------------------------------------------------------------
(* What the handlers write, stated once. *)

\* Closing p turned the book b into c.
ClosedTo(b, p, closing, c) ==
  /\ c.positions = {q \in b.positions : q.symbol # p.symbol}
  /\ c.orders = b.orders \ Siblings(b, p)
  /\ c.nextOrderID = IF closing THEN b.nextOrderID ELSE b.nextOrderID + 1
  /\ c.db.orders = {r \in b.db.orders : \A o \in Siblings(b, p) : r.id # o.id}
  /\ c.db.nextOrderRow \in {b.db.nextOrderRow, b.db.nextOrderRow + 1}
  /\ c.db.positions = {r \in b.db.positions : r.id # p.id}
  /\ c.db.nextPosRow = b.db.nextPosRow
  /\ c.db.account = c.acct

LEMMA ClosedWrites ==
  ASSUME NEW b \in BookType, NEW p, NEW exit, NEW closing \in BOOLEAN
  PROVE  ClosedTo(b, p, closing, Closed(b, p, exit, closing))
<1> DEFINE R    == Siblings(b, p)
           done == Settle(b.db, R)
           d    == IF closing THEN done ELSE InsertSettled(done)
           x    == SlippedFill(IF p.side = "LONG" THEN "SELL" ELSE "BUY", exit)
           a    == Realize(b.acct, Gain(p, x) - x * p.size * TakerFee, Margin(p))
           c    == Closed(b, p, exit, closing)
<1>1. /\ c.positions = {q \in b.positions : q.symbol # p.symbol}
      /\ c.orders = b.orders \ R
      /\ c.nextOrderID = IF closing THEN b.nextOrderID ELSE b.nextOrderID + 1
      /\ c.acct = a
      /\ c.db = DropPosition(d, p, a)
  BY DEF Closed
<1> HIDE DEF R, a, c
<1>2. b.db \in Tables
  BY DEF BookType
<1>3. /\ done \in Tables /\ done.orders = {r \in b.db.orders : \A o \in R : r.id # o.id}
      /\ done.positions = b.db.positions /\ done.nextPosRow = b.db.nextPosRow
      /\ done.nextOrderRow = b.db.nextOrderRow
  BY <1>2, SettleType, SettleKeeps
<1> HIDE DEF done
<1>4. /\ d \in Tables /\ d.orders = done.orders /\ d.positions = done.positions
      /\ d.nextPosRow = done.nextPosRow
      /\ d.nextOrderRow \in {done.nextOrderRow, done.nextOrderRow + 1}
  <2>1. CASE closing
    BY <1>3, <2>1
  <2>2. CASE ~closing
    BY <1>3, <2>2, InsertSettledKeeps DEF InsertSettled, Tables
  <2> QED BY <2>1, <2>2
<1> HIDE DEF d
<1>5. /\ c.db.orders = d.orders /\ c.db.nextOrderRow = d.nextOrderRow
      /\ c.db.positions = {r \in d.positions : r.id # p.id}
      /\ c.db.nextPosRow = d.nextPosRow /\ c.db.account = a
  BY <1>1, <1>4 DEF DropPosition, Tables
<1>6. ClosedTo(b, p, closing, c)
  BY <1>1, <1>3, <1>4, <1>5 DEF ClosedTo, R
<1> QED BY <1>6 DEF c

\* The orders `new' protect the position q of the book b: they carry the next
\* n numbers and rows, and q links them.
Protects(b, new, n, q) ==
  /\ n \in {0, 1, 2} /\ new \in SUBSET Order
  /\ \A o \in new :
       /\ o.id >= b.db.nextOrderRow /\ o.id < b.db.nextOrderRow + n
       /\ o.key >= b.nextOrderID /\ o.key < b.nextOrderID + n
       /\ o.symbol = q.symbol /\ o.type # "LIMIT" /\ o.id \in {q.slId, q.tpId}
       /\ o.type = "STOP_MARKET" => o.id = q.slId /\ o.price = q.sl
  /\ \A o, r \in new : o.id = r.id => o = r
  /\ \A o, r \in new : o.key = r.key => o = r
  /\ q.sl # None => GuardedBy(new, q)

LEMMA ProtectionProtects ==
  ASSUME NEW b \in BookType, NEW symbol \in Symbols,
         NEW side \in {"LONG", "SHORT"}, NEW entry \in Nat, NEW qty \in Nat,
         NEW sl \in Nat, NEW tp \in Nat,
         NEW q, q.symbol = symbol, q.sl = sl,
         q.slId = Protection(b, symbol, side, entry, qty, sl, tp).slId,
         Protection(b, symbol, side, entry, qty, sl, tp).tpId # None =>
           q.tpId = Protection(b, symbol, side, entry, qty, sl, tp).tpId,
         b.db.nextOrderRow # 0
  PROVE  LET g == Protection(b, symbol, side, entry, qty, sl, tp)
         IN  Protects(b, g.new, g.count, q)
<1> DEFINE exitSide == IF side = "LONG" THEN "SELL" ELSE "BUY"
           wanted   == tp # None /\ OnProfitSide(side, tp, entry)
           stops    == IF sl = None THEN 0 ELSE 1
           targets  == IF wanted THEN 1 ELSE 0
           row      == b.db.nextOrderRow
           ExitOrder(k, type, x) ==
             [key |-> b.nextOrderID + k, id |-> row + k, symbol |-> symbol,
              side |-> exitSide, type |-> type, price |-> x, qty |-> qty,
              sl |-> None, tp |-> None]
           stop   == ExitOrder(0, "STOP_MARKET", sl)
           target == ExitOrder(stops, "TAKE_PROFIT_MARKET", tp)
           g == Protection(b, symbol, side, entry, qty, sl, tp)
           num == b.nextOrderID
<1>1. row \in Nat /\ num \in Nat /\ row # 0
  BY DEF BookType, Tables
<1>2. /\ g.new = {ExitOrder(0, "STOP_MARKET", sl) : i \in 1 .. stops}
                   \cup {ExitOrder(stops, "TAKE_PROFIT_MARKET", tp) : i \in 1 .. targets}
      /\ g.count = stops + targets
      /\ g.slId = (IF stops = 1 THEN row ELSE None)
      /\ g.tpId = (IF targets = 1 THEN row + stops ELSE None)
  BY DEF Protection
<1>3. /\ stop.id = row /\ target.id = row + stops
      /\ stop.key = num /\ target.key = num + stops
      /\ stop.symbol = symbol /\ target.symbol = symbol
      /\ stop.type = "STOP_MARKET" /\ target.type = "TAKE_PROFIT_MARKET"
      /\ stop.price = sl
  BY <1>1
<1>4. /\ \A o \in g.new : (o = stop /\ stops = 1) \/ (o = target /\ targets = 1)
      /\ stops = 1 => stop \in g.new
      /\ stops \in {0, 1} /\ targets \in {0, 1}
      /\ sl # None => stops = 1
  <2> HIDE DEF ExitOrder, wanted, g
  <2> QED BY <1>2
<1>5. g.new \in SUBSET Order
  BY ProtectionType
<1> HIDE DEF stop, target, g, row, stops, targets, num
<1>6. \A o \in g.new : o.id >= row /\ o.id < row + g.count
                       /\ o.key >= num /\ o.key < num + g.count
  BY <1>1, <1>2, <1>3, <1>4
<1>7. /\ \A o, r \in g.new : o.id = r.id => o = r
      /\ \A o, r \in g.new : o.key = r.key => o = r
  BY <1>1, <1>3, <1>4
<1>8. q.slId = g.slId /\ (g.tpId # None => q.tpId = g.tpId)
  BY DEF g
<1>9. \A o \in g.new :
        /\ o.symbol = q.symbol /\ o.type # "LIMIT" /\ o.id \in {q.slId, q.tpId}
        /\ o.type = "STOP_MARKET" => o.id = q.slId /\ o.price = q.sl
  <2>1. ASSUME targets = 1 PROVE q.tpId = row + stops
    BY <1>1, <1>2, <1>4, <1>8, <2>1 DEF None
  <2> QED BY <1>2, <1>3, <1>4, <1>8, <2>1
<1>10. q.sl # None => GuardedBy(g.new, q)
  BY <1>2, <1>3, <1>4, <1>8 DEF GuardedBy
<1>11. g.count \in {0, 1, 2}
  BY <1>2, <1>4
<1>12. Protects(b, g.new, g.count, q)
  BY <1>5, <1>6, <1>7, <1>9, <1>10, <1>11 DEF Protects, row, num
<1> QED BY <1>12 DEF g

\* The position q was opened: b became c.
Entered(b, c, q) ==
  \E new, n :
    /\ Protects(b, new, n, q)
    /\ q \in Position /\ q.id = b.db.nextPosRow
    /\ c.positions = {r \in b.positions : r.symbol # q.symbol} \cup {q}
    /\ c.orders = Put(b.orders, new) /\ c.nextOrderID = b.nextOrderID + n
    /\ c.db.orders = b.db.orders \cup new
    /\ c.db.nextOrderRow = b.db.nextOrderRow + n
    /\ c.db.positions = b.db.positions \cup {q}
    /\ c.db.nextPosRow = b.db.nextPosRow + 1
    /\ c.db.account = c.acct
    /\ c.acct.usedMargin = b.acct.usedMargin + Margin(q)

\* From b to c, a position of symbol was opened.
EnteredOn(b, c, symbol, side, entry, sl) ==
  \E q : /\ q.symbol = symbol /\ q.side = side /\ q.entry = entry /\ q.sl = sl
         /\ Entered(b, c, q)

LEMMA OpenedWrites ==
  ASSUME NEW b \in BookType, NEW symbol \in Symbols,
         NEW side \in {"LONG", "SHORT"}, NEW entry \in Nat, NEW qty \in Nat,
         NEW sl \in Nat, NEW tp \in Nat, NEW feeRate \in Nat,
         b.db.nextOrderRow # 0
  PROVE  EnteredOn(b, Opened(b, symbol, side, qty, entry, sl, tp, feeRate),
                   symbol, side, entry, sl)
<1> DEFINE g   == Protection(b, symbol, side, entry, qty, sl, tp)
           p   == [id |-> b.db.nextPosRow, symbol |-> symbol, side |-> side,
                   entry |-> entry, size |-> qty, sl |-> sl, tp |-> tp,
                   slId |-> g.slId, tpId |-> g.tpId]
           fee == entry * qty * feeRate
           a   == [b.acct EXCEPT !.balance = @ - fee, !.usedMargin = @ + Margin(p),
                                 !.entryFees = @ + fee]
           d   == InsertOrders(b.db, g.new, g.count)
           c   == Opened(b, symbol, side, qty, entry, sl, tp, feeRate)
<1>1. g.new \subseteq Order /\ g.count \in {0, 1, 2} /\ g.slId \in Nat /\ g.tpId \in Nat
  BY ProtectionType
<1>2. /\ p.symbol = symbol /\ p.sl = sl /\ p.slId = g.slId /\ p.tpId = g.tpId
      /\ p.id = b.db.nextPosRow /\ p.side = side /\ p.entry = entry
  OBVIOUS
<1>3. p \in Position
  <2> HIDE DEF g
  <2> QED BY <1>1 DEF Position, BookType, Tables
<1>4. /\ c.positions = {q \in b.positions : q.symbol # symbol} \cup {p}
      /\ c.orders = Put(b.orders, g.new)
      /\ c.nextOrderID = b.nextOrderID + g.count
      /\ c.acct = a
      /\ c.db = InsertPosition(d, p, a)
  BY DEF Opened
<1> HIDE DEF p, fee, c
<1>5. Protects(b, g.new, g.count, p)
  BY <1>2, ProtectionProtects
<1> HIDE DEF g
<1>6. b.db \in Tables /\ g.new \in SUBSET Order /\ g.count \in Nat
      /\ b.acct \in Account
  BY <1>1 DEF BookType
<1>7. /\ d \in Tables
      /\ d.orders = b.db.orders \cup g.new /\ d.nextOrderRow = b.db.nextOrderRow + g.count
      /\ d.positions = b.db.positions /\ d.nextPosRow = b.db.nextPosRow
  BY <1>6, InsertOrdersType DEF InsertOrders, Tables
<1>8. a.usedMargin = b.acct.usedMargin + Margin(p)
  BY <1>6 DEF Account
<1> HIDE DEF d, a
<1>9. /\ c.db.orders = d.orders /\ c.db.nextOrderRow = d.nextOrderRow
      /\ c.db.positions = d.positions \cup {p}
      /\ c.db.nextPosRow = d.nextPosRow + 1 /\ c.db.account = a
  BY <1>4, <1>7 DEF InsertPosition, Tables
<1>10. Entered(b, c, p)
  BY <1>2, <1>3, <1>4, <1>5, <1>7, <1>8, <1>9 DEF Entered
<1> QED BY <1>2, <1>10 DEF c, EnteredOn
-----------------------------------------------------------------------------
(* Every handler keeps the rows numbered; without reduce-only orders it     *)
(* also keeps a valid stop at every position, in memory and in the tables.  *)

\* What Rehydrate will accept: it refuses a position without a valid stop.
Stopped(b) ==
  /\ \A p \in b.positions \cup b.db.positions : ~Invalid(p)
  /\ \A o \in b.orders \cup b.db.orders : o.type = "LIMIT" => o.sl # None

\* A book that Rehydrate can read back, if no client reduces.
Vetted(b) == Rows(b.db) /\ ("reduce" \notin ClientOps => Stopped(b))

LEMMA TablesNumbers ==
  ASSUME NEW d \in Tables
  PROVE  /\ d.nextOrderRow \in Nat /\ d.nextPosRow \in Nat
         /\ \A o \in d.orders : o.id \in Nat
         /\ \A p \in d.positions : p.id \in Nat
  BY DEF Tables, Order, Position

\* Fewer rows, numbered from the same or from a higher number on.
LEMMA FewerRows ==
  ASSUME NEW d \in Tables, NEW e, Rows(d),
         e.orders \subseteq d.orders, e.positions \subseteq d.positions,
         e.nextOrderRow \in Nat, e.nextOrderRow >= d.nextOrderRow,
         e.nextPosRow \in Nat, e.nextPosRow >= d.nextPosRow
  PROVE  Rows(e)
<1>1. IsFiniteSet(e.positions)
  BY FS_Subset DEF Rows
<1>2. \A o \in e.orders : o.id < e.nextOrderRow
  BY TablesNumbers DEF Rows
<1>3. \A p \in e.positions : p.id < e.nextPosRow
  BY TablesNumbers DEF Rows
<1>4. e.nextOrderRow # 0
  BY TablesNumbers DEF Rows
<1> QED BY <1>1, <1>2, <1>3, <1>4 DEF Rows

\* Nothing is added but rows that are settled at once.
LEMMA FewerVetted ==
  ASSUME NEW b \in BookType, Vetted(b), NEW c,
         c.positions \subseteq b.positions, c.orders \subseteq b.orders,
         c.db.orders \subseteq b.db.orders,
         c.db.nextOrderRow \in {b.db.nextOrderRow, b.db.nextOrderRow + 1},
         c.db.positions \subseteq b.db.positions, c.db.nextPosRow = b.db.nextPosRow
  PROVE  Vetted(c)
<1>1. b.db \in Tables
  BY DEF BookType
<1>2. Rows(c.db)
  <2>1. /\ c.db.nextOrderRow \in Nat /\ c.db.nextOrderRow >= b.db.nextOrderRow
        /\ c.db.nextPosRow \in Nat /\ c.db.nextPosRow >= b.db.nextPosRow
    BY <1>1, TablesNumbers
  <2> QED BY <1>1, <2>1, FewerRows DEF Vetted
<1>3. Stopped(b) => Stopped(c)
  BY DEF Stopped
<1> QED BY <1>2, <1>3 DEF Vetted

LEMMA ClosedVetted ==
  ASSUME NEW b \in BookType, Vetted(b), NEW p, NEW exit, NEW closing \in BOOLEAN
  PROVE  Vetted(Closed(b, p, exit, closing))
<1> DEFINE c == Closed(b, p, exit, closing)
<1>1. /\ c.positions \subseteq b.positions /\ c.orders \subseteq b.orders
      /\ c.db.orders \subseteq b.db.orders
      /\ c.db.nextOrderRow \in {b.db.nextOrderRow, b.db.nextOrderRow + 1}
      /\ c.db.positions \subseteq b.db.positions
      /\ c.db.nextPosRow = b.db.nextPosRow
  <2>1. ClosedTo(b, p, closing, c)
    BY ClosedWrites
  <2> HIDE DEF c
  <2> QED BY <2>1 DEF ClosedTo
<1> HIDE DEF c
<1>2. Vetted(c)
  BY <1>1, FewerVetted
<1> QED BY <1>2 DEF c

LEMMA EnteredVetted ==
  ASSUME NEW b \in BookType, Vetted(b), NEW c, NEW q, Entered(b, c, q),
         "reduce" \notin ClientOps => ~Invalid(q)
  PROVE  Vetted(c)
<1>1. PICK new, n :
        /\ Protects(b, new, n, q)
        /\ q \in Position /\ q.id = b.db.nextPosRow
        /\ c.positions = {r \in b.positions : r.symbol # q.symbol} \cup {q}
        /\ c.orders = Put(b.orders, new)
        /\ c.db.orders = b.db.orders \cup new
        /\ c.db.nextOrderRow = b.db.nextOrderRow + n
        /\ c.db.positions = b.db.positions \cup {q}
        /\ c.db.nextPosRow = b.db.nextPosRow + 1
  BY DEF Entered
<1>2. b.db \in Tables /\ Rows(b.db)
  BY DEF BookType, Vetted
<1>3. /\ n \in {0, 1, 2} /\ new \in SUBSET Order
      /\ \A o \in new : /\ o.id < b.db.nextOrderRow + n /\ o.type # "LIMIT"
  BY <1>1 DEF Protects
<1>4. Rows(c.db)
  <2>1. IsFiniteSet(c.db.positions)
    BY <1>1, <1>2, FS_AddElement DEF Rows
  <2>2. \A o \in c.db.orders : o.id < c.db.nextOrderRow
    BY <1>1, <1>2, <1>3, TablesNumbers DEF Rows
  <2>3. \A p \in c.db.positions : p.id < c.db.nextPosRow
    BY <1>1, <1>2, TablesNumbers DEF Rows
  <2>4. \A p, r \in c.db.positions : p.id = r.id => p = r
    BY <1>1, <1>2, TablesNumbers DEF Rows
  <2>5. c.db.nextOrderRow # 0
    BY <1>1, <1>2, <1>3, TablesNumbers DEF Rows
  <2> QED BY <2>1, <2>2, <2>3, <2>4, <2>5 DEF Rows
<1>5. ASSUME Stopped(b), ~Invalid(q) PROVE Stopped(c)
  <2>1. c.orders \subseteq b.orders \cup new
    BY <1>1 DEF Put
  <2> QED BY <1>1, <1>3, <1>5, <2>1 DEF Stopped
<1> QED BY <1>4, <1>5 DEF Vetted

LEMMA OpenedVetted ==
  ASSUME NEW b \in BookType, Vetted(b), NEW symbol \in Symbols,
         NEW side \in {"LONG", "SHORT"}, NEW entry \in Nat, NEW qty \in Nat,
         NEW sl \in Nat, NEW tp \in Nat, NEW feeRate \in Nat,
         "reduce" \notin ClientOps => sl # None /\ OnLossSide(side, sl, entry)
  PROVE  Vetted(Opened(b, symbol, side, qty, entry, sl, tp, feeRate))
<1> DEFINE c == Opened(b, symbol, side, qty, entry, sl, tp, feeRate)
<1>1. b.db.nextOrderRow # 0
  BY DEF Vetted, Rows
<1>2. EnteredOn(b, c, symbol, side, entry, sl)
  BY <1>1, OpenedWrites
<1> HIDE DEF c
<1>3. PICK q : /\ q.side = side /\ q.entry = entry /\ q.sl = sl
               /\ Entered(b, c, q)
  BY <1>2 DEF EnteredOn
<1>4. "reduce" \notin ClientOps => ~Invalid(q)
  BY <1>3 DEF Invalid
<1>5. Vetted(c)
  BY <1>3, <1>4, EnteredVetted
<1> QED BY <1>5 DEF c

\* Orders and rows of orders leave the book.
LEMMA DroppedVetted ==
  ASSUME NEW b \in BookType, Vetted(b), NEW S \in SUBSET b.orders, NEW done
  PROVE  /\ Vetted([b EXCEPT !.orders = S])
         /\ Vetted([b EXCEPT !.orders = S, !.db = Settle(b.db, done)])
<1> DEFINE c == [b EXCEPT !.orders = S]
           e == [b EXCEPT !.orders = S, !.db = Settle(b.db, done)]
           d == Settle(b.db, done)
<1>1. /\ c.positions = b.positions /\ c.orders = S /\ c.db = b.db
      /\ e.positions = b.positions /\ e.orders = S /\ e.db = d
  BY DEF BookType
<1>2. b.db \in Tables
  BY DEF BookType
<1>3. /\ d.orders \subseteq b.db.orders /\ d.positions = b.db.positions
      /\ d.nextPosRow = b.db.nextPosRow /\ d.nextOrderRow = b.db.nextOrderRow
  BY <1>2, SettleKeeps
<1> HIDE DEF c, d, e
<1>4. Vetted(c) /\ Vetted(e)
  BY <1>1, <1>3, FewerVetted
<1> QED BY <1>4 DEF c, d, e

LEMMA TriggeredVetted ==
  ASSUME NEW b \in BookType, Vetted(b), NEW o, NEW p \in Position, NEW x \in Int
  PROVE  Vetted(Triggered(b, o, p, x))
<1> DEFINE c == Closed(b, p, x, TRUE)
<1>1. c \in BookType /\ Vetted(c)
  BY ClosedType, ClosedVetted
<1>2. Triggered(b, o, p, x) =
        [c EXCEPT !.orders = Without(c.orders, o), !.db = Settle(c.db, {o})]
  BY DEF Triggered
<1> HIDE DEF c
<1> DEFINE S == Without(c.orders, o)
<1>3. S \in SUBSET c.orders
  BY DEF Without
<1> HIDE DEF S
<1>4. Vetted([c EXCEPT !.orders = S, !.db = Settle(c.db, {o})])
  BY <1>1, <1>3, DroppedVetted
<1> QED BY <1>2, <1>4 DEF S

LEMMA LimitFilledVetted ==
  ASSUME NEW b \in BookType, Vetted(b), NEW o \in b.orders, o.type = "LIMIT",
         OnLossSide(PositionSide(o.side), o.sl, o.price)
  PROVE  Vetted(LimitFilled(b, o))
<1> DEFINE e == [b EXCEPT !.orders = b.orders, !.db = Settle(b.db, {o})]
           c == Opened(e, o.symbol, PositionSide(o.side), o.qty, o.price, o.sl,
                       o.tp, MakerFee)
           S == Without(c.orders, o)
<1>1. [b EXCEPT !.db = Settle(@, {o})] = e
  BY DEF BookType
<1>2. e \in BookType /\ Vetted(e)
  <2>1. Settle(b.db, {o}) \in Tables
    BY SettleType DEF BookType
  <2>2. e \in BookType
    BY <2>1 DEF BookType
  <2>3. b.orders \in SUBSET b.orders
    OBVIOUS
  <2> QED BY <2>2, <2>3, DroppedVetted
<1>3. LimitFilled(b, o) = [c EXCEPT !.orders = S]
  BY <1>1 DEF LimitFilled
<1> HIDE DEF e
<1>4. /\ o.symbol \in Symbols /\ PositionSide(o.side) \in {"LONG", "SHORT"}
      /\ o.qty \in Nat /\ o.price \in Nat /\ o.sl \in Nat /\ o.tp \in Nat
      /\ MakerFee \in Nat
  BY BrokerAssumption DEF BookType, Order, PositionSide
<1>5. "reduce" \notin ClientOps =>
        o.sl # None /\ OnLossSide(PositionSide(o.side), o.sl, o.price)
  BY DEF Vetted, Stopped
<1>6. c \in BookType /\ Vetted(c)
  BY <1>2, <1>4, <1>5, OpenedType, OpenedVetted
<1> HIDE DEF c
<1>7. S \in SUBSET c.orders
  BY DEF Without
<1> HIDE DEF S
<1>8. Vetted([c EXCEPT !.orders = S])
  BY <1>6, <1>7, DroppedVetted
<1> QED BY <1>3, <1>8

\* An order is numbered, or a filled one written.
LEMMA CountedVetted ==
  ASSUME NEW b \in BookType, Vetted(b)
  PROVE  Vetted(Numbered(b)) /\ Vetted(Filled(b))
<1>1. /\ Numbered(b).positions = b.positions /\ Numbered(b).orders = b.orders
      /\ Numbered(b).db = b.db
  BY DEF Numbered, BookType
<1>2. /\ Filled(b).positions = b.positions /\ Filled(b).orders = b.orders
      /\ Filled(b).db.orders = b.db.orders /\ Filled(b).db.positions = b.db.positions
      /\ Filled(b).db.nextOrderRow = b.db.nextOrderRow + 1
      /\ Filled(b).db.nextPosRow = b.db.nextPosRow
  BY DEF Filled, InsertSettled, BookType, Tables
<1>3. Vetted(Numbered(b))
  BY <1>1, FewerVetted
<1>4. Vetted(Filled(b))
  BY <1>2, FewerVetted
<1> QED BY <1>3, <1>4

\* The row of q takes the place of the one with its number.
LEMMA UpdatedRows ==
  ASSUME NEW d \in Tables, NEW q \in Position, Rows(d)
  PROVE  LET e == UpdatePosition(d, q)
         IN  /\ Rows(e) /\ e.positions \subseteq d.positions \cup {q}
             /\ e.orders = d.orders /\ e.nextOrderRow = d.nextOrderRow
             /\ e.nextPosRow = d.nextPosRow /\ e.account = d.account
<1> DEFINE e == UpdatePosition(d, q)
<1>1. /\ e.positions = {IF r.id = q.id THEN q ELSE r : r \in d.positions}
      /\ e.orders = d.orders /\ e.nextOrderRow = d.nextOrderRow
      /\ e.nextPosRow = d.nextPosRow /\ e.account = d.account
  BY DEF UpdatePosition, Tables
<1> HIDE DEF e
<1>2. e.positions \subseteq d.positions \cup {q}
  BY <1>1
<1>3. IsFiniteSet(e.positions)
  <2>1. IsFiniteSet(d.positions \cup {q})
    BY FS_AddElement DEF Rows
  <2> QED BY <1>2, <2>1, FS_Subset
<1>4. \A p \in e.positions : p.id < e.nextPosRow
  BY <1>1 DEF Rows
<1>5. \A p, r \in e.positions : p.id = r.id => p = r
  BY <1>1 DEF Rows
<1>6. Rows(e)
  BY <1>1, <1>3, <1>4, <1>5 DEF Rows
<1> QED BY <1>1, <1>2, <1>6 DEF e

\* A position is relinked, in memory and in its row.
LEMMA RelinkedVetted ==
  ASSUME NEW b \in BookType, Vetted(b), NEW p, NEW q \in Position,
         "reduce" \notin ClientOps => ~Invalid(q),
         NEW c, c.positions = (b.positions \ {p}) \cup {q}, c.orders = b.orders,
         c.db = UpdatePosition(b.db, q)
  PROVE  Vetted(c)
<1>1. b.db \in Tables /\ Rows(b.db)
  BY DEF BookType, Vetted
<1>2. Rows(c.db) /\ c.db.positions \subseteq b.db.positions \cup {q}
      /\ c.db.orders = b.db.orders
  BY <1>1, UpdatedRows
<1>3. ASSUME Stopped(b), ~Invalid(q) PROVE Stopped(c)
  BY <1>2, <1>3 DEF Stopped
<1> QED BY <1>2, <1>3 DEF Vetted

-----------------------------------------------------------------------------
(* The steps of the broker. *)

VetInv == Vetted(Book)

LEMMA StepVetted ==
  ASSUME NEW c, Becomes(c), Vetted(c)
  PROVE  VetInv'
  BY DEF VetInv, Becomes, Vetted, Stopped, Book

LEMMA QuietVetted ==
  ASSUME VetInv, orders' \subseteq orders, UNCHANGED <<positions, db>>
  PROVE  VetInv'
  BY DEF VetInv, Vetted, Stopped, Book

LEMMA EntryVetted ==
  ASSUME TypeOK, VetInv, Entry
  PROVE  VetInv'
<1>1. PICK s \in Symbols, side \in {"BUY", "SELL"} :
        \/ \E qty \in Reductions : RejectReduce(s, side, qty) \/ ReduceOnly(s, side, qty)
        \/ \E qty \in Qtys, sl \in Prices :
             \/ RejectMarket(s, side, qty, sl)
             \/ \E tp \in Targets \cup {None} :
                  \/ PlaceMarket(s, side, qty, sl, tp)
                  \/ \E x \in Prices : PlaceLimit(s, side, qty, x, sl, tp)
  BY DEF Entry
<1> DEFINE b == Numbered(Book)
           fill == MarketFill(s, side)
           posSide == PositionSide(side)
<1>2. /\ b \in BookType /\ Vetted(b)
      /\ b.positions = positions /\ b.orders = orders /\ b.db = db
  BY BookTyped, NumberedType, CountedVetted DEF VetInv, Numbered, Book
<1>3. posSide \in {"LONG", "SHORT"} /\ TakerFee \in Nat /\ None \in Nat
  BY BrokerAssumption DEF PositionSide, None
<1>4. ASSUME NEW c \in BookType, Vetted(c)
      PROVE  Filled(c) \in BookType /\ Vetted(Filled(c))
  BY <1>4, FilledType, CountedVetted
<1>5. ASSUME NEW qty \in Reductions, RejectReduce(s, side, qty)
      PROVE  VetInv'
  BY <1>2, <1>5, StepVetted DEF RejectReduce
<1>6. ASSUME NEW qty \in Qtys, NEW sl \in Prices, RejectMarket(s, side, qty, sl)
      PROVE  VetInv'
  BY <1>2, <1>6, StepVetted DEF RejectMarket
<1>7. ASSUME NEW qty \in Qtys, NEW sl \in Prices, NEW tp \in Targets \cup {None},
             NEW x \in Prices, PlaceLimit(s, side, qty, x, sl, tp)
      PROVE  VetInv'
  <2> DEFINE o == [key |-> nextOrderID, id |-> db.nextOrderRow, symbol |-> s,
                   side |-> side, type |-> "LIMIT", price |-> x, qty |-> qty,
                   sl |-> sl, tp |-> tp]
  <2>1. /\ orders' \subseteq orders \cup {o} /\ positions' = positions
        /\ db' = InsertOrders(db, {o}, 1)
    BY <1>7 DEF PlaceLimit, Becomes, Numbered, Book, Put
  <2>2. o.id = db.nextOrderRow /\ o.sl # None
    BY BrokerAssumption DEF None
  <2> HIDE DEF o
  <2>3. /\ db'.orders = db.orders \cup {o} /\ db'.positions = db.positions
        /\ db'.nextOrderRow = db.nextOrderRow + 1 /\ db'.nextPosRow = db.nextPosRow
        /\ db.nextOrderRow \in Nat /\ \A q \in db.orders : q.id \in Nat
    BY <2>1 DEF InsertOrders, TypeOK, Tables, Order
  <2>4. Rows(db')
    BY <2>2, <2>3 DEF VetInv, Vetted, Book, Rows
  <2> QED BY <2>1, <2>2, <2>3, <2>4 DEF VetInv, Vetted, Book, Stopped
<1>8. ASSUME NEW qty \in Reductions, ReduceOnly(s, side, qty)
      PROVE  VetInv'
  <2>1. fill \in Nat /\ qty \in Nat /\ "reduce" \in ClientOps
    BY <1>8, MarketFillType, BrokerAssumption DEF ReduceOnly, ReduceRefused, Calls
  <2>2. \/ \E p \in positions :
             \/ Becomes(Closed(b, p, fill, FALSE))
             \/ qty < p.size /\ Becomes(Reduced(b, p, qty, fill))
        \/ Becomes(Opened(Filled(b), s, posSide, qty, fill, None, None, TakerFee))
    BY <1>8 DEF ReduceOnly
  <2> HIDE DEF b, fill, posSide
  <2>3. ASSUME NEW p \in positions
        PROVE  /\ Vetted(Closed(b, p, fill, FALSE))
               /\ Vetted(Reduced(b, p, qty, fill))
    <3>1. Vetted(Closed(b, p, fill, FALSE))
      BY <1>2, ClosedVetted
    <3>2. Reduced(b, p, qty, fill).db = b.db
      BY <1>2 DEF Reduced, BookType
    <3> QED BY <1>2, <2>1, <3>1, <3>2 DEF Vetted
  <2>4. Vetted(Opened(Filled(b), s, posSide, qty, fill, None, None, TakerFee))
    <3>1. Filled(b) \in BookType /\ Vetted(Filled(b))
      BY <1>2, <1>4
    <3> QED BY <1>3, <2>1, <3>1, OpenedVetted
  <2> QED BY <2>2, <2>3, <2>4, StepVetted
<1>9. ASSUME NEW qty \in Qtys, NEW sl \in Prices, NEW tp \in Targets \cup {None},
             PlaceMarket(s, side, qty, sl, tp)
      PROVE  VetInv'
  <2> DEFINE Enter(c) == Opened(Filled(c), s, posSide, qty, fill, sl, tp, TakerFee)
  <2>1. /\ fill \in Nat /\ fill \in Int /\ qty \in Nat /\ sl \in Nat /\ tp \in Nat
        /\ sl # None /\ OnLossSide(posSide, sl, fill)
    <3>1. prices[s] # None /\ OnLossSide(posSide, sl, fill)
      BY <1>9 DEF PlaceMarket, MarketRefused
    <3>2. sl # None
      BY BrokerAssumption DEF None
    <3> HIDE DEF posSide
    <3> QED BY <3>1, <3>2, MarketFillType, PricesType, BrokerAssumption
  <2>2. \/ Becomes(Enter(b))
        \/ \E p \in positions : Becomes(Enter(Closed(b, p, fill, FALSE)))
    BY <1>9 DEF PlaceMarket
  <2> HIDE DEF b, fill, posSide
  <2>3. ASSUME NEW c \in BookType, Vetted(c)
        PROVE  Vetted(Enter(c))
    <3>1. Filled(c) \in BookType /\ Vetted(Filled(c))
      BY <1>4, <2>3
    <3> QED BY <1>3, <2>1, <3>1, OpenedVetted
  <2> HIDE DEF Enter
  <2>4. ASSUME NEW p \in positions
        PROVE  Vetted(Enter(Closed(b, p, fill, FALSE)))
    <3>1. p \in Position
      BY DEF TypeOK
    <3>2. Closed(b, p, fill, FALSE) \in BookType
      BY <1>2, <2>1, <3>1, ClosedType
    <3>3. Vetted(Closed(b, p, fill, FALSE))
      BY <1>2, ClosedVetted
    <3> QED BY <2>3, <3>2, <3>3
  <2> QED BY <1>2, <2>2, <2>3, <2>4, StepVetted
<1> HIDE DEF b, fill, posSide
<1> QED BY <1>1, <1>5, <1>6, <1>7, <1>8, <1>9

LEMMA ExitVetted ==
  ASSUME TypeOK, VetInv, Exit
  PROVE  VetInv'
<1>1. /\ Book \in BookType /\ Vetted(Book)
      /\ Book.orders = orders /\ Book.db = db
  BY BookTyped DEF Book, VetInv
<1>2. ASSUME NEW o \in orders, CancelOrder(o)
      PROVE  VetInv'
  <2> DEFINE S == Without(orders, o)
  <2>1. S \in SUBSET orders
    BY DEF Without
  <2>2. Becomes([Book EXCEPT !.orders = S, !.db = Settle(Book.db, {o})])
    BY <1>1, <1>2 DEF CancelOrder
  <2> HIDE DEF S
  <2> QED BY <1>1, <2>1, <2>2, DroppedVetted, StepVetted
<1>3. ASSUME NEW p \in positions, NEW x, Becomes(Closed(Book, p, x, FALSE))
      PROVE  VetInv'
  BY <1>1, <1>3, ClosedVetted, StepVetted
<1>4. CASE EmergencyCloseAll
  BY <1>4, QuietVetted DEF EmergencyCloseAll, DropAllOrders
<1> QED BY <1>2, <1>3, <1>4 DEF Exit, ClosePosition, EmergencyClose

LEMMA TickVetted ==
  ASSUME TypeOK, VetInv, Tick
  PROVE  VetInv'
<1>1. /\ Book \in BookType /\ Vetted(Book)
      /\ Book.orders = orders /\ Book.db = db /\ Book.positions = positions
  BY BookTyped DEF Book, VetInv
<1>2. ASSUME NEW o \in orders, NEW p \in positions, NEW x \in Int
      PROVE  Triggered(Book, o, p, x) \in BookType /\ Vetted(Triggered(Book, o, p, x))
  <2>1. p \in Position
    BY DEF TypeOK
  <2> QED BY <1>1, <2>1, TriggeredType, TriggeredVetted
<1>3. ASSUME NEW s \in Symbols, NEW x \in Prices, UpdatePrice(s, x)
      PROVE  VetInv'
  <2>1. x \in Int
    BY BrokerAssumption
  <2> QED BY <1>1, <1>2, <1>3, <2>1, StepVetted DEF UpdatePrice
<1>4. ASSUME NEW o \in orders, FillLimit(o)
      PROVE  VetInv'
  <2>1. CASE LimitRefused(o)
    <3> DEFINE S == Without(orders, o)
    <3>1. S \in SUBSET orders
      BY DEF Without
    <3>2. Becomes([Book EXCEPT !.orders = S, !.db = Settle(Book.db, {o})])
      BY <1>1, <1>4, <2>1 DEF FillLimit
    <3> HIDE DEF S
    <3> QED BY <1>1, <3>1, <3>2, DroppedVetted, StepVetted
  <2>2. CASE ~LimitRefused(o)
    <3>1. /\ o.type = "LIMIT" /\ Becomes(LimitFilled(Book, o))
          /\ OnLossSide(PositionSide(o.side), o.sl, o.price)
      BY <1>4, <2>2 DEF FillLimit, Reached, LimitRefused
    <3> QED BY <1>1, <3>1, LimitFilledVetted, StepVetted
  <2> QED BY <2>1, <2>2
<1>5. CASE FinishCandle
  <2> DEFINE stops == Crossed("STOP_MARKET")
             hit == IF stops # {} THEN stops ELSE Crossed("TAKE_PROFIT_MARKET")
  <2>1. hit \subseteq orders
    BY DEF Crossed
  <2>2. \/ Becomes([Book EXCEPT !.orders = @ \ hit])
        \/ \E o \in hit, p \in positions :
             Becomes([Triggered(Book, o, p, o.price) EXCEPT !.orders = @ \ hit])
    BY <1>5 DEF FinishCandle
  <2> HIDE DEF stops, hit
  <2>3. CASE Becomes([Book EXCEPT !.orders = @ \ hit])
    BY <2>3, QuietVetted DEF Becomes, Book
  <2>4. ASSUME NEW o \in hit, NEW p \in positions,
               Becomes([Triggered(Book, o, p, o.price) EXCEPT !.orders = @ \ hit])
        PROVE  VetInv'
    <3> DEFINE c == Triggered(Book, o, p, o.price)
               S == c.orders \ hit
    <3>1. o \in orders /\ o.price \in Int
      BY <2>1 DEF TypeOK, Order
    <3>2. c \in BookType /\ Vetted(c)
      BY <1>2, <3>1
    <3>3. Becomes([c EXCEPT !.orders = S])
      BY <2>4
    <3> HIDE DEF c
    <3>4. S \in SUBSET c.orders
      OBVIOUS
    <3> HIDE DEF S
    <3> QED BY <3>2, <3>3, <3>4, DroppedVetted, StepVetted
  <2> QED BY <2>2, <2>3, <2>4
<1>6. ASSUME UNCHANGED <<positions, orders, db>>
      PROVE  VetInv'
  BY <1>6, QuietVetted
<1> QED BY <1>3, <1>4, <1>5, <1>6 DEF Tick, SetSymbolPrice, ProcessCandle

LEMMA ProtectVetted ==
  ASSUME TypeOK, VetInv, StopInv, Protect
  PROVE  VetInv'
<1>1. /\ Book \in BookType /\ Vetted(Book)
      /\ Book.orders = orders /\ Book.db = db /\ Book.positions = positions
  BY BookTyped DEF Book, VetInv
<1>2. ASSUME NEW p \in positions, NEW sl \in Prices, NEW tp \in Targets \cup {None},
             BeginProtect(p, sl, tp)
      PROVE  VetInv'
  <2> DEFINE R == Siblings(Book, p)
             S == orders \ R
  <2>1. Becomes([Book EXCEPT !.orders = S, !.db = Settle(Book.db, R)])
    BY <1>1, <1>2 DEF BeginProtect
  <2>2. S \in SUBSET orders
    OBVIOUS
  <2> HIDE DEF S, R
  <2> QED BY <1>1, <2>1, <2>2, DroppedVetted, StepVetted
<1>3. ASSUME NEW type, NEW x, type # "LIMIT", PlaceExit(type, x)
      PROVE  VetInv'
  <2> DEFINE p == caller.pos
             o == [key |-> nextOrderID, id |-> nextOrderID, symbol |-> p.symbol,
                   side |-> IF p.side = "LONG" THEN "SELL" ELSE "BUY", type |-> type,
                   price |-> x, qty |-> p.size, sl |-> None, tp |-> None]
  <2>1. /\ orders' \subseteq orders \cup {o} /\ positions' = positions /\ db' = db
    BY <1>3 DEF PlaceExit, Becomes, Numbered, Book, Put
  <2>2. o.type # "LIMIT"
    BY <1>3
  <2> HIDE DEF o
  <2> QED BY <2>1, <2>2 DEF VetInv, Vetted, Stopped, Book
<1>4. CASE PlaceStop \/ PlaceTarget
  BY <1>3, <1>4 DEF PlaceStop, PlaceTarget
<1>5. CASE Link
  <2>1. ASSUME NEW p \in positions, StillHeld(p),
               Becomes([Book EXCEPT !.positions = (@ \ {p}) \cup {Relinked(p)},
                                    !.db = UpdatePosition(@, Relinked(p))])
        PROVE  VetInv'
    <3> DEFINE q == Relinked(p)
               c == [Book EXCEPT !.positions = (@ \ {p}) \cup {q},
                                 !.db = UpdatePosition(@, q)]
    <3>1. p \in Position /\ caller \in Call /\ caller # Idle
      BY <1>5 DEF Link, TypeOK
    <3>2. /\ caller.slId \in Nat /\ caller.tpId \in Nat
          /\ caller.sl \in Nat /\ caller.tp \in Nat /\ caller.sl # None
      BY <3>1, PricesType, BrokerAssumption DEF Call, None
    <3>3. q \in Position
      <4>1. [p EXCEPT !.slId = caller.slId, !.sl = caller.sl] \in Position
        BY <3>1, <3>2 DEF Position
      <4>2. [p EXCEPT !.slId = caller.slId, !.sl = caller.sl,
                      !.tpId = caller.tpId, !.tp = caller.tp] \in Position
        BY <3>1, <3>2 DEF Position
      <4> QED BY <4>1, <4>2 DEF Relinked
    <3>4. q.side = p.side /\ q.entry = p.entry /\ q.sl = caller.sl
      BY <3>1 DEF Relinked, Position
    <3>5. Becomes(c)
      BY <2>1
    <3> HIDE DEF q
    <3>6. ~Invalid(q)
      BY <2>1, <3>1, <3>2, <3>4 DEF StopInv, Agrees, StillHeld, Invalid
    <3>7. /\ c.positions = (Book.positions \ {p}) \cup {q} /\ c.orders = Book.orders
          /\ c.db = UpdatePosition(Book.db, q)
      BY DEF Book
    <3> HIDE DEF c
    <3>8. Vetted(c)
      BY <1>1, <3>3, <3>6, <3>7, RelinkedVetted
    <3> QED BY <3>5, <3>8, StepVetted
  <2>2. CASE Becomes(Book)
    BY <1>1, <2>2, StepVetted
  <2> QED BY <1>5, <2>1, <2>2 DEF Link
<1> QED BY <1>2, <1>4, <1>5 DEF Protect

LEMMA NextVetted ==
  ASSUME TypeOK, VetInv, StopInv, [Next]_vars
  PROVE  VetInv'
<1>1. ASSUME UNCHANGED <<positions, orders, db>>
      PROVE  VetInv'
  BY <1>1, QuietVetted
<1>2. CASE SetHalted \/ ResetDailyLoss \/ UNCHANGED vars
  BY <1>1, <1>2 DEF SetHalted, ResetDailyLoss, vars
<1> QED BY <1>2, EntryVetted, ExitVetted, TickVetted, ProtectVetted DEF Next

-----------------------------------------------------------------------------
(* What a start reads, and what it makes of it.                             *)

\* Tables that Rehydrate can read back, if no client reduces.
VettedTables(d) ==
  /\ Rows(d)
  /\ "reduce" \notin ClientOps =>
       /\ \A p \in d.positions : ~Invalid(p)
       /\ \A o \in d.orders : o.type = "LIMIT" => o.sl # None

\* A set of numbers below n has a greatest one.
LEMMA MaxNat ==
  ASSUME NEW S \in SUBSET Nat, S # {}, NEW n \in Nat, \A x \in S : x < n
  PROVE  Max(S) \in S /\ \A x \in S : Max(S) >= x
<1> DEFINE T == {k \in Nat : \A x \in S : x <= k}
<1>1. n \in T
  OBVIOUS
<1>2. PICK k \in T : \A m \in T : k <= m
  <2>1. T \in SUBSET Nat /\ T # {}
    BY <1>1
  <2> HIDE DEF T
  <2> QED BY <2>1, LeastNumber
<1>3. k \in Nat /\ \A x \in S : x <= k
  OBVIOUS
<1>4. k \in S
  <2> SUFFICES ASSUME k \notin S PROVE FALSE
    OBVIOUS
  <2>1. \A x \in S : x < k
    BY <1>3
  <2>2. PICK x \in S : TRUE
    OBVIOUS
  <2>3. k - 1 \in Nat /\ \A y \in S : y <= k - 1
    BY <1>3, <2>1, <2>2
  <2>4. k - 1 \in T
    BY <2>3
  <2> HIDE DEF T
  <2> QED BY <1>2, <1>3, <2>4
<1>5. \E x \in S : \A y \in S : x >= y
  BY <1>3, <1>4
<1> QED BY <1>5 DEF Max

\* The counter Rehydrate rebuilds is past every row.
LEMMA CounterPast ==
  ASSUME NEW d \in Tables, Rows(d)
  PROVE  LET m == Max({0} \cup {o.id : o \in d.orders})
         IN  m \in Nat /\ \A o \in d.orders : o.id <= m
<1> DEFINE S == {0} \cup {o.id : o \in d.orders}
<1>1. /\ S \in SUBSET Nat /\ S # {} /\ d.nextOrderRow \in Nat
      /\ \A x \in S : x < d.nextOrderRow
  BY TablesNumbers DEF Rows
<1>2. \A o \in d.orders : o.id \in S
  OBVIOUS
<1> HIDE DEF S
<1>3. Max(S) \in S /\ \A x \in S : Max(S) >= x
  BY <1>1, MaxNat
<1>4. Max(S) \in Nat /\ \A o \in d.orders : o.id <= Max(S)
  BY <1>1, <1>2, <1>3
<1> QED BY <1>4 DEF S

\* The reserve Rehydrate adds up is a number.
LEMMA ReserveLoaded ==
  ASSUME NEW d \in Tables, Rows(d)
  PROVE  /\ MapThenSumSet(Margin, d.positions) = Reserved(d.positions)
         /\ Reserved(d.positions) \in Nat
<1>1. d.positions \in SUBSET Position /\ IsFiniteSet(d.positions)
  BY DEF Tables, Rows
<1> QED BY <1>1, ReservedAdds DEF Reserved

\* What a crash between two writes leaves, of an entry, an exit or a repair.
LEMMA PartlyWritten ==
  ASSUME NEW old \in Tables, NEW new \in Tables, NEW d \in SomeWrites(old, new)
  PROVE  /\ d \in Tables
         /\ d.account = old.account
         /\ \/ /\ d.orders \subseteq old.orders /\ d.positions = old.positions
               /\ old.orders \ d.orders \subseteq old.orders \ new.orders
               /\ d.nextOrderRow = old.nextOrderRow /\ d.nextPosRow = old.nextPosRow
            \/ /\ d.nextOrderRow \in old.nextOrderRow .. new.nextOrderRow
               /\ d.orders = {r \in new.orders : r.id < d.nextOrderRow}
               /\ d.positions = old.positions /\ d.nextPosRow = old.nextPosRow
            \/ /\ d.orders = new.orders /\ d.positions = new.positions
               /\ d.nextOrderRow = new.nextOrderRow /\ d.nextPosRow = new.nextPosRow
<1> DEFINE gone == old.orders \ new.orders
<1>1. \/ \E some \in SUBSET gone : d = [old EXCEPT !.orders = @ \ some]
      \/ \E n \in old.nextOrderRow .. new.nextOrderRow :
           d = [old EXCEPT !.orders = {r \in new.orders : r.id < n}, !.nextOrderRow = n]
      \/ d = [new EXCEPT !.account = old.account]
  BY DEF SomeWrites
<1>2. CASE \E some \in SUBSET gone : d = [old EXCEPT !.orders = @ \ some]
  <2>1. PICK some \in SUBSET gone : d = [old EXCEPT !.orders = @ \ some]
    BY <1>2
  <2>2. /\ d.orders = old.orders \ some /\ d.positions = old.positions
        /\ d.nextOrderRow = old.nextOrderRow /\ d.nextPosRow = old.nextPosRow
        /\ d.account = old.account
    BY <2>1 DEF Tables
  <2>3. d \in Tables
    BY <2>1 DEF Tables
  <2> QED BY <2>1, <2>2, <2>3
<1>3. CASE \E n \in old.nextOrderRow .. new.nextOrderRow :
           d = [old EXCEPT !.orders = {r \in new.orders : r.id < n}, !.nextOrderRow = n]
  <2>1. PICK n \in old.nextOrderRow .. new.nextOrderRow :
           d = [old EXCEPT !.orders = {r \in new.orders : r.id < n}, !.nextOrderRow = n]
    BY <1>3
  <2>2. n \in Nat
    BY TablesNumbers
  <2> DEFINE S == {r \in new.orders : r.id < n}
  <2>3. S \in SUBSET Order
    BY DEF Tables
  <2>4. d = [old EXCEPT !.orders = S, !.nextOrderRow = n]
    BY <2>1
  <2> HIDE DEF S
  <2>5. d \in Tables
    BY <2>2, <2>3, <2>4 DEF Tables
  <2>6. /\ d.orders = S /\ d.positions = old.positions
        /\ d.nextOrderRow = n /\ d.nextPosRow = old.nextPosRow
        /\ d.account = old.account
    BY <2>4 DEF Tables
  <2> QED BY <2>5, <2>6 DEF S
<1>4. CASE d = [new EXCEPT !.account = old.account]
  BY <1>4 DEF Tables
<1> QED BY <1>1, <1>2, <1>3, <1>4

LEMMA PartlyVetted ==
  ASSUME NEW old \in Tables, NEW new \in Tables, NEW d \in SomeWrites(old, new),
         VettedTables(old), VettedTables(new)
  PROVE  VettedTables(d)
<1>1. /\ d \in Tables
      /\ \/ /\ d.orders \subseteq old.orders /\ d.positions = old.positions
            /\ d.nextOrderRow = old.nextOrderRow /\ d.nextPosRow = old.nextPosRow
         \/ /\ d.nextOrderRow \in old.nextOrderRow .. new.nextOrderRow
            /\ d.orders = {r \in new.orders : r.id < d.nextOrderRow}
            /\ d.positions = old.positions /\ d.nextPosRow = old.nextPosRow
         \/ /\ d.orders = new.orders /\ d.positions = new.positions
            /\ d.nextOrderRow = new.nextOrderRow /\ d.nextPosRow = new.nextPosRow
  BY PartlyWritten
<1>2. /\ d.orders \subseteq old.orders \/ d.orders \subseteq new.orders
      /\ d.positions = old.positions \/ d.positions = new.positions
  BY <1>1
<1>3. Rows(d)
  BY <1>1, TablesNumbers DEF VettedTables, Rows
<1> QED BY <1>2, <1>3 DEF VettedTables

\* The tables between the exit and the entry of a replacement.
LEMMA BetweenWrites ==
  ASSUME NEW old \in Tables, NEW new \in Tables, Replaces(old, new)
  PROVE  LET mid == Between(old, new)
         IN  /\ mid \in Tables
             /\ mid.orders = old.orders \cap new.orders
             /\ mid.positions = old.positions \ Removed(old, new)
             /\ mid.nextOrderRow = old.nextOrderRow + 1
             /\ mid.nextPosRow = old.nextPosRow
<1> DEFINE p == CHOOSE p \in Added(old, new) : TRUE
           a == BeforeEntry(new.account, p)
           mid == Between(old, new)
<1>1. p \in Position
  BY DEF Replaces, Added, Tables
<1>2. /\ new.account \in Account /\ p.entry \in Nat /\ p.size \in Nat
      /\ TakerFee \in Nat
  BY <1>1, BrokerAssumption DEF Tables, Position
<1> HIDE DEF p
<1>3. a \in Account
  <2>1. p.entry * p.size \in Int /\ p.entry * p.size * TakerFee \in Int
    BY <1>2
  <2> DEFINE n == new.account
             fee == p.entry * p.size * TakerFee
             margin == p.entry * p.size
  <2>2. a = [n EXCEPT !.balance = @ + fee, !.usedMargin = @ - margin,
                      !.entryFees = @ - fee]
    BY DEF BeforeEntry, Margin
  <2>3. fee \in Int /\ margin \in Int /\ n \in Account
    BY <1>2, <2>1
  <2> HIDE DEF fee, margin, a, n
  <2>4. /\ n.balance + fee \in Int /\ n.usedMargin - margin \in Int
        /\ n.entryFees - fee \in Int
    BY <2>3 DEF Account
  <2> QED BY <2>2, <2>3, <2>4 DEF Account
<1> HIDE DEF a
<1>4. mid = [orders |-> old.orders \cap new.orders, nextOrderRow |-> old.nextOrderRow + 1,
             positions |-> old.positions \ Removed(old, new),
             nextPosRow |-> old.nextPosRow, account |-> a]
  BY DEF Between, a, p
<1>5. mid \in Tables
  <2>1. /\ old.orders \cap new.orders \in SUBSET Order
        /\ old.positions \ Removed(old, new) \in SUBSET Position
        /\ old.nextOrderRow + 1 \in Nat /\ old.nextPosRow \in Nat
    BY DEF Tables
  <2> QED BY <1>3, <1>4, <2>1 DEF Tables
<1> QED BY <1>4, <1>5

\* The tables a torn handler leaves.
LEMMA TornWrites ==
  ASSUME NEW old, NEW new, NEW d \in PartialWrites(old, new)
  PROVE  \/ ~Replaces(old, new) /\ d \in SomeWrites(old, new)
         \/ /\ Replaces(old, new)
            /\ \/ d = Between(old, new)
               \/ d \in SomeWrites(old, Between(old, new))
               \/ d \in SomeWrites(Between(old, new), new)
  BY DEF PartialWrites

LEMMA TornVetted ==
  ASSUME NEW old \in Tables, NEW new \in Tables, NEW d \in PartialWrites(old, new),
         VettedTables(old), VettedTables(new)
  PROVE  d \in Tables /\ VettedTables(d)
<1>1. CASE ~Replaces(old, new)
  BY <1>1, TornWrites, PartlyWritten, PartlyVetted
<1>2. CASE Replaces(old, new)
  <2> DEFINE mid == Between(old, new)
  <2>1. /\ mid \in Tables
        /\ mid.orders \subseteq old.orders /\ mid.positions \subseteq old.positions
        /\ mid.nextOrderRow = old.nextOrderRow + 1 /\ mid.nextPosRow = old.nextPosRow
    BY <1>2, BetweenWrites
  <2>2. \/ d = mid \/ d \in SomeWrites(old, mid) \/ d \in SomeWrites(mid, new)
    BY <1>2, TornWrites
  <2> HIDE DEF mid
  <2>3. /\ mid.nextOrderRow \in Nat /\ mid.nextOrderRow >= old.nextOrderRow
        /\ mid.nextPosRow \in Nat /\ mid.nextPosRow >= old.nextPosRow
    BY <2>1, TablesNumbers
  <2>4. Rows(mid)
    BY <2>1, <2>3, FewerRows DEF VettedTables
  <2>5. VettedTables(mid)
    BY <2>1, <2>4 DEF VettedTables
  <2> QED BY <2>1, <2>2, <2>5, PartlyWritten, PartlyVetted
<1> QED BY <1>1, <1>2

LEMMA RepairedWrites ==
  ASSUME NEW b \in BookType, Rows(b.db), NEW p \in b.positions
  PROVE  LET c == Repaired(b, p)
         IN  \E q, new, n :
               /\ q \in Position
               /\ c \in BookType
               /\ Protects(b, new, n, q)
               /\ q.id = p.id /\ q.symbol = p.symbol /\ q.side = p.side
               /\ q.entry = p.entry /\ q.size = p.size /\ q.sl = p.sl
               /\ c.positions = (b.positions \ {p}) \cup {q}
               /\ c.orders = Put(b.orders, new) /\ c.nextOrderID = b.nextOrderID + n
               /\ c.acct = b.acct
               /\ c.db = UpdatePosition(InsertOrders(b.db, new, n), q)
<1> DEFINE g == Protection(b, p.symbol, p.side, p.entry, p.size, p.sl, p.tp)
           t == IF g.tpId = None THEN p.tpId ELSE g.tpId
           q == [p EXCEPT !.slId = g.slId, !.tpId = t]
           c == Repaired(b, p)
<1>1. /\ p \in Position /\ p.symbol \in Symbols /\ p.side \in {"LONG", "SHORT"}
      /\ p.entry \in Nat /\ p.size \in Nat /\ p.sl \in Nat /\ p.tp \in Nat
      /\ p.tpId \in Nat
  BY DEF BookType, Position
<1>2. g.new \subseteq Order /\ g.count \in {0, 1, 2} /\ g.slId \in Nat /\ g.tpId \in Nat
  BY <1>1, ProtectionType
<1>3. c = [b EXCEPT !.positions = (@ \ {p}) \cup {q}, !.orders = Put(@, g.new),
                    !.nextOrderID = @ + g.count,
                    !.db = UpdatePosition(InsertOrders(@, g.new, g.count), q)]
  BY DEF Repaired
<1>4. t \in Nat /\ (g.tpId # None => t = g.tpId)
  BY <1>1, <1>2
<1> HIDE DEF t, c
<1>5. /\ q \in Position /\ q.slId = g.slId /\ q.tpId = t
      /\ q.id = p.id /\ q.symbol = p.symbol /\ q.side = p.side
      /\ q.entry = p.entry /\ q.size = p.size /\ q.sl = p.sl
  <2> HIDE DEF g
  <2> QED BY <1>1, <1>2, <1>4 DEF Position
<1> HIDE DEF q
<1>6. Protects(b, g.new, g.count, q)
  <2>1. b.db.nextOrderRow # 0
    BY DEF Rows
  <2>2. q.symbol = p.symbol /\ q.sl = p.sl /\ q.slId = g.slId
        /\ (g.tpId # None => q.tpId = g.tpId)
    BY <1>4, <1>5
  <2>3. /\ p.symbol \in Symbols /\ p.side \in {"LONG", "SHORT"}
        /\ p.entry \in Nat /\ p.size \in Nat /\ p.sl \in Nat /\ p.tp \in Nat
    BY <1>1
  <2> QED BY <2>1, <2>2, <2>3, ProtectionProtects
<1> HIDE DEF g
<1> DEFINE P == (b.positions \ {p}) \cup {q}
           S == Put(b.orders, g.new)
           d == InsertOrders(b.db, g.new, g.count)
           e == UpdatePosition(d, q)
<1>7. /\ c.positions = P /\ c.orders = S /\ c.nextOrderID = b.nextOrderID + g.count
      /\ c.acct = b.acct /\ c.db = e
  BY <1>3 DEF BookType
<1>8. c \in BookType
  <2>1. P \in SUBSET Position /\ S \in SUBSET Order
    BY <1>2, <1>5 DEF BookType, Put
  <2>2. d \in Tables
    BY <1>2, InsertOrdersType DEF BookType
  <2> HIDE DEF d
  <2>3. e \in Tables
    BY <1>5, <2>2 DEF UpdatePosition, Tables
  <2>4. b.nextOrderID + g.count \in Nat \ {0}
    BY <1>2 DEF BookType
  <2>5. c = [b EXCEPT !.positions = P, !.orders = S,
                      !.nextOrderID = b.nextOrderID + g.count, !.db = e]
    BY <1>3 DEF BookType, d
  <2> HIDE DEF P, S, e
  <2> QED BY <2>1, <2>3, <2>4, <2>5 DEF BookType
<1> HIDE DEF P, S, e
<1> QED BY <1>5, <1>6, <1>7, <1>8 DEF c, P, S, e, d

\* The repair of a stop keeps the tables readable.
LEMMA RepairedVetted ==
  ASSUME NEW b \in BookType, Vetted(b), NEW p \in b.positions
  PROVE  /\ Repaired(b, p) \in BookType /\ Vetted(Repaired(b, p))
         /\ BookEvolves(b, Repaired(b, p))
<1> DEFINE c == Repaired(b, p)
<1>1. PICK q, new, n :
        /\ q \in Position
        /\ c \in BookType
        /\ Protects(b, new, n, q)
        /\ q.id = p.id /\ q.symbol = p.symbol /\ q.side = p.side
        /\ q.entry = p.entry /\ q.size = p.size /\ q.sl = p.sl
        /\ c.positions = (b.positions \ {p}) \cup {q}
        /\ c.orders = Put(b.orders, new)
        /\ c.db = UpdatePosition(InsertOrders(b.db, new, n), q)
  BY RepairedWrites DEF Vetted
<1> HIDE DEF c
<1> DEFINE d == InsertOrders(b.db, new, n)
<1>2. /\ n \in {0, 1, 2} /\ new \in SUBSET Order
      /\ \A o \in new : o.id < b.db.nextOrderRow + n /\ o.type # "LIMIT"
  BY <1>1 DEF Protects
<1>3. b.db \in Tables /\ Rows(b.db)
  BY DEF BookType, Vetted
<1>4. /\ d \in Tables
      /\ d.orders = b.db.orders \cup new /\ d.nextOrderRow = b.db.nextOrderRow + n
      /\ d.positions = b.db.positions /\ d.nextPosRow = b.db.nextPosRow
  <2>1. n \in Nat
    BY <1>2
  <2> QED BY <1>2, <1>3, <2>1, InsertOrdersType DEF InsertOrders, Tables
<1> HIDE DEF d
<1>5. Rows(d)
  <2>1. \A o \in d.orders : o.id < d.nextOrderRow
    BY <1>2, <1>3, <1>4, TablesNumbers DEF Rows
  <2>2. d.nextOrderRow # 0
    BY <1>2, <1>3, <1>4, TablesNumbers DEF Rows
  <2> QED BY <1>3, <1>4, <2>1, <2>2 DEF Rows
<1>6. /\ Rows(c.db) /\ c.db.positions \subseteq d.positions \cup {q}
      /\ c.db.orders = d.orders /\ c.db.nextPosRow = d.nextPosRow
  <2>1. c.db = UpdatePosition(d, q)
    BY <1>1 DEF d
  <2> QED BY <1>1, <1>4, <1>5, <2>1, UpdatedRows
<1>7. ASSUME Stopped(b) PROVE Stopped(c)
  <2>1. ~Invalid(q)
    BY <1>1, <1>7 DEF Stopped, Invalid
  <2>2. c.orders \cup c.db.orders \subseteq b.orders \cup b.db.orders \cup new
    BY <1>1, <1>4, <1>6 DEF Put
  <2> QED BY <1>1, <1>2, <1>4, <1>6, <1>7, <2>1, <2>2 DEF Stopped
<1>8. BookEvolves(b, c)
  <2>1. Shrinks(b.positions, c.positions)
    BY <1>1 DEF Shrinks
  <2> QED BY <1>4, <1>6, <2>1 DEF BookEvolves, Evolves
<1> QED BY <1>1, <1>6, <1>7, <1>8 DEF Vetted, c

-----------------------------------------------------------------------------
(* The inductive invariant of the types, and of a start that succeeds.      *)

Repairs == {[op |-> "repair", symbols |-> S] : S \in SUBSET Symbols}

\* The rows of the tables are numbered, as they are now and as the last handler
\* found them: this bounds what Rehydrate takes a maximum of and adds up. The
\* stops are on their losing side: this is what Rehydrate checks of each row.
RecoveryInv ==
  /\ RecoveryTypeOK
  /\ marks \subseteq [symbol : Symbols, gain : Int]
  /\ halted \in BOOLEAN
  /\ lock \in {Free, Emergency} \cup Candle \cup Repairs
  /\ caller \in {Idle} \cup Call
  /\ VetInv /\ StopInv
  /\ VettedTables(before)
  /\ "reduce" \notin ClientOps => ~refused

LEMMA LocksDiffer ==
  /\ Free.op = "free" /\ Emergency.op = "emergency"
  /\ \A l \in Candle : l.op = "candle"
  /\ \A l \in Repairs : l.op = "repair" /\ l.symbols \subseteq Symbols
  BY DEF Free, Emergency, Candle, Repairs

\* While Rehydrate repairs, nobody calls the broker.
LEMMA RepairIsAlone ==
  ASSUME lock.op = "repair"
  PROVE  ~Next
<1>1. lock # Free /\ lock # Emergency /\ lock \notin Candle
  BY LocksDiffer
<1>2. ~Entry
  <2>1. \A op : ~Calls(op)
    BY <1>1 DEF Calls
  <2>2. \A s, side, qty : ~RejectReduce(s, side, qty) /\ ~ReduceOnly(s, side, qty)
    BY <2>1 DEF RejectReduce, ReduceOnly
  <2>3. \A s, side, qty, sl : ~RejectMarket(s, side, qty, sl)
    BY <2>1 DEF RejectMarket
  <2>4. \A s, side, qty, sl, tp : ~PlaceMarket(s, side, qty, sl, tp)
    BY <2>1 DEF PlaceMarket
  <2>5. \A s, side, qty, x, sl, tp : ~PlaceLimit(s, side, qty, x, sl, tp)
    BY <2>1 DEF PlaceLimit
  <2> QED BY <2>2, <2>3, <2>4, <2>5 DEF Entry
<1>3. ~Exit
  BY <1>1 DEF Exit, CancelOrder, ClosePosition, EmergencyClose, EmergencyCloseAll, Calls
<1>4. ~Tick
  BY <1>1 DEF Tick, SetSymbolPrice, UpdatePrice, ProcessCandle, FillLimit, FinishCandle
<1>5. ~Protect
  BY <1>1 DEF Protect, BeginProtect, PlaceStop, PlaceTarget, PlaceExit, Link, Calls
<1> QED BY <1>1, <1>2, <1>3, <1>4, <1>5 DEF Next, SetHalted, ResetDailyLoss, Calls

LEMMA RecoveryTyped ==
  ASSUME RecoveryInv
  PROVE  /\ Book \in BookType
         /\ lock.op # "repair" => TypeOK
         /\ lock.op = "repair" => lock.symbols \subseteq Symbols
         /\ VettedTables(db)
<1>1. Book \in BookType
  BY DEF RecoveryInv, RecoveryTypeOK, Book, BookType
<1>2. ASSUME lock.op # "repair" PROVE TypeOK
  BY <1>2, LocksDiffer DEF RecoveryInv, RecoveryTypeOK, TypeOK
<1>3. lock.op = "repair" => lock.symbols \subseteq Symbols
  BY LocksDiffer DEF RecoveryInv
<1>4. VettedTables(db)
  BY DEF RecoveryInv, VetInv, Vetted, Stopped, VettedTables, Book
<1> QED BY <1>1, <1>2, <1>3, <1>4

\* A start on readable tables.
LEMMA RestartInv ==
  ASSUME RecoveryInv, NEW d \in Tables, VettedTables(d), RestartOn(d),
         torn' \in 0 .. MaxTorn
  PROVE  RecoveryInv'
<1>1. /\ prices' = [s \in Symbols |-> None] /\ marks' = {} /\ halted' = refused'
      /\ caller' = Idle /\ db' = d /\ before' = d
      /\ restarts' = restarts + 1 /\ restarts < MaxRestarts /\ ~refused
  BY DEF RestartOn
<1>2. restarts' \in 0 .. MaxRestarts
  BY <1>1, RecoveryAssumption DEF RecoveryInv, RecoveryTypeOK
<1>3. CASE \E p \in d.positions : Invalid(p)
  <2>1. Refuse
    BY <1>3 DEF RestartOn
  <2>2. "reduce" \in ClientOps
    BY <1>3 DEF VettedTables
  <2>3. acct' \in Account
    <3>1. acct \in Account /\ StartingBalance \in Int /\ 0 \in Int
      BY BrokerAssumption DEF RecoveryInv, RecoveryTypeOK
    <3>2. acct' = [acct EXCEPT !.balance = StartingBalance, !.usedMargin = 0,
                               !.realizedPnL = 0, !.dailyLoss = 0, !.entryFees = 0]
      BY <2>1 DEF Refuse
    <3> QED BY <3>1, <3>2 DEF Account
  <2>4. /\ positions' = {} /\ orders' = {} /\ nextOrderID' = 1 /\ lock' = Free
        /\ refused' = TRUE /\ fresh' = fresh
    BY <2>1 DEF Refuse
  <2>5. RecoveryTypeOK'
    BY <1>1, <1>2, <2>3, <2>4 DEF RecoveryTypeOK, RecoveryInv
  <2>6. VetInv' /\ VettedTables(before)'
    BY <1>1, <2>2, <2>4 DEF VetInv, Vetted, Book, VettedTables
  <2>7. StopInv'
    BY <1>1, <2>4 DEF StopInv, Sided
  <2> QED BY <1>1, <2>2, <2>4, <2>5, <2>6, <2>7 DEF RecoveryInv
<1>4. CASE ~\E p \in d.positions : Invalid(p)
  <2> DEFINE m == Max({0} \cup {o.id : o \in d.orders})
  <2>1. /\ positions' = LoadedPositions(d) /\ orders' = LoadedOrders(d)
        /\ nextOrderID' = 1 + m
        /\ acct' = [d.account EXCEPT !.usedMargin = MapThenSumSet(Margin, d.positions)]
        /\ lock' = Repair({p.symbol : p \in positions'})
        /\ fresh' = (fresh /\ \A o \in orders' : o.key < nextOrderID')
        /\ refused' = refused
    BY <1>4 DEF RestartOn, Load
  <2>2. m \in Nat /\ Reserved(d.positions) \in Nat
        /\ MapThenSumSet(Margin, d.positions) = Reserved(d.positions)
    BY CounterPast, ReserveLoaded DEF VettedTables
  <2> HIDE DEF m
  <2>3. /\ positions' \subseteq d.positions /\ orders' \subseteq d.orders
        /\ d.positions \subseteq Position /\ d.orders \subseteq Order
    BY <2>1 DEF LoadedPositions, LoadedOrders, Tables
  <2>4. acct' \in Account
    BY <2>1, <2>2 DEF Tables, Account
  <2>5. lock' \in {Free, Emergency} \cup Candle \cup Repairs
    <3>1. {p.symbol : p \in positions'} \in SUBSET Symbols
      BY <2>3 DEF Position
    <3> QED BY <2>1, <3>1 DEF Repair, Repairs
  <2>6. refused' \in BOOLEAN /\ fresh' \in BOOLEAN /\ ~refused'
    BY <1>1, <2>1 DEF RecoveryInv, RecoveryTypeOK
  <2>7. RecoveryTypeOK'
    <3>1. nextOrderID' \in Nat \ {0}
      BY <2>1, <2>2
    <3>2. prices' \in [Symbols -> Prices \cup {None}]
      BY <1>1
    <3> QED BY <1>1, <1>2, <2>3, <2>4, <2>6, <3>1, <3>2 DEF RecoveryTypeOK
  <2>8. VetInv' /\ VettedTables(before)'
    BY <1>1, <2>3 DEF VetInv, Vetted, Stopped, Book, VettedTables
  <2>9. StopInv'
    <3>1. \A p \in positions' : p.id < d.nextPosRow /\ StopSided(p)
      BY <1>4, <2>3 DEF VettedTables, Rows, Invalid, StopSided
    <3>2. \A p, q \in positions' : Agrees(p, q)
      BY <2>3 DEF VettedTables, Rows, Agrees
    <3> QED BY <1>1, <3>1, <3>2 DEF StopInv, Sided
  <2>10. /\ marks' \subseteq [symbol : Symbols, gain : Int]
         /\ halted' \in BOOLEAN /\ caller' \in {Idle} \cup Call
    BY <1>1, <2>6
  <2> QED BY <2>5, <2>6, <2>7, <2>8, <2>9, <2>10 DEF RecoveryInv
<1> QED BY <1>3, <1>4

\* One turn of the repair loop.
LEMMA RepairInv ==
  ASSUME RecoveryInv, NEW p \in positions, RepairStop(p)
  PROVE  RecoveryInv'
<1>1. /\ lock.op = "repair" /\ lock' = Repair(lock.symbols \ {p.symbol})
      /\ before' = db
      /\ UNCHANGED <<prices, marks, halted, caller, restarts, torn, fresh, refused>>
      /\ Becomes(Book) \/ Becomes(Repaired(Book, p))
  BY DEF RepairStop
<1>2. PICK c : /\ Becomes(c) /\ c \in BookType /\ Vetted(c) /\ BookEvolves(Book, c)
  <2>1. Book \in BookType /\ Vetted(Book) /\ p \in Book.positions
    BY RecoveryTyped DEF RecoveryInv, VetInv, Book
  <2>2. BookEvolves(Book, Book)
    BY DEF BookEvolves, Evolves, Shrinks
  <2> QED BY <1>1, <2>1, <2>2, RepairedVetted
<1>3. lock' \in {Free} \cup Repairs
  <2>1. lock.symbols \ {p.symbol} \in SUBSET Symbols
    BY <1>1, RecoveryTyped
  <2> QED BY <1>1, <2>1 DEF Repair, Repairs
<1>4. RecoveryTypeOK'
  BY <1>1, <1>2 DEF RecoveryInv, RecoveryTypeOK, Becomes, BookType
<1>5. VetInv'
  BY <1>2, StepVetted
<1>6. VettedTables(before)'
  <2>1. VettedTables(db)
    BY RecoveryTyped
  <2> QED BY <1>1, <2>1 DEF VettedTables
<1>7. StopInv'
  <2>1. Evolves(positions, db.nextPosRow, positions', db'.nextPosRow)
    BY <1>2 DEF BookEvolves, Becomes, Book
  <2>2. /\ positions \in SUBSET Position /\ positions' \in SUBSET Position
        /\ db.nextPosRow \in Nat /\ db'.nextPosRow \in Nat
    BY <1>4 DEF RecoveryInv, RecoveryTypeOK, Tables
  <2>3. caller # Idle => caller.pos \in Position
    BY DEF RecoveryInv, Call
  <2>4. StopInv
    BY DEF RecoveryInv
  <2> QED BY <1>1, <2>1, <2>2, <2>3, <2>4, EvolvesSided DEF StopInv
<1> QED BY <1>1, <1>3, <1>4, <1>5, <1>6, <1>7 DEF RecoveryInv

LEMMA RecoveryNextInv ==
  ASSUME RecoveryInv, [RecoveryNext]_allVars
  PROVE  RecoveryInv'
<1>1. CASE Next /\ before' = db /\ UNCHANGED <<restarts, torn, fresh, refused>>
  <2>1. lock.op # "repair"
    BY <1>1, RepairIsAlone
  <2>2. TypeOK /\ VettedTables(db)
    BY <2>1, RecoveryTyped
  <2>3. TypeOK'
    BY <1>1, <2>2, NextType
  <2>4. VetInv' /\ StopInv'
    BY <1>1, <2>2, NextVetted, NextSided DEF RecoveryInv
  <2>5. RecoveryTypeOK'
    BY <1>1, <2>2, <2>3 DEF RecoveryInv, RecoveryTypeOK, TypeOK
  <2>6. VettedTables(before)'
    BY <1>1, <2>2 DEF VettedTables
  <2> QED BY <1>1, <2>3, <2>4, <2>5, <2>6 DEF RecoveryInv, TypeOK
<1>2. CASE Restart
  <2>1. VettedTables(db) /\ db \in Tables
    BY RecoveryTyped DEF RecoveryInv, RecoveryTypeOK
  <2>2. torn' \in 0 .. MaxTorn
    BY <1>2 DEF Restart, RecoveryInv, RecoveryTypeOK
  <2> QED BY <1>2, <2>1, <2>2, RestartInv DEF Restart
<1>3. CASE TornRestart
  <2>1. PICK d \in PartialWrites(before, db) : RestartOn(d)
    BY <1>3 DEF TornRestart
  <2>2. /\ before \in Tables /\ db \in Tables
        /\ VettedTables(before) /\ VettedTables(db)
    BY RecoveryTyped DEF RecoveryInv, RecoveryTypeOK
  <2>3. d \in Tables /\ VettedTables(d)
    BY <2>2, TornVetted
  <2>4. torn' \in 0 .. MaxTorn
    BY <1>3, RecoveryAssumption DEF TornRestart, RecoveryInv, RecoveryTypeOK
  <2> QED BY <2>1, <2>3, <2>4, RestartInv
<1>4. CASE \E p \in positions : RepairStop(p)
  BY <1>4, RepairInv
<1>5. CASE UNCHANGED allVars
  BY <1>5 DEF allVars, vars, RecoveryInv, RecoveryTypeOK, VetInv, StopInv, Book, VettedTables
<1> QED BY <1>1, <1>2, <1>3, <1>4, <1>5 DEF RecoveryNext

LEMMA RecoveryInitInv == RecoveryInit => RecoveryInv
<1> SUFFICES ASSUME RecoveryInit PROVE RecoveryInv
  OBVIOUS
<1>1. Init /\ before = db /\ restarts = 0 /\ torn = 0 /\ fresh = TRUE /\ refused = FALSE
  BY DEF RecoveryInit
<1>2. TypeOK
  BY <1>1, InitType
<1>3. RecoveryTypeOK
  <2>1. 0 \in 0 .. MaxRestarts /\ 0 \in 0 .. MaxTorn
    BY RecoveryAssumption
  <2>2. restarts \in 0 .. MaxRestarts /\ torn \in 0 .. MaxTorn
    BY <1>1, <2>1
  <2> QED BY <1>1, <1>2, <2>2 DEF RecoveryTypeOK, TypeOK
<1>4. VetInv /\ VettedTables(db)
  <2>1. /\ positions = {} /\ orders = {} /\ db.orders = {} /\ db.positions = {}
        /\ db.nextOrderRow # 0
    BY <1>1 DEF Init
  <2>2. Rows(db)
    BY <2>1, FS_EmptySet DEF Rows
  <2>3. Book.db = db /\ Book.positions = positions /\ Book.orders = orders
    BY DEF Book
  <2> QED BY <2>1, <2>2, <2>3 DEF VetInv, Vetted, Stopped, VettedTables
<1>5. StopInv
  BY <1>1 DEF Init, StopInv, Sided
<1> QED BY <1>1, <1>2, <1>3, <1>4, <1>5 DEF RecoveryInv, TypeOK, VettedTables

LEMMA RecoveryInvHolds == RecoverySpec => []RecoveryInv
  BY RecoveryInitInv, RecoveryNextInv, PTL DEF RecoverySpec

\* Whatever the clients call and wherever the process dies, between two handlers
\* or between two writes of one: what Rehydrate reads back is a book, its
\* counter a number past every row and its reserve the sum of its positions.
THEOREM RecoveryTypeCorrect == RecoverySpec => []RecoveryTypeOK
<1>1. RecoveryInv => RecoveryTypeOK
  BY DEF RecoveryInv
<1> QED BY <1>1, RecoveryInvHolds, PTL

\* "persisted open position has no stop loss": validatePositionStopLoss, which
\* makes Rehydrate give up, never meets such a row. No handler writes one,
\* completely or not, and none does after a start, for clients that do anything
\* but reduce.
THEOREM StartNeverRefused ==
  ASSUME "reduce" \notin ClientOps
  PROVE  RecoverySpec => []NeverRefused
<1>1. RecoveryInv => NeverRefused
  BY DEF RecoveryInv, NeverRefused
<1> QED BY <1>1, RecoveryInvHolds, PTL

-----------------------------------------------------------------------------
(* A restart in between. For clients that place market entries, close, halt *)
(* and reset, the tables mirror the book: every position and every order    *)
(* has its row, and no position has more. A torn handler may leave rows of  *)
(* orders behind that nothing in the book owns.                             *)

Plain == {"market", "close", "halt", "reset"}

OneEach(P) == \A p, q \in P : p.symbol = q.symbol => p = q

\* Rows that Rehydrate reads into maps without losing one.
Legible(d) ==
  /\ d.nextOrderRow # 0
  /\ IsFiniteSet(d.positions) /\ OneEach(d.positions)
  /\ \A o, r \in d.orders : o.key = r.key => o = r
  /\ Numbers(d)
  /\ \A o \in d.orders : o.type # "LIMIT"

\* o is one of the two protective orders of p.
Owned(o, p) ==
  /\ o.symbol = p.symbol /\ o.id \in {p.slId, p.tpId}
  /\ o.type = "STOP_MARKET" => o.id = p.slId /\ o.price = p.sl

\* Every row of an order is of a protective order of an open position.
NoOrphans(d) == \A o \in d.orders : \E p \in d.positions : Owned(o, p)

Mirror(b) ==
  /\ Legible(b.db)
  /\ b.positions = b.db.positions
  /\ b.orders \subseteq b.db.orders
  /\ \A o \in b.db.orders : o.key < b.nextOrderID

Clean(b) == b.orders = b.db.orders /\ NoOrphans(b.db)

\* The snapshot is the account, and its reserve what the positions tie up.
Exact(b) ==
  /\ b.db.account = b.acct
  /\ b.acct.usedMargin = Reserved(b.positions)

\* What a handler that turns b into c preserves.
Keeps(b, c) ==
  /\ Mirror(c) /\ (Clean(b) => Clean(c))
  /\ Exact(b) => Exact(c)

LEMMA BookNumbers ==
  ASSUME NEW b \in BookType
  PROVE  /\ b.db \in Tables /\ b.acct \in Account /\ b.nextOrderID \in Nat
         /\ b.positions \in SUBSET Position /\ b.orders \in SUBSET Order
         /\ b.db.nextOrderRow \in Nat /\ b.db.nextPosRow \in Nat
         /\ \A o \in b.db.orders : o.id \in Nat /\ o.key \in Nat
         /\ \A p \in b.db.positions : p.id \in Nat
         /\ b.acct.usedMargin \in Int
  BY DEF BookType, Tables, Order, Position, Account

LEMMA ClosedKeeps ==
  ASSUME NEW b \in BookType, Mirror(b), NEW p \in b.positions, NEW exit,
         NEW closing \in BOOLEAN
  PROVE  Keeps(b, Closed(b, p, exit, closing))
<1> DEFINE c == Closed(b, p, exit, closing)
           R == Siblings(b, p)
<1>1. /\ c.positions = {q \in b.positions : q.symbol # p.symbol}
      /\ c.orders = b.orders \ R
      /\ c.nextOrderID = IF closing THEN b.nextOrderID ELSE b.nextOrderID + 1
      /\ c.db.orders = {r \in b.db.orders : \A o \in R : r.id # o.id}
      /\ c.db.nextOrderRow \in {b.db.nextOrderRow, b.db.nextOrderRow + 1}
      /\ c.db.positions = {r \in b.db.positions : r.id # p.id}
      /\ c.db.nextPosRow = b.db.nextPosRow
      /\ c.db.account = c.acct
  <2>1. ClosedTo(b, p, closing, c)
    BY ClosedWrites
  <2> HIDE DEF c
  <2> QED BY <2>1 DEF ClosedTo
<1>2. c.acct.usedMargin = b.acct.usedMargin - Margin(p)
  <2> DEFINE x == SlippedFill(IF p.side = "LONG" THEN "SELL" ELSE "BUY", exit)
             pnl == Gain(p, x) - x * p.size * TakerFee
  <2>1. c.acct = Realize(b.acct, pnl, Margin(p))
    BY DEF Closed
  <2> HIDE DEF pnl, c
  <2> QED BY <2>1, BookNumbers, RealizeUsed
<1>3. R = {o \in b.orders : o.symbol = p.symbol /\ o.id \in {p.slId, p.tpId}}
  BY DEF Siblings
<1> HIDE DEF c, R
<1>4. Legible(b.db) /\ b.positions = b.db.positions /\ b.orders \subseteq b.db.orders
  BY DEF Mirror
<1>5. c.db.positions = b.positions \ {p} /\ c.positions = b.positions \ {p}
  BY <1>1, <1>4 DEF Legible, OneEach, Numbers
<1>6. c.orders \subseteq c.db.orders /\ (b.orders = b.db.orders => c.orders = c.db.orders)
  BY <1>1, <1>3, <1>4 DEF Legible, Numbers
<1>7. Legible(c.db)
  <2>1. Numbers(c.db)
    <3>1. \A o \in c.db.orders : o.id < c.db.nextOrderRow
      BY <1>1, <1>4, BookNumbers DEF Legible, Numbers
    <3> QED BY <1>1, <1>4, <3>1 DEF Legible, Numbers
  <2>2. IsFiniteSet(c.db.positions)
    BY <1>4, <1>5, FS_Subset DEF Legible
  <2>3. c.db.nextOrderRow # 0
    BY <1>1, <1>4, BookNumbers DEF Legible
  <2> QED BY <1>1, <1>4, <1>5, <2>1, <2>2, <2>3 DEF Legible, OneEach
<1>8. \A o \in c.db.orders : o.key < c.nextOrderID
  BY <1>1, BookNumbers DEF Mirror
<1>9. ASSUME Clean(b) PROVE Clean(c)
  <2>1. ASSUME NEW o \in c.db.orders
        PROVE  \E q \in c.db.positions : Owned(o, q)
    <3>1. o \in b.orders /\ o \notin R
      BY <1>1, <1>9 DEF Clean
    <3>2. PICK q \in b.positions : Owned(o, q)
      BY <1>4, <1>9, <3>1 DEF Clean, NoOrphans
    <3>3. q # p
      BY <1>3, <3>1, <3>2 DEF Owned
    <3> QED BY <1>5, <3>2, <3>3
  <2> QED BY <1>6, <1>9, <2>1 DEF Clean, NoOrphans
<1>10. ASSUME Exact(b) PROVE Exact(c)
  <2>1. IsFiniteSet(b.positions)
    BY <1>4 DEF Legible
  <2>2. /\ Reserved(b.positions) = Margin(p) + Reserved(b.positions \ {p})
        /\ Margin(p) \in Nat /\ Reserved(b.positions \ {p}) \in Nat
    BY <2>1, BookNumbers, ReservedWithout
  <2>3. Reserved(c.positions) = Reserved(b.positions \ {p})
    BY <1>5
  <2>4. b.acct.usedMargin = Reserved(b.positions) /\ b.acct.usedMargin \in Int
    BY <1>10, BookNumbers DEF Exact
  <2>5. c.acct.usedMargin = Reserved(c.positions)
    BY <1>2, <2>2, <2>3, <2>4
  <2> QED BY <1>1, <2>5 DEF Exact
<1> QED BY <1>4, <1>5, <1>6, <1>7, <1>8, <1>9, <1>10 DEF Keeps, Mirror, c

\* A position was opened on a symbol that had none.
LEMMA EnteredKeeps ==
  ASSUME NEW b \in BookType, Mirror(b), NEW c, NEW q, Entered(b, c, q),
         \A p \in b.positions : p.symbol # q.symbol
  PROVE  /\ Keeps(b, c)
         /\ c.db.positions = b.db.positions \cup {q}
         /\ q.id = b.db.nextPosRow
         /\ b.db.orders \subseteq c.db.orders
         /\ \A o \in c.db.orders \ b.db.orders :
              o.symbol = q.symbol /\ o.id >= b.db.nextOrderRow
<1>1. PICK new, n :
        /\ Protects(b, new, n, q)
        /\ q \in Position /\ q.id = b.db.nextPosRow
        /\ c.positions = {r \in b.positions : r.symbol # q.symbol} \cup {q}
        /\ c.orders = Put(b.orders, new) /\ c.nextOrderID = b.nextOrderID + n
        /\ c.db.orders = b.db.orders \cup new
        /\ c.db.nextOrderRow = b.db.nextOrderRow + n
        /\ c.db.positions = b.db.positions \cup {q}
        /\ c.db.nextPosRow = b.db.nextPosRow + 1
        /\ c.db.account = c.acct
        /\ c.acct.usedMargin = b.acct.usedMargin + Margin(q)
  BY DEF Entered
<1>2. /\ n \in {0, 1, 2} /\ new \in SUBSET Order
      /\ \A o \in new :
           /\ o.id >= b.db.nextOrderRow /\ o.id < b.db.nextOrderRow + n
           /\ o.key >= b.nextOrderID /\ o.key < b.nextOrderID + n
           /\ o.symbol = q.symbol /\ o.type # "LIMIT" /\ Owned(o, q)
      /\ \A o, r \in new : o.id = r.id => o = r
      /\ \A o, r \in new : o.key = r.key => o = r
  BY <1>1 DEF Protects, Owned
<1>3. \A o \in new : o.id \in Nat /\ o.key \in Nat
  BY <1>2 DEF Order
<1>4. /\ Legible(b.db) /\ b.positions = b.db.positions /\ b.orders \subseteq b.db.orders
      /\ \A o \in b.db.orders : o.key < b.nextOrderID
  BY DEF Mirror
<1>5. c.orders = b.orders \cup new
  <2>1. \A o \in b.orders, r \in new : r.key # o.key
    BY <1>2, <1>3, <1>4, BookNumbers
  <2> QED BY <1>1, <2>1 DEF Put
<1>6. c.positions = b.positions \cup {q}
  BY <1>1
<1>7. Legible(c.db)
  <2>1. IsFiniteSet(c.db.positions)
    BY <1>1, <1>4, FS_AddElement DEF Legible
  <2>2. OneEach(c.db.positions)
    BY <1>1, <1>4 DEF Legible, OneEach
  <2>3. \A o, r \in c.db.orders : o.key = r.key => o = r
    BY <1>1, <1>2, <1>3, <1>4, BookNumbers DEF Legible
  <2>4. \A o \in c.db.orders : o.type # "LIMIT"
    BY <1>1, <1>2, <1>4 DEF Legible
  <2>5. Numbers(c.db)
    <3>1. \A o \in c.db.orders : o.id < c.db.nextOrderRow
      BY <1>1, <1>2, <1>4, BookNumbers DEF Legible, Numbers
    <3>2. \A o, r \in c.db.orders : o.id = r.id => o = r
      BY <1>1, <1>2, <1>3, <1>4, BookNumbers DEF Legible, Numbers
    <3>3. \A p \in c.db.positions : p.id < c.db.nextPosRow
      BY <1>1, <1>4, BookNumbers DEF Legible, Numbers
    <3>4. \A p, r \in c.db.positions : p.id = r.id => p = r
      BY <1>1, <1>4, BookNumbers DEF Legible, Numbers
    <3> QED BY <3>1, <3>2, <3>3, <3>4 DEF Numbers
  <2>6. c.db.nextOrderRow # 0
    BY <1>1, <1>2, <1>4, BookNumbers DEF Legible
  <2> QED BY <2>1, <2>2, <2>3, <2>4, <2>5, <2>6 DEF Legible
<1>8. \A o \in c.db.orders : o.key < c.nextOrderID
  BY <1>1, <1>2, <1>4, BookNumbers
<1>9. Mirror(c)
  BY <1>1, <1>4, <1>5, <1>6, <1>7, <1>8 DEF Mirror
<1>10. ASSUME Clean(b) PROVE Clean(c)
  BY <1>1, <1>2, <1>5, <1>10 DEF Clean, NoOrphans
<1>11. ASSUME Exact(b) PROVE Exact(c)
  <2>1. q \notin b.positions /\ IsFiniteSet(b.positions)
    BY <1>4 DEF Legible
  <2>2. /\ Reserved(b.positions \cup {q}) = Margin(q) + Reserved(b.positions)
        /\ Margin(q) \in Nat /\ Reserved(b.positions) \in Nat
    BY <1>1, <2>1, BookNumbers, ReservedWith
  <2>3. Reserved(c.positions) = Reserved(b.positions \cup {q})
    BY <1>6
  <2>4. b.acct.usedMargin = Reserved(b.positions) /\ b.acct.usedMargin \in Int
    BY <1>11, BookNumbers DEF Exact
  <2>5. c.acct.usedMargin = Reserved(c.positions)
    BY <1>1, <2>2, <2>3, <2>4
  <2> QED BY <1>1, <2>5 DEF Exact
<1> QED BY <1>1, <1>2, <1>9, <1>10, <1>11 DEF Keeps

LEMMA CountedKeeps ==
  ASSUME NEW b \in BookType, Mirror(b)
  PROVE  /\ Keeps(b, Numbered(b)) /\ Numbered(b).positions = b.positions
         /\ Numbered(b).db = b.db
         /\ Keeps(b, Filled(b)) /\ Filled(b).positions = b.positions
         /\ Filled(b).db.orders = b.db.orders /\ Filled(b).db.positions = b.db.positions
         /\ Filled(b).db.nextPosRow = b.db.nextPosRow
<1> DEFINE c == Numbered(b)
           f == Filled(b)
<1>1. /\ c.positions = b.positions /\ c.orders = b.orders /\ c.db = b.db
      /\ c.acct = b.acct /\ c.nextOrderID = b.nextOrderID + 1
  BY DEF Numbered, BookType
<1>2. /\ f.positions = b.positions /\ f.orders = b.orders /\ f.acct = b.acct
      /\ f.nextOrderID = b.nextOrderID
      /\ f.db.orders = b.db.orders /\ f.db.positions = b.db.positions
      /\ f.db.nextOrderRow = b.db.nextOrderRow + 1
      /\ f.db.nextPosRow = b.db.nextPosRow /\ f.db.account = b.db.account
  BY DEF Filled, InsertSettled, BookType, Tables
<1> HIDE DEF c, f
<1>3. Keeps(b, c)
  <2>1. \A o \in b.db.orders : o.key < c.nextOrderID
    BY <1>1, BookNumbers DEF Mirror
  <2> QED BY <1>1, <2>1 DEF Keeps, Mirror, Clean, Exact
<1>4. Keeps(b, f)
  <2>1. f.db.nextOrderRow # 0 /\ \A o \in b.db.orders : o.id < f.db.nextOrderRow
    BY <1>2, BookNumbers DEF Mirror, Legible, Numbers
  <2>2. Legible(f.db)
    BY <1>2, <2>1 DEF Mirror, Legible, Numbers
  <2> QED BY <1>2, <2>2 DEF Keeps, Mirror, Clean, NoOrphans, Exact
<1> QED BY <1>1, <1>2, <1>3, <1>4 DEF c, f

\* Orders leave the memory alone, and none does if the tables are clean.
LEMMA DroppedKeeps ==
  ASSUME NEW b \in BookType, Mirror(b), NEW S \in SUBSET b.orders,
         Clean(b) => S = b.orders
  PROVE  Keeps(b, [b EXCEPT !.orders = S])
<1> DEFINE c == [b EXCEPT !.orders = S]
<1>1. /\ c.positions = b.positions /\ c.orders = S /\ c.db = b.db
      /\ c.acct = b.acct /\ c.nextOrderID = b.nextOrderID
  BY DEF BookType
<1> HIDE DEF c
<1>2. Keeps(b, c)
  BY <1>1 DEF Keeps, Mirror, Clean, Exact
<1> QED BY <1>2 DEF c

\* An order that triggers takes its position and its row with it.
LEMMA TriggeredKeeps ==
  ASSUME NEW b \in BookType, Mirror(b), NEW o \in b.orders, NEW p \in b.positions,
         o.symbol = p.symbol, NEW x \in Int
  PROVE  LET c == Triggered(b, o, p, x)
         IN  /\ c \in BookType /\ Keeps(b, c)
             /\ c.db.orders \subseteq b.db.orders
             /\ c.db.positions \subseteq b.db.positions
             /\ Clean(b) => \A r \in c.orders : r.symbol # p.symbol
<1> DEFINE e == Closed(b, p, x, TRUE)
           S == Without(e.orders, o)
           d == Settle(e.db, {o})
           c == [e EXCEPT !.orders = S, !.db = d]
<1>1. /\ e \in BookType /\ Keeps(b, e)
      /\ e.positions = {q \in b.positions : q.symbol # p.symbol}
      /\ e.orders = b.orders \ Siblings(b, p)
      /\ e.db.orders \subseteq b.db.orders
      /\ e.db.positions \subseteq b.db.positions
  <2>1. p \in Position
    BY BookNumbers
  <2>2. e \in BookType
    BY <2>1, ClosedType
  <2>3. Keeps(b, e)
    BY ClosedKeeps
  <2>4. ClosedTo(b, p, TRUE, e)
    BY ClosedWrites
  <2> HIDE DEF e
  <2> QED BY <2>2, <2>3, <2>4 DEF ClosedTo
<1> HIDE DEF e
<1>2. Mirror(e) /\ e.db \in Tables
  BY <1>1, BookNumbers DEF Keeps
<1>3. /\ d.orders = {r \in e.db.orders : r.id # o.id}
      /\ d.positions = e.db.positions /\ d.nextPosRow = e.db.nextPosRow
      /\ d.nextOrderRow = e.db.nextOrderRow /\ (Numbers(e.db) => Numbers(d))
      /\ d.account = e.db.account
  <2>1. d.account = e.db.account
    BY <1>2 DEF Settle, Tables
  <2> QED BY <1>2, <2>1, SettleKeeps
<1>4. S = {r \in e.orders : r.key # o.key}
  BY DEF Without
<1> HIDE DEF S, d
<1>5. /\ c.positions = e.positions /\ c.orders = S /\ c.db = d /\ c.acct = e.acct
      /\ c.nextOrderID = e.nextOrderID
  BY <1>1 DEF BookType
<1> HIDE DEF c
<1>6. /\ Legible(b.db) /\ b.positions = b.db.positions /\ b.orders \subseteq b.db.orders
  BY DEF Mirror
<1>7. \A r \in e.db.orders : r.id = o.id <=> r.key = o.key
  BY <1>1, <1>6 DEF Legible, Numbers
<1>8. Mirror(c)
  <2>1. S \subseteq d.orders
    BY <1>2, <1>3, <1>4, <1>7 DEF Mirror
  <2>2. Legible(d)
    BY <1>2, <1>3 DEF Mirror, Legible
  <2> QED BY <1>2, <1>3, <1>5, <2>1, <2>2 DEF Mirror
<1>9. ASSUME Clean(b)
      PROVE  Clean(c) /\ \A r \in c.orders : r.symbol # p.symbol
  <2>1. Clean(e)
    BY <1>1, <1>9 DEF Keeps
  <2>2. PICK q \in b.positions : Owned(o, q)
    BY <1>6, <1>9 DEF Clean, NoOrphans
  <2>3. q = p
    BY <1>6, <2>2 DEF Owned, Legible, OneEach
  <2>4. o \in Siblings(b, p)
    BY <2>2, <2>3 DEF Owned, Siblings
  <2>5. \A r \in e.db.orders : r.id # o.id /\ r.key # o.key
    <3>1. o \notin e.db.orders
      BY <1>1, <2>1, <2>4 DEF Clean
    <3> QED BY <1>1, <1>6, <3>1 DEF Legible, Numbers
  <2>6. S = e.orders /\ d.orders = e.db.orders
    BY <1>3, <1>4, <2>1, <2>5 DEF Clean
  <2>7. Clean(c)
    BY <1>3, <1>5, <2>1, <2>6 DEF Clean, NoOrphans
  <2>8. \A r \in c.orders : r.symbol # p.symbol
    BY <1>1, <1>2, <1>3, <1>5, <2>7 DEF Clean, NoOrphans, Owned, Mirror
  <2> QED BY <2>7, <2>8
<1>10. Exact(b) => Exact(c)
  BY <1>1, <1>3, <1>5 DEF Keeps, Exact
<1>11. c = Triggered(b, o, p, x) /\ c \in BookType
  <2>1. c = Triggered(b, o, p, x)
    BY DEF Triggered, c, S, d, e
  <2> QED BY <2>1, BookNumbers, TriggeredType
<1>12. c.db.orders \subseteq b.db.orders /\ c.db.positions \subseteq b.db.positions
  BY <1>1, <1>3, <1>5
<1> QED BY <1>8, <1>9, <1>10, <1>11, <1>12 DEF Keeps

LEMMA KeepsTrans ==
  ASSUME NEW b, NEW c, NEW d, Keeps(b, c), Keeps(c, d)
  PROVE  Keeps(b, d)
  BY DEF Keeps

-----------------------------------------------------------------------------
(* The steps of the broker, for these clients. *)

\* The orders that new has and old has not are of symbols on which old has no
\* position.
NewElsewhere(old, new) ==
  \A r \in new.orders \ old.orders, p \in old.positions : p.symbol # r.symbol

\* From old to new there is one such step, or, when a position was replaced, its
\* exit, which leaves no order behind, and then one such step.
Orderly(old, new) ==
  IF Replaces(old, new)
  THEN NoOrphans(Between(old, new)) /\ NewElsewhere(Between(old, new), new)
  ELSE NewElsewhere(old, new)

Advances ==
  /\ Mirror(Book)'
  /\ Clean(Book) => Clean(Book)' /\ Orderly(db, db')
  /\ "reset" \notin ClientOps /\ Exact(Book) => Exact(Book)'

LEMMA FewerOrderly ==
  ASSUME NEW old, NEW new,
         new.orders \subseteq old.orders, new.positions \subseteq old.positions
  PROVE  Orderly(old, new)
  BY DEF Orderly, NewElsewhere, Replaces, Added

LEMMA BookAdvances ==
  ASSUME NEW c, Becomes(c), Keeps(Book, c), Clean(Book) => Orderly(db, c.db)
  PROVE  Advances
  BY DEF Advances, Becomes, Keeps, Mirror, Clean, Exact, Book

LEMMA StillAdvances ==
  ASSUME Mirror(Book), UNCHANGED <<positions, orders, nextOrderID, acct, db>>
  PROVE  Advances
<1>1. Orderly(db, db')
  BY FewerOrderly
<1> QED BY <1>1 DEF Advances, Mirror, Clean, Exact, Book

LEMMA EntryAdvances ==
  ASSUME TypeOK, Mirror(Book), ClientOps \subseteq Plain, Entry
  PROVE  Advances
<1>1. ~Calls("reduce") /\ ~Calls("limit")
  BY DEF Calls, Plain
<1>2. PICK s \in Symbols, side \in {"BUY", "SELL"}, qty \in Qtys, sl \in Prices :
        \/ RejectMarket(s, side, qty, sl)
        \/ \E tp \in Targets \cup {None} : PlaceMarket(s, side, qty, sl, tp)
  <2>1. \A s, side, qty : ~RejectReduce(s, side, qty) /\ ~ReduceOnly(s, side, qty)
    BY <1>1 DEF RejectReduce, ReduceOnly
  <2>2. \A s, side, qty, x, sl, tp : ~PlaceLimit(s, side, qty, x, sl, tp)
    BY <1>1 DEF PlaceLimit
  <2> QED BY <2>1, <2>2 DEF Entry
<1> DEFINE b == Numbered(Book)
           fill == MarketFill(s, side)
           posSide == PositionSide(side)
<1>3. /\ Book \in BookType /\ b \in BookType /\ Keeps(Book, b) /\ Mirror(b)
      /\ b.positions = positions /\ b.db = db
  <2>1. Book \in BookType /\ b \in BookType
    BY BookTyped, NumberedType
  <2>2. Keeps(Book, b)
    BY <2>1, CountedKeeps
  <2>3. b.positions = positions /\ b.db = db
    BY DEF Numbered, Book
  <2> QED BY <2>1, <2>2, <2>3 DEF Keeps
<1>4. posSide \in {"LONG", "SHORT"} /\ TakerFee \in Nat
  BY BrokerAssumption DEF PositionSide
<1>5. CASE RejectMarket(s, side, qty, sl)
  <2>1. Orderly(db, b.db)
    BY <1>3, FewerOrderly
  <2> QED BY <1>3, <1>5, <2>1, BookAdvances DEF RejectMarket
<1>6. ASSUME NEW tp \in Targets \cup {None}, PlaceMarket(s, side, qty, sl, tp)
      PROVE  Advances
  <2> DEFINE Enter(c) == Opened(Filled(c), s, posSide, qty, fill, sl, tp, TakerFee)
  <2>1. /\ fill \in Nat /\ fill \in Int /\ qty \in Nat /\ sl \in Nat /\ tp \in Nat
    BY <1>6, MarketFillType, PricesType, BrokerAssumption
    DEF PlaceMarket, MarketRefused
  <2>2. \/ (\A p \in positions : p.symbol # s) /\ Becomes(Enter(b))
        \/ \E p \in positions : p.symbol = s /\ Becomes(Enter(Closed(b, p, fill, FALSE)))
    BY <1>6 DEF PlaceMarket
  <2> HIDE DEF b, fill, posSide
  <2>3. ASSUME NEW c \in BookType, Mirror(c),
               \A p \in c.positions : p.symbol # s
        PROVE  /\ Keeps(c, Enter(c))
               /\ \E q : /\ Enter(c).db.positions = c.db.positions \cup {q}
                         /\ q.id = c.db.nextPosRow
               /\ c.db.orders \subseteq Enter(c).db.orders
               /\ \A o \in Enter(c).db.orders \ c.db.orders :
                    o.symbol = s /\ o.id >= c.db.nextOrderRow
    <3> DEFINE f == Filled(c)
               g == Enter(c)
    <3>1. /\ f \in BookType /\ Keeps(c, f) /\ f.positions = c.positions
          /\ f.db.orders = c.db.orders /\ f.db.positions = c.db.positions
          /\ f.db.nextPosRow = c.db.nextPosRow /\ f.db.nextOrderRow # 0
          /\ c.db.nextOrderRow \in Nat /\ f.db.nextOrderRow = c.db.nextOrderRow + 1
      <4>1. f.db.nextOrderRow = c.db.nextOrderRow + 1 /\ c.db.nextOrderRow \in Nat
        BY DEF Filled, InsertSettled, BookType, Tables
      <4>2. f \in BookType
        BY FilledType
      <4>3. /\ Keeps(c, f) /\ f.positions = c.positions
            /\ f.db.orders = c.db.orders /\ f.db.positions = c.db.positions
            /\ f.db.nextPosRow = c.db.nextPosRow
        BY <2>3, CountedKeeps
      <4> HIDE DEF f
      <4> QED BY <4>1, <4>2, <4>3
    <3> HIDE DEF f
    <3>2. EnteredOn(f, Opened(f, s, posSide, qty, fill, sl, tp, TakerFee),
                    s, posSide, fill, sl)
      BY <1>4, <2>1, <3>1, OpenedWrites
    <3>3. g = Opened(f, s, posSide, qty, fill, sl, tp, TakerFee)
      BY DEF f
    <3> HIDE DEF g
    <3>4. PICK q : q.symbol = s /\ Entered(f, g, q)
      BY <3>2, <3>3 DEF EnteredOn
    <3>5. Mirror(f) /\ \A p \in f.positions : p.symbol # q.symbol
      BY <2>3, <3>1, <3>4 DEF Keeps
    <3>6. /\ Keeps(f, g) /\ g.db.positions = f.db.positions \cup {q}
          /\ q.id = f.db.nextPosRow
          /\ f.db.orders \subseteq g.db.orders
          /\ \A o \in g.db.orders \ f.db.orders :
               o.symbol = q.symbol /\ o.id >= f.db.nextOrderRow
      BY <3>1, <3>4, <3>5, EnteredKeeps
    <3>7. /\ Keeps(c, g) /\ g.db.positions = c.db.positions \cup {q}
          /\ q.id = c.db.nextPosRow
          /\ c.db.orders \subseteq g.db.orders
          /\ \A o \in g.db.orders \ c.db.orders : o.symbol = s
      BY <3>1, <3>4, <3>6, KeepsTrans
    <3>8. \A o \in g.db.orders \ c.db.orders : o.id >= c.db.nextOrderRow
      <4>1. g \in BookType
        BY <1>4, <2>1, <3>1, <3>3, OpenedType
      <4>2. \A o \in g.db.orders : o.id \in Nat
        BY <4>1, BookNumbers
      <4> QED BY <3>1, <3>6, <4>2
    <3> QED BY <3>7, <3>8 DEF g
  <2> HIDE DEF Enter
  <2>4. positions = db.positions /\ Book.db = db
    BY DEF Mirror, Book
  <2>5. ASSUME \A p \in positions : p.symbol # s, Becomes(Enter(b))
        PROVE  Advances
    <3>1. /\ Keeps(b, Enter(b))
          /\ db.positions \subseteq Enter(b).db.positions
          /\ \A o \in Enter(b).db.orders \ b.db.orders : o.symbol = s
      BY <1>3, <2>3, <2>5
    <3>2. Orderly(db, Enter(b).db)
      <4>1. ~Replaces(db, Enter(b).db)
        BY <3>1 DEF Replaces, Removed
      <4>2. NewElsewhere(db, Enter(b).db)
        BY <1>3, <2>4, <2>5, <3>1 DEF NewElsewhere
      <4> QED BY <4>1, <4>2 DEF Orderly
    <3>3. Keeps(Book, Enter(b))
      BY <1>3, <3>1, KeepsTrans
    <3> QED BY <2>5, <3>2, <3>3, BookAdvances
  <2>6. ASSUME NEW p \in positions, p.symbol = s,
               Becomes(Enter(Closed(b, p, fill, FALSE)))
        PROVE  Advances
    <3> DEFINE c == Closed(b, p, fill, FALSE)
    <3>1. p \in Position /\ p \in b.positions
      BY <1>3 DEF TypeOK
    <3>2. /\ c \in BookType /\ Keeps(b, c)
          /\ c.positions = {q \in b.positions : q.symbol # p.symbol}
          /\ c.db.positions = {q \in b.db.positions : q.id # p.id}
          /\ c.db.nextPosRow = b.db.nextPosRow
          /\ c.db.orders \subseteq b.db.orders
          /\ c.db.nextOrderRow \in {b.db.nextOrderRow, b.db.nextOrderRow + 1}
      <4>1. c \in BookType
        BY <1>3, <2>1, <3>1, ClosedType
      <4>2. Keeps(b, c)
        BY <1>3, <3>1, ClosedKeeps
      <4>3. ClosedTo(b, p, FALSE, c)
        BY <1>3, ClosedWrites
      <4> HIDE DEF c
      <4> QED BY <4>1, <4>2, <4>3 DEF ClosedTo
    <3>3. Becomes(Enter(c))
      BY <2>6
    <3> HIDE DEF c
    <3>4. Mirror(c) /\ \A q \in c.positions : q.symbol # s
      BY <2>6, <3>2 DEF Keeps
    <3>5. Keeps(c, Enter(c))
      BY <2>3, <3>2, <3>4
    <3>6. PICK q : /\ Enter(c).db.positions = c.db.positions \cup {q}
                   /\ q.id = c.db.nextPosRow
      BY <2>3, <3>2, <3>4
    <3>7. \A r \in db.positions : r.id \in Nat /\ r.id < db.nextPosRow
      BY <1>3, BookNumbers DEF Mirror, Legible, Numbers
    <3>8. c.db.orders \subseteq Enter(c).db.orders
          /\ \A o \in Enter(c).db.orders \ c.db.orders :
               o.symbol = s /\ o.id >= c.db.nextOrderRow
      BY <2>3, <3>2, <3>4
    <3>9. db.positions \ Removed(db, Enter(c).db) = c.db.positions
      BY <1>3, <3>2, <3>6, <3>7 DEF Removed
    <3>10. db.orders \cap Enter(c).db.orders = c.db.orders
      <4>1. /\ db.nextOrderRow \in Nat
            /\ \A o \in db.orders : o.id \in Nat /\ o.id < db.nextOrderRow
        BY <1>3, BookNumbers DEF Mirror, Legible, Numbers
      <4>2. c.db.orders \subseteq db.orders /\ c.db.nextOrderRow >= db.nextOrderRow
        BY <1>3, <3>2, <4>1
      <4>3. c.db.nextOrderRow \in Nat
        BY <3>2, BookNumbers
      <4> QED BY <3>8, <4>1, <4>2, <4>3
    <3>12. /\ Between(db, Enter(c).db).orders = c.db.orders
           /\ Between(db, Enter(c).db).positions = c.db.positions
      BY <3>9, <3>10 DEF Between
    <3>13. ASSUME Clean(Book) PROVE Orderly(db, Enter(c).db)
      <4>1. NoOrphans(c.db)
        BY <1>3, <3>2, <3>13 DEF Keeps, Clean
      <4>2. NoOrphans(Between(db, Enter(c).db))
        BY <3>12, <4>1 DEF NoOrphans
      <4>3. \A r \in c.db.positions : r.symbol # s
        BY <3>4 DEF Mirror
      <4>4. NewElsewhere(Between(db, Enter(c).db), Enter(c).db)
        BY <3>8, <3>12, <4>3 DEF NewElsewhere
      <4>5. Replaces(db, Enter(c).db)
        <5>1. q \in Added(db, Enter(c).db)
          BY <1>3, <3>2, <3>6, <3>7 DEF Added
        <5>2. p \in Removed(db, Enter(c).db)
          BY <1>3, <2>4, <3>2, <3>6, <3>7 DEF Removed
        <5> QED BY <5>1, <5>2 DEF Replaces
      <4> QED BY <4>2, <4>4, <4>5 DEF Orderly
    <3>11. Keeps(Book, Enter(c))
      BY <1>3, <3>2, <3>5, KeepsTrans
    <3> QED BY <3>3, <3>11, <3>13, BookAdvances
  <2> QED BY <2>2, <2>5, <2>6
<1> QED BY <1>2, <1>5, <1>6

LEMMA ExitAdvances ==
  ASSUME TypeOK, Mirror(Book), ClientOps \subseteq Plain, lock # Emergency, Exit
  PROVE  Advances
<1>1. ~Calls("cancel") /\ ~Calls("emergency")
  BY DEF Calls, Plain
<1>2. PICK p \in positions : ClosePosition(p)
  BY <1>1 DEF Exit, CancelOrder, EmergencyCloseAll, EmergencyClose
<1> DEFINE c == Closed(Book, p, prices[p.symbol], FALSE)
<1>3. Book \in BookType /\ Book.positions = positions /\ Book.db = db
  BY BookTyped DEF Book
<1>4. Keeps(Book, c)
  BY <1>3, ClosedKeeps
<1>5. ClosedTo(Book, p, FALSE, c)
  BY <1>3, ClosedWrites
<1>6. Becomes(c)
  BY <1>2 DEF ClosePosition
<1> HIDE DEF c
<1>7. Orderly(db, c.db)
  BY <1>3, <1>5, FewerOrderly DEF ClosedTo
<1> QED BY <1>4, <1>6, <1>7, BookAdvances

LEMMA TickAdvances ==
  ASSUME TypeOK, Mirror(Book), Tick
  PROVE  Advances
<1>1. /\ Book \in BookType /\ Book.db = db
      /\ Book.orders = orders /\ Book.positions = positions
  BY BookTyped DEF Book
<1>2. ASSUME UNCHANGED <<positions, orders, nextOrderID, acct, db>>
      PROVE  Advances
  BY <1>2, StillAdvances
<1>3. CASE Becomes(Book)
  BY <1>2, <1>3 DEF Becomes, Book
<1>4. ASSUME NEW s \in Symbols, NEW x \in Prices, UpdatePrice(s, x)
      PROVE  Advances
  <2>1. x \in Int
    BY BrokerAssumption
  <2>2. ASSUME NEW o \in orders, NEW p \in positions, o.symbol = p.symbol,
               Becomes(Triggered(Book, o, p, x))
        PROVE  Advances
    <3> DEFINE c == Triggered(Book, o, p, x)
    <3>1. /\ Keeps(Book, c) /\ c.db.orders \subseteq Book.db.orders
          /\ c.db.positions \subseteq Book.db.positions
      BY <1>1, <2>1, <2>2, TriggeredKeeps
    <3>2. Becomes(c)
      BY <2>2
    <3> HIDE DEF c
    <3>3. Orderly(db, c.db)
      BY <1>1, <3>1, FewerOrderly
    <3> QED BY <3>1, <3>2, <3>3, BookAdvances
  <2> QED BY <1>3, <1>4, <2>2 DEF UpdatePrice
<1>5. \A o \in orders : ~FillLimit(o)
  BY <1>1 DEF FillLimit, Reached, Mirror, Legible
<1>6. CASE FinishCandle
  <2> DEFINE stops == Crossed("STOP_MARKET")
             hit   == IF stops # {} THEN stops ELSE Crossed("TAKE_PROFIT_MARKET")
             held  == {p \in positions : p.symbol = lock.symbol}
  <2>1. hit \subseteq orders /\ \A o \in hit : o.symbol = lock.symbol
    BY DEF Crossed
  <2>2. \/ /\ hit = {} \/ held = {}
           /\ Becomes([Book EXCEPT !.orders = @ \ hit])
        \/ \E o \in hit, p \in held :
             Becomes([Triggered(Book, o, p, o.price) EXCEPT !.orders = @ \ hit])
    BY <1>6 DEF FinishCandle
  <2>3. \A p \in positions : p \in held <=> p.symbol = lock.symbol
    OBVIOUS
  <2>4. held \subseteq positions
    OBVIOUS
  <2> HIDE DEF stops, hit, held
  <2>5. ASSUME hit = {} \/ held = {}, Becomes([Book EXCEPT !.orders = @ \ hit])
        PROVE  Advances
    <3> DEFINE S == orders \ hit
               c == [Book EXCEPT !.orders = S]
    <3>1. S \in SUBSET Book.orders
      BY <1>1
    <3>2. Clean(Book) => S = Book.orders
      BY <1>1, <2>1, <2>3, <2>5 DEF Clean, NoOrphans, Owned, Mirror
    <3>3. Becomes(c)
      BY <1>1, <2>5
    <3> HIDE DEF S
    <3>4. Keeps(Book, c)
      BY <1>1, <3>1, <3>2, DroppedKeeps
    <3>5. c.db = db
      BY DEF Book
    <3> HIDE DEF c
    <3>6. Orderly(db, c.db)
      BY <3>5, FewerOrderly
    <3> QED BY <3>3, <3>4, <3>6, BookAdvances
  <2>6. ASSUME NEW o \in hit, NEW p \in held,
               Becomes([Triggered(Book, o, p, o.price) EXCEPT !.orders = @ \ hit])
        PROVE  Advances
    <3> DEFINE c == Triggered(Book, o, p, o.price)
               S == c.orders \ hit
               e == [c EXCEPT !.orders = S]
    <3>1. /\ o \in Book.orders /\ p \in Book.positions /\ o.price \in Int
          /\ o.symbol = p.symbol /\ p.symbol = lock.symbol
      BY <1>1, <2>1, <2>3, <2>4 DEF TypeOK, Order
    <3>2. /\ c \in BookType /\ Keeps(Book, c)
          /\ c.db.orders \subseteq Book.db.orders
          /\ c.db.positions \subseteq Book.db.positions
          /\ Clean(Book) => \A r \in c.orders : r.symbol # p.symbol
      BY <1>1, <3>1, TriggeredKeeps
    <3>3. Becomes(e)
      BY <2>6
    <3> HIDE DEF c
    <3>4. Mirror(c) /\ S \in SUBSET c.orders
      BY <3>2 DEF Keeps
    <3>5. Clean(Book) => S = c.orders
      BY <2>1, <3>1, <3>2
    <3>6. e.db = c.db /\ e.acct = c.acct /\ e.positions = c.positions
          /\ e.nextOrderID = c.nextOrderID /\ e.orders = S
      BY <3>2 DEF BookType
    <3> HIDE DEF S, e
    <3>7. Keeps(Book, e)
      <4>1. Mirror(e)
        BY <3>4, <3>6 DEF Mirror
      <4>2. Clean(Book) => Clean(e)
        BY <3>2, <3>5, <3>6 DEF Keeps, Clean
      <4>3. Exact(Book) => Exact(e)
        BY <3>2, <3>6 DEF Keeps, Exact
      <4> QED BY <4>1, <4>2, <4>3 DEF Keeps
    <3>8. Orderly(db, e.db)
      BY <1>1, <3>2, <3>6, FewerOrderly
    <3> QED BY <3>3, <3>7, <3>8, BookAdvances
  <2> QED BY <2>2, <2>5, <2>6
<1> QED BY <1>2, <1>4, <1>5, <1>6 DEF Tick, SetSymbolPrice, ProcessCandle

LEMMA NextAdvances ==
  ASSUME TypeOK, Mirror(Book), ClientOps \subseteq Plain, lock # Emergency,
         caller = Idle, Next
  PROVE  Advances
<1>1. ~Protect
  <2>1. ~Calls("setProtective")
    BY DEF Calls, Plain
  <2> QED BY <2>1 DEF Protect, BeginProtect, PlaceStop, PlaceTarget, Link
<1>2. CASE SetHalted
  BY <1>2, StillAdvances DEF SetHalted
<1>3. CASE ResetDailyLoss
  <2>1. "reset" \in ClientOps
    BY <1>3 DEF ResetDailyLoss, Calls
  <2>2. UNCHANGED <<positions, orders, nextOrderID, db>>
    BY <1>3 DEF ResetDailyLoss
  <2>3. Orderly(db, db')
    BY <2>2, FewerOrderly
  <2> QED BY <2>1, <2>2, <2>3 DEF Advances, Mirror, Clean, Book
<1> QED BY <1>1, <1>2, <1>3, EntryAdvances, ExitAdvances, TickAdvances DEF Next

-----------------------------------------------------------------------------
(* The steps of a recovery, for these clients.                              *)

\* hasOpenStopOrderLocked is right on the tables d: where it finds a stop order
\* of a position's symbol, there is one of that position.
StopsAreOwn(d) ==
  \A p \in d.positions, o \in d.orders :
    o.type = "STOP_MARKET" /\ o.symbol = p.symbol => GuardedBy(d.orders, p)

\* The inductive invariant. With at most one torn handler the tables mirror the
\* book, and Rehydrate is right about the stops it finds; with none, the tables
\* are the book, and so they were before the last handler: this is what makes
\* the first torn one recoverable.
KeptInv ==
  /\ fresh /\ torn <= 1 =>
       /\ Mirror(Book) /\ caller = Idle /\ lock # Emergency
       /\ lock.op # "repair" => AllGuarded(positions, orders)
       /\ lock.op = "repair" =>
            /\ orders = db.orders /\ StopsAreOwn(db)
            /\ \A p \in positions : p.symbol \notin lock.symbols => GuardedBy(orders, p)
  /\ fresh /\ torn = 0 =>
       /\ Clean(Book) /\ AllGuarded(positions, orders)
       /\ Legible(before) /\ NoOrphans(before) /\ Orderly(before, db)
       /\ "reset" \notin ClientOps => Exact(Book)

LEMMA NoEmergency ==
  ASSUME Next, lock # Emergency, ClientOps \subseteq Plain
  PROVE  lock' # Emergency
<1>1. ~Calls("emergency")
  BY DEF Calls, Plain
<1>2. CASE lock' = lock \/ lock' = Free
  BY <1>2, LocksDiffer
<1>3. CASE Entry
  <2>1. \A s, side, qty : RejectReduce(s, side, qty) \/ ReduceOnly(s, side, qty) => lock' = lock
    BY DEF RejectReduce, ReduceOnly
  <2>2. \A s, side, qty, sl : RejectMarket(s, side, qty, sl) => lock' = lock
    BY DEF RejectMarket
  <2>3. \A s, side, qty, sl, tp : PlaceMarket(s, side, qty, sl, tp) => lock' = lock
    BY DEF PlaceMarket
  <2>4. \A s, side, qty, x, sl, tp : PlaceLimit(s, side, qty, x, sl, tp) => lock' = lock
    BY DEF PlaceLimit
  <2> QED BY <1>2, <1>3, <2>1, <2>2, <2>3, <2>4 DEF Entry
<1>4. CASE Exit
  BY <1>1, <1>2, <1>4 DEF Exit, CancelOrder, ClosePosition, EmergencyClose, EmergencyCloseAll
<1>5. CASE Tick
  <2>1. ASSUME NEW s, NEW low, NEW high, NEW close, ProcessCandle(s, low, high, close)
        PROVE  lock' # Emergency
    BY <2>1 DEF ProcessCandle, Emergency
  <2> QED BY <1>2, <1>5, <2>1 DEF Tick, SetSymbolPrice, UpdatePrice, FillLimit, FinishCandle
<1>6. CASE Protect
  BY <1>2, <1>6 DEF Protect, BeginProtect, PlaceStop, PlaceTarget, PlaceExit, Link
<1>7. CASE SetHalted \/ ResetDailyLoss
  BY <1>2, <1>7 DEF SetHalted, ResetDailyLoss
<1> QED BY <1>3, <1>4, <1>5, <1>6, <1>7 DEF Next

LEMMA NextKept ==
  ASSUME RecoveryInv, KeptInv, ClientOps \subseteq Plain,
         Next, before' = db, UNCHANGED <<restarts, torn, fresh, refused>>
  PROVE  KeptInv'
<1> SUFFICES ASSUME fresh, torn <= 1 PROVE KeptInv'
  <2>1. torn \in Nat
    BY RecoveryAssumption DEF RecoveryInv, RecoveryTypeOK
  <2>2. torn = 0 => torn <= 1
    BY <2>1
  <2> QED BY <2>2 DEF KeptInv
<1>1. lock.op # "repair" /\ lock # Emergency /\ caller = Idle /\ Mirror(Book)
      /\ AllGuarded(positions, orders)
  BY RepairIsAlone DEF KeptInv
<1>2. TypeOK
  BY <1>1, RecoveryTyped
<1>3. TypeOK' /\ lock' # Emergency
  BY <1>1, <1>2, NextType, NoEmergency
<1>4. lock'.op # "repair"
  <2>1. lock' \in {Free, Emergency} \cup Candle
    BY <1>3 DEF TypeOK
  <2> QED BY <2>1, LocksDiffer
<1>5. Advances
  BY <1>1, <1>2, NextAdvances
<1>6. GuardInv
  <2>1. Sound(orders, nextOrderID)
    BY <1>1 DEF Mirror, Legible, Book, Sound
  <2> QED BY <1>1, <2>1 DEF GuardInv
<1>7. ClientOps \cap Bystanders = {}
  BY DEF Plain, Bystanders
<1>8. GuardInv'
  BY <1>2, <1>6, <1>7, NextGuarded
<1>9. AllGuarded(positions, orders)' /\ caller' = Idle
  BY <1>3, <1>8 DEF GuardInv
<1>10. Mirror(Book)'
  BY <1>5 DEF Advances
<1>11. ASSUME torn = 0
       PROVE  /\ Clean(Book)' /\ Legible(before)' /\ NoOrphans(before)'
              /\ Orderly(before', db')
              /\ "reset" \notin ClientOps => Exact(Book)'
  <2>1. Clean(Book) /\ ("reset" \notin ClientOps => Exact(Book))
    BY <1>11 DEF KeptInv
  <2>2. Legible(db) /\ NoOrphans(db)
    BY <1>1, <2>1 DEF Mirror, Clean, Book
  <2>3. Legible(before)' /\ NoOrphans(before)'
    BY <2>2 DEF Legible, NoOrphans, Numbers, OneEach
  <2> QED BY <1>5, <2>1, <2>3 DEF Advances
<1> QED BY <1>3, <1>4, <1>9, <1>10, <1>11 DEF KeptInv

\* What a start makes of legible tables.
LEMMA Restarted ==
  ASSUME RecoveryInv, "reduce" \notin ClientOps, NEW d \in Tables,
         VettedTables(d), Legible(d), RestartOn(d)
  PROVE  /\ fresh' => fresh /\ Mirror(Book)'
         /\ positions' = d.positions /\ orders' = d.orders
         /\ db' = d /\ before' = d /\ caller' = Idle
         /\ acct' = [d.account EXCEPT !.usedMargin = Reserved(d.positions)]
         /\ lock' = Repair({p.symbol : p \in d.positions})
<1>1. Load(d) /\ db' = d /\ before' = d /\ caller' = Idle
  BY DEF RestartOn, VettedTables
<1>2. positions' = d.positions
  BY <1>1, TablesNumbers DEF Load, LoadedPositions, Legible, OneEach
<1>3. orders' = d.orders
  BY <1>1, TablesNumbers DEF Load, LoadedOrders, Legible
<1>4. /\ acct' = [d.account EXCEPT !.usedMargin = MapThenSumSet(Margin, d.positions)]
      /\ lock' = Repair({p.symbol : p \in positions'})
      /\ fresh' => fresh /\ \A o \in orders' : o.key < nextOrderID'
  BY <1>1 DEF Load
<1>5. fresh' => Mirror(Book)'
  BY <1>1, <1>2, <1>3, <1>4 DEF Mirror, Legible, Book, Numbers, OneEach
<1> QED BY <1>1, <1>2, <1>3, <1>4, <1>5 DEF Reserved

\* If hasOpenStopOrderLocked is right on the tables, the repair may begin.
LEMMA StartKept ==
  ASSUME RecoveryInv, "reduce" \notin ClientOps, NEW d \in Tables,
         VettedTables(d), Legible(d), StopsAreOwn(d), RestartOn(d), fresh'
  PROVE  /\ Mirror(Book)' /\ caller' = Idle /\ lock' # Emergency
         /\ lock'.op # "repair" => AllGuarded(positions, orders)'
         /\ lock'.op = "repair" =>
              /\ orders' = db'.orders /\ StopsAreOwn(db)'
              /\ \A p \in positions' : p.symbol \notin lock'.symbols => GuardedBy(orders', p)
<1> DEFINE S == {p.symbol : p \in d.positions}
<1>1. /\ positions' = d.positions /\ orders' = d.orders /\ db' = d /\ caller' = Idle
      /\ lock' = Repair(S) /\ Mirror(Book)'
  BY Restarted
<1>2. \A p \in positions' : p.symbol \in S
  BY <1>1
<1>3. CASE S = {}
  <2>1. lock' = Free /\ positions' = {}
    BY <1>1, <1>2, <1>3 DEF Repair
  <2> QED BY <1>1, <2>1, LocksDiffer DEF AllGuarded
<1>4. CASE S # {}
  <2>1. lock' = [op |-> "repair", symbols |-> S]
    BY <1>1, <1>4 DEF Repair
  <2>2. StopsAreOwn(db)'
    BY <1>1 DEF StopsAreOwn, GuardedBy
  <2> HIDE DEF S
  <2>3. lock'.op = "repair" /\ lock'.symbols = S /\ lock' # Emergency
    BY <2>1 DEF Emergency
  <2> QED BY <1>1, <1>2, <2>2, <2>3
<1> QED BY <1>3, <1>4

\* The stops of tables that nothing is orphaned in are those of the positions.
LEMMA NoOrphansOwn ==
  ASSUME NEW d, Legible(d), NoOrphans(d)
  PROVE  StopsAreOwn(d)
<1> SUFFICES ASSUME NEW p \in d.positions, NEW o \in d.orders,
                    o.type = "STOP_MARKET", o.symbol = p.symbol
             PROVE  GuardedBy(d.orders, p)
  BY DEF StopsAreOwn
<1>1. PICK q \in d.positions : Owned(o, q)
  BY DEF NoOrphans
<1>2. q = p
  BY <1>1 DEF Owned, Legible, OneEach
<1> QED BY <1>1, <1>2 DEF Owned, GuardedBy

\* A start on the tables of no torn handler changes nothing.
LEMMA CleanRestartSame ==
  ASSUME RecoveryInv, KeptInv, ClientOps \subseteq Plain, Restart, fresh, torn = 0
  PROVE  /\ positions' = positions /\ orders' = orders
         /\ "reset" \notin ClientOps => acct' = acct
<1>1. RestartOn(db) /\ "reduce" \notin ClientOps
  BY DEF Restart, Plain
<1>2. /\ Legible(db) /\ db.positions = positions /\ orders = db.orders
      /\ "reset" \notin ClientOps => Exact(Book)
  BY DEF KeptInv, Mirror, Clean, Book
<1>3. db \in Tables /\ VettedTables(db)
  BY RecoveryTyped DEF RecoveryInv, RecoveryTypeOK
<1>4. /\ positions' = db.positions /\ orders' = db.orders
      /\ acct' = [db.account EXCEPT !.usedMargin = Reserved(db.positions)]
  BY <1>1, <1>2, <1>3, Restarted
<1>5. ASSUME "reset" \notin ClientOps PROVE acct' = acct
  <2>1. db.account = acct /\ acct.usedMargin = Reserved(positions)
    BY <1>2, <1>5 DEF Exact, Book
  <2>2. acct' = [acct EXCEPT !.usedMargin = acct.usedMargin]
    BY <1>2, <1>4, <2>1
  <2> QED BY <2>2 DEF RecoveryInv, RecoveryTypeOK, Account
<1> QED BY <1>2, <1>4, <1>5

LEMMA CleanRestartKept ==
  ASSUME RecoveryInv, KeptInv, ClientOps \subseteq Plain, Restart
  PROVE  KeptInv'
<1>1. RestartOn(db) /\ torn' = torn /\ "reduce" \notin ClientOps
  BY DEF Restart, Plain
<1>2. torn \in Nat
  BY RecoveryAssumption DEF RecoveryInv, RecoveryTypeOK
<1>3. CASE ~(fresh' /\ torn <= 1)
  <2>1. ~(fresh' /\ torn = 0)
    BY <1>2, <1>3
  <2> QED BY <1>1, <1>3, <2>1 DEF KeptInv
<1>4. CASE fresh' /\ torn <= 1
  <2>1. fresh
    BY <1>1, <1>4 DEF RestartOn, Load, Refuse
  <2>2. /\ Mirror(Book) /\ Legible(db) /\ db.positions = positions
        /\ orders \subseteq db.orders
    BY <1>4, <2>1 DEF KeptInv, Mirror, Book
  <2>3. db \in Tables /\ VettedTables(db)
    BY RecoveryTyped DEF RecoveryInv, RecoveryTypeOK
  <2>4. StopsAreOwn(db)
    <3>1. CASE lock.op = "repair"
      BY <1>4, <2>1, <3>1 DEF KeptInv
    <3>2. CASE lock.op # "repair"
      <4>1. AllGuarded(positions, orders)
        BY <1>4, <2>1, <3>2 DEF KeptInv
      <4> QED BY <2>2, <4>1 DEF AllGuarded, GuardedBy, StopsAreOwn
    <3> QED BY <3>1, <3>2
  <2>5. /\ positions' = db.positions /\ orders' = db.orders /\ db' = db /\ before' = db
        /\ acct' = [db.account EXCEPT !.usedMargin = Reserved(db.positions)]
    BY <1>1, <1>4, <2>2, <2>3, Restarted
  <2>6. /\ Mirror(Book)' /\ caller' = Idle /\ lock' # Emergency
        /\ lock'.op # "repair" => AllGuarded(positions, orders)'
        /\ lock'.op = "repair" =>
              /\ orders' = db'.orders /\ StopsAreOwn(db)'
              /\ \A p \in positions' : p.symbol \notin lock'.symbols => GuardedBy(orders', p)
    BY <1>1, <1>4, <2>2, <2>3, <2>4, StartKept
  <2>7. ASSUME torn = 0
        PROVE  /\ Clean(Book)' /\ AllGuarded(positions, orders)'
               /\ Legible(before)' /\ NoOrphans(before)' /\ Orderly(before', db')
               /\ "reset" \notin ClientOps => Exact(Book)'
    <3>1. /\ Clean(Book) /\ AllGuarded(positions, orders)
          /\ "reset" \notin ClientOps => Exact(Book)
      BY <2>1, <2>7 DEF KeptInv
    <3>2. orders = db.orders /\ NoOrphans(db)
      BY <3>1 DEF Clean, Book
    <3>3. /\ positions' = positions /\ orders' = orders
          /\ "reset" \notin ClientOps => acct' = acct
      BY <2>1, <2>7, CleanRestartSame
    <3>4. ASSUME "reset" \notin ClientOps PROVE Exact(Book)'
      BY <2>5, <3>1, <3>3, <3>4 DEF Exact, Book
    <3>5. Orderly(before', db')
      BY <2>5, FewerOrderly
    <3>6. Legible(before)' /\ NoOrphans(before)'
      BY <2>2, <2>5, <3>2 DEF Legible, NoOrphans, Numbers, OneEach
    <3>7. Clean(Book)' /\ AllGuarded(positions, orders)'
      BY <2>5, <3>1, <3>2, <3>3 DEF Clean, NoOrphans, Book, AllGuarded, GuardedBy
    <3> QED BY <3>4, <3>5, <3>6, <3>7
  <2> QED BY <1>1, <2>6, <2>7 DEF KeptInv
<1> QED BY <1>3, <1>4

\* The tables a torn handler leaves behind, when the handlers before it were not.
LEMMA PartlyLegible ==
  ASSUME NEW old \in Tables, NEW new \in Tables, NEW d \in SomeWrites(old, new),
         Legible(old), Legible(new)
  PROVE  Legible(d)
<1>1. old.nextOrderRow \in Nat /\ new.nextOrderRow \in Nat
  BY DEF Tables
<1>2. CASE /\ d.orders \subseteq old.orders /\ d.positions = old.positions
           /\ d.nextOrderRow = old.nextOrderRow /\ d.nextPosRow = old.nextPosRow
  BY <1>2 DEF Legible, Numbers
<1>3. CASE /\ d.nextOrderRow \in old.nextOrderRow .. new.nextOrderRow
           /\ d.orders = {r \in new.orders : r.id < d.nextOrderRow}
           /\ d.positions = old.positions /\ d.nextPosRow = old.nextPosRow
  <2>1. d.nextOrderRow # 0
    BY <1>1, <1>3 DEF Legible
  <2>2. Numbers(d)
    BY <1>3 DEF Legible, Numbers
  <2> QED BY <1>3, <2>1, <2>2 DEF Legible
<1>4. CASE /\ d.orders = new.orders /\ d.positions = new.positions
           /\ d.nextOrderRow = new.nextOrderRow /\ d.nextPosRow = new.nextPosRow
  BY <1>4 DEF Legible, Numbers
<1> QED BY <1>2, <1>3, <1>4, PartlyWritten

LEMMA PartlyOwn ==
  ASSUME NEW old \in Tables, NEW new \in Tables, NEW d \in SomeWrites(old, new),
         Legible(old), Legible(new), NoOrphans(old), NoOrphans(new),
         NewElsewhere(old, new)
  PROVE  StopsAreOwn(d)
<1> SUFFICES ASSUME NEW p \in d.positions, NEW o \in d.orders,
                    o.type = "STOP_MARKET", o.symbol = p.symbol
             PROVE  GuardedBy(d.orders, p)
  BY DEF StopsAreOwn
<1>1. ASSUME o \in old.orders, p \in old.positions PROVE GuardedBy(d.orders, p)
  <2>1. PICK q \in old.positions : Owned(o, q)
    BY <1>1 DEF NoOrphans
  <2>2. q = p
    BY <1>1, <2>1 DEF Owned, Legible, OneEach
  <2> QED BY <2>1, <2>2 DEF Owned, GuardedBy
<1>2. ASSUME o \in new.orders, p \in old.positions PROVE o \in old.orders
  BY <1>2 DEF NewElsewhere
<1>3. ASSUME d.orders = new.orders, d.positions = new.positions
      PROVE  GuardedBy(d.orders, p)
  BY <1>3, NoOrphansOwn DEF StopsAreOwn
<1> QED BY <1>1, <1>2, <1>3, PartlyWritten

LEMMA TornOwn ==
  ASSUME NEW old \in Tables, NEW new \in Tables, NEW d \in PartialWrites(old, new),
         Legible(old), Legible(new), NoOrphans(old), NoOrphans(new), Orderly(old, new)
  PROVE  Legible(d) /\ StopsAreOwn(d)
<1>1. CASE ~Replaces(old, new)
  BY <1>1, TornWrites, PartlyLegible, PartlyOwn DEF Orderly
<1>2. CASE Replaces(old, new)
  <2> DEFINE mid == Between(old, new)
  <2>1. /\ mid \in Tables
        /\ mid.orders \subseteq old.orders /\ mid.positions \subseteq old.positions
        /\ mid.nextOrderRow = old.nextOrderRow + 1 /\ mid.nextPosRow = old.nextPosRow
    BY <1>2, BetweenWrites
  <2>2. \/ d = mid \/ d \in SomeWrites(old, mid) \/ d \in SomeWrites(mid, new)
    BY <1>2, TornWrites
  <2>3. NoOrphans(mid) /\ NewElsewhere(mid, new)
    BY <1>2 DEF Orderly
  <2> HIDE DEF mid
  <2>4. Legible(mid)
    <3>1. IsFiniteSet(mid.positions)
      BY <2>1, FS_Subset DEF Legible
    <3>2. \A o \in mid.orders : o.id < mid.nextOrderRow
      BY <2>1, TablesNumbers DEF Legible, Numbers
    <3>3. mid.nextOrderRow # 0
      BY <2>1, TablesNumbers
    <3>4. Numbers(mid)
      BY <2>1, <3>2 DEF Legible, Numbers
    <3> QED BY <2>1, <3>1, <3>3, <3>4 DEF Legible, OneEach
  <2>5. NewElsewhere(old, mid)
    BY <2>1 DEF NewElsewhere
  <2>6. CASE d = mid
    BY <2>3, <2>4, <2>6, NoOrphansOwn
  <2>7. CASE d \in SomeWrites(old, mid)
    BY <2>1, <2>3, <2>4, <2>5, <2>7, PartlyLegible, PartlyOwn
  <2>8. CASE d \in SomeWrites(mid, new)
    BY <2>1, <2>3, <2>4, <2>8, PartlyLegible, PartlyOwn
  <2> QED BY <2>2, <2>6, <2>7, <2>8
<1> QED BY <1>1, <1>2

\* After the first torn handler the repair may begin: a stop that the tables
\* hold is the stop of the position of its symbol.
LEMMA TornRestartKept ==
  ASSUME RecoveryInv, KeptInv, ClientOps \subseteq Plain, TornRestart
  PROVE  KeptInv'
<1>1. torn \in Nat /\ torn' = torn + 1 /\ "reduce" \notin ClientOps
  BY RecoveryAssumption DEF RecoveryInv, RecoveryTypeOK, TornRestart, Plain
<1>2. PICK d \in PartialWrites(before, db) : RestartOn(d)
  BY DEF TornRestart
<1>3. CASE ~(fresh' /\ torn' <= 1)
  BY <1>1, <1>3 DEF KeptInv
<1>4. CASE fresh' /\ torn' <= 1
  <2>1. fresh /\ torn = 0
    <3>1. fresh
      BY <1>2, <1>4 DEF RestartOn, Load, Refuse
    <3>2. torn = 0
      BY <1>1, <1>4
    <3> QED BY <3>1, <3>2
  <2>2. /\ Legible(before) /\ NoOrphans(before) /\ Orderly(before, db)
        /\ Legible(db) /\ NoOrphans(db)
    BY <2>1 DEF KeptInv, Mirror, Clean, Book
  <2>3. /\ before \in Tables /\ db \in Tables
        /\ VettedTables(before) /\ VettedTables(db)
    BY RecoveryTyped DEF RecoveryInv, RecoveryTypeOK
  <2>4. d \in Tables /\ VettedTables(d)
    BY <2>3, TornVetted
  <2>5. Legible(d) /\ StopsAreOwn(d)
    BY <2>2, <2>3, TornOwn
  <2>6. /\ Mirror(Book)' /\ caller' = Idle /\ lock' # Emergency
        /\ lock'.op # "repair" => AllGuarded(positions, orders)'
        /\ lock'.op = "repair" =>
              /\ orders' = db'.orders /\ StopsAreOwn(db)'
              /\ \A p \in positions' : p.symbol \notin lock'.symbols => GuardedBy(orders', p)
    BY <1>1, <1>2, <1>4, <2>4, <2>5, StartKept
  <2>7. torn' # 0
    BY <1>1
  <2> QED BY <2>6, <2>7 DEF KeptInv
<1> QED BY <1>3, <1>4

\* The repair gives p a stop of its own where it had none.
LEMMA RepairedKeeps ==
  ASSUME NEW b \in BookType, Mirror(b), b.orders = b.db.orders, StopsAreOwn(b.db),
         NEW p \in b.positions, p.sl # None
  PROVE  LET c == Repaired(b, p)
         IN  /\ Mirror(c) /\ c.orders = c.db.orders /\ StopsAreOwn(c.db)
             /\ \A r \in c.positions :
                  \/ r.symbol = p.symbol /\ GuardedBy(c.orders, r)
                  \/ /\ r \in b.positions /\ r.symbol # p.symbol
                     /\ GuardedBy(b.orders, r) => GuardedBy(c.orders, r)
<1> DEFINE c == Repaired(b, p)
<1>1. Legible(b.db) /\ b.positions = b.db.positions
  BY DEF Mirror
<1>2. Rows(b.db)
  BY <1>1 DEF Legible, Numbers, Rows
<1>3. PICK q, new, n :
        /\ q \in Position
        /\ Protects(b, new, n, q)
        /\ q.id = p.id /\ q.symbol = p.symbol /\ q.sl = p.sl
        /\ c.positions = (b.positions \ {p}) \cup {q}
        /\ c.orders = Put(b.orders, new) /\ c.nextOrderID = b.nextOrderID + n
        /\ c.db = UpdatePosition(InsertOrders(b.db, new, n), q)
  <2>1. LET e == Repaired(b, p)
        IN  \E q, new, n :
               /\ q \in Position
               /\ e \in BookType
               /\ Protects(b, new, n, q)
               /\ q.id = p.id /\ q.symbol = p.symbol /\ q.side = p.side
               /\ q.entry = p.entry /\ q.size = p.size /\ q.sl = p.sl
               /\ e.positions = (b.positions \ {p}) \cup {q}
               /\ e.orders = Put(b.orders, new) /\ e.nextOrderID = b.nextOrderID + n
               /\ e.acct = b.acct
               /\ e.db = UpdatePosition(InsertOrders(b.db, new, n), q)
    BY <1>2, RepairedWrites
  <2> QED BY <2>1
<1> HIDE DEF c
<1>4. /\ n \in {0, 1, 2} /\ new \in SUBSET Order
      /\ \A o \in new :
           /\ o.id >= b.db.nextOrderRow /\ o.id < b.db.nextOrderRow + n
           /\ o.key >= b.nextOrderID /\ o.key < b.nextOrderID + n
           /\ o.symbol = q.symbol /\ o.type # "LIMIT"
      /\ \A o, r \in new : o.id = r.id => o = r
      /\ \A o, r \in new : o.key = r.key => o = r
      /\ GuardedBy(new, q)
  BY <1>3 DEF Protects
<1>5. \A o \in new : o.id \in Nat /\ o.key \in Nat
  BY <1>4 DEF Order
<1>6. /\ c.db.orders = b.db.orders \cup new
      /\ c.db.nextOrderRow = b.db.nextOrderRow + n
      /\ c.db.nextPosRow = b.db.nextPosRow
      /\ c.db.positions = {IF r.id = q.id THEN q ELSE r : r \in b.db.positions}
  BY <1>3, BookNumbers DEF UpdatePosition, InsertOrders, Tables
<1>7. c.db.positions = c.positions
  BY <1>1, <1>3, <1>6 DEF Legible, Numbers
<1>8. \A o \in b.orders : o.key < b.nextOrderID /\ o.key \in Nat
  BY BookNumbers DEF Mirror
<1>9. c.orders = b.orders \cup new
  <2>1. \A o \in b.orders, r \in new : r.key # o.key
    BY <1>4, <1>5, <1>8, BookNumbers
  <2> QED BY <1>3, <2>1 DEF Put
<1>10. \A r \in c.positions : r = q \/ (r \in b.positions /\ r.symbol # q.symbol)
  BY <1>1, <1>3 DEF Legible, OneEach
<1>11. Legible(c.db)
  <2>1. IsFiniteSet(c.db.positions)
    <3>1. IsFiniteSet(b.positions \ {p})
      BY <1>1, FS_Subset DEF Legible
    <3> QED BY <1>3, <1>7, <3>1, FS_AddElement
  <2>2. OneEach(c.db.positions)
    BY <1>1, <1>3, <1>7 DEF Legible, OneEach
  <2>3. \A o, r \in c.db.orders : o.key = r.key => o = r
    BY <1>1, <1>4, <1>5, <1>6, <1>8, BookNumbers DEF Legible
  <2>4. \A o \in c.db.orders : o.type # "LIMIT"
    BY <1>1, <1>4, <1>6 DEF Legible
  <2>5. Numbers(c.db)
    <3>1. \A o \in c.db.orders : o.id < c.db.nextOrderRow
      BY <1>1, <1>4, <1>6, BookNumbers DEF Legible, Numbers
    <3>2. \A o, r \in c.db.orders : o.id = r.id => o = r
      BY <1>1, <1>4, <1>5, <1>6, BookNumbers DEF Legible, Numbers
    <3>3. \A r \in c.db.positions : r.id < c.db.nextPosRow
      BY <1>1, <1>3, <1>6, <1>7 DEF Legible, Numbers
    <3>4. \A r, s \in c.db.positions : r.id = s.id => r = s
      BY <1>1, <1>3, <1>7 DEF Legible, Numbers
    <3> QED BY <3>1, <3>2, <3>3, <3>4 DEF Numbers
  <2>6. c.db.nextOrderRow # 0
    BY <1>1, <1>4, <1>6, BookNumbers DEF Legible
  <2> QED BY <2>1, <2>2, <2>3, <2>4, <2>5, <2>6 DEF Legible
<1>12. \A o \in c.db.orders : o.key < c.nextOrderID
  BY <1>3, <1>4, <1>6, <1>8, BookNumbers
<1>13. Mirror(c) /\ c.orders = c.db.orders
  BY <1>6, <1>7, <1>9, <1>11, <1>12 DEF Mirror
<1>14. StopsAreOwn(c.db)
  <2> SUFFICES ASSUME NEW r \in c.positions, NEW o \in c.orders,
                      o.type = "STOP_MARKET", o.symbol = r.symbol
               PROVE  GuardedBy(c.orders, r)
    BY <1>7, <1>13 DEF StopsAreOwn
  <2>1. CASE r = q
    BY <1>4, <1>9, <2>1 DEF GuardedBy
  <2>2. CASE r \in b.positions /\ r.symbol # q.symbol
    <3>1. o \in b.db.orders /\ r \in b.db.positions
      BY <1>1, <1>4, <1>9, <2>2
    <3>2. GuardedBy(b.orders, r)
      BY <3>1 DEF StopsAreOwn
    <3> QED BY <1>9, <3>2 DEF GuardedBy
  <2> QED BY <1>10, <2>1, <2>2
<1>15. ASSUME NEW r \in c.positions
       PROVE  \/ r.symbol = p.symbol /\ GuardedBy(c.orders, r)
              \/ /\ r \in b.positions /\ r.symbol # p.symbol
                 /\ GuardedBy(b.orders, r) => GuardedBy(c.orders, r)
  BY <1>3, <1>4, <1>9, <1>10 DEF GuardedBy
<1> QED BY <1>13, <1>14, <1>15 DEF c

LEMMA RepairKept ==
  ASSUME RecoveryInv, KeptInv, ClientOps \subseteq Plain,
         NEW p \in positions, RepairStop(p)
  PROVE  KeptInv'
<1>1. /\ lock.op = "repair" /\ lock' = Repair(lock.symbols \ {p.symbol})
      /\ before' = db /\ caller' = caller /\ torn' = torn /\ fresh' = fresh
      /\ IF HasOpenStop(p.symbol) THEN Becomes(Book) ELSE Becomes(Repaired(Book, p))
  BY DEF RepairStop
<1>2. torn \in Nat /\ "reduce" \notin ClientOps
  BY RecoveryAssumption DEF RecoveryInv, RecoveryTypeOK, Plain
<1>3. CASE ~(fresh /\ torn <= 1)
  <2>1. ~(fresh' /\ torn' <= 1) /\ ~(fresh' /\ torn' = 0)
    BY <1>1, <1>2, <1>3
  <2> QED BY <2>1 DEF KeptInv
<1>4. CASE fresh /\ torn <= 1
  <2>1. /\ Mirror(Book) /\ caller = Idle /\ orders = db.orders /\ StopsAreOwn(db)
        /\ \A r \in positions : r.symbol \notin lock.symbols => GuardedBy(orders, r)
    BY <1>1, <1>4 DEF KeptInv
  <2>2. /\ Legible(db) /\ positions = db.positions
    BY <2>1 DEF Mirror, Book
  <2>3. ASSUME HasOpenStop(p.symbol)
        PROVE  /\ Mirror(Book)' /\ orders' = db'.orders /\ StopsAreOwn(db)'
               /\ \A r \in positions' :
                    r.symbol \notin lock.symbols \ {p.symbol} => GuardedBy(orders', r)
               /\ UNCHANGED <<positions, orders, acct, db>>
    <3>1. UNCHANGED <<positions, orders, nextOrderID, acct, db>>
      BY <1>1, <2>3 DEF Becomes, Book
    <3>2. Mirror(Book)'
      BY <2>1, <3>1 DEF Mirror, Legible, Book, Numbers, OneEach
    <3>3. StopsAreOwn(db)'
      BY <2>1, <3>1 DEF StopsAreOwn, GuardedBy
    <3>4. GuardedBy(orders, p)
      BY <2>1, <2>2, <2>3 DEF HasOpenStop, StopsAreOwn
    <3>5. \A r \in positions : r.symbol = p.symbol => r = p
      BY <2>2 DEF Legible, OneEach
    <3> QED BY <2>1, <3>1, <3>2, <3>3, <3>4, <3>5
  <2>4. ASSUME ~HasOpenStop(p.symbol)
        PROVE  /\ Mirror(Book)' /\ orders' = db'.orders /\ StopsAreOwn(db)'
               /\ \A r \in positions' :
                    r.symbol \notin lock.symbols \ {p.symbol} => GuardedBy(orders', r)
    <3> DEFINE c == Repaired(Book, p)
    <3>1. p.sl # None
      BY <1>2 DEF RecoveryInv, VetInv, Vetted, Stopped, Book, Invalid
    <3>2. Book \in BookType /\ p \in Book.positions /\ Book.orders = Book.db.orders
          /\ StopsAreOwn(Book.db)
      BY <2>1, RecoveryTyped DEF Book
    <3>3. /\ Mirror(c) /\ c.orders = c.db.orders /\ StopsAreOwn(c.db)
          /\ \A r \in c.positions :
               \/ r.symbol = p.symbol /\ GuardedBy(c.orders, r)
               \/ /\ r \in Book.positions /\ r.symbol # p.symbol
                  /\ GuardedBy(Book.orders, r) => GuardedBy(c.orders, r)
      BY <2>1, <3>1, <3>2, RepairedKeeps
    <3>4. Becomes(c)
      BY <1>1, <2>4
    <3> HIDE DEF c
    <3>5. /\ positions' = c.positions /\ orders' = c.orders /\ db' = c.db
          /\ nextOrderID' = c.nextOrderID
      BY <3>4 DEF Becomes
    <3>6. Mirror(Book)'
      BY <3>3, <3>5 DEF Mirror, Legible, Book, Numbers, OneEach
    <3>7. StopsAreOwn(db)'
      BY <3>3, <3>5 DEF StopsAreOwn, GuardedBy
    <3>8. ASSUME NEW r \in positions', r.symbol \notin lock.symbols \ {p.symbol}
          PROVE  GuardedBy(orders', r)
      BY <2>1, <3>3, <3>5, <3>8 DEF Book
    <3> QED BY <3>3, <3>5, <3>6, <3>7, <3>8
  <2>5. /\ Mirror(Book)' /\ orders' = db'.orders /\ StopsAreOwn(db)'
        /\ \A r \in positions' :
             r.symbol \notin lock.symbols \ {p.symbol} => GuardedBy(orders', r)
    BY <2>3, <2>4
  <2>6. /\ lock' # Emergency
        /\ lock'.op # "repair" => lock.symbols \ {p.symbol} = {}
        /\ lock'.op = "repair" => lock'.symbols = lock.symbols \ {p.symbol}
    BY <1>1 DEF Repair, Free, Emergency
  <2>7. lock'.op # "repair" => AllGuarded(positions, orders)'
    BY <2>5, <2>6 DEF AllGuarded
  <2>8. ASSUME torn = 0
        PROVE  /\ Clean(Book)' /\ AllGuarded(positions, orders)'
               /\ Legible(before)' /\ NoOrphans(before)' /\ Orderly(before', db')
               /\ "reset" \notin ClientOps => Exact(Book)'
    <3>1. /\ Clean(Book) /\ AllGuarded(positions, orders)
          /\ "reset" \notin ClientOps => Exact(Book)
      BY <1>4, <2>8 DEF KeptInv
    <3>2. HasOpenStop(p.symbol)
      BY <3>1 DEF AllGuarded, GuardedBy, HasOpenStop
    <3>3. UNCHANGED <<positions, orders, acct, db>>
      BY <2>3, <3>2
    <3>4. Orderly(before', db')
      BY <1>1, <3>3, FewerOrderly
    <3>5. NoOrphans(db)
      BY <3>1 DEF Clean, Book
    <3>6. Legible(before)' /\ NoOrphans(before)'
      BY <1>1, <2>2, <3>5 DEF Legible, NoOrphans, Numbers, OneEach
    <3>7. Clean(Book)' /\ AllGuarded(positions, orders)'
      BY <3>1, <3>3 DEF Clean, NoOrphans, Book, AllGuarded, GuardedBy
    <3>8. "reset" \notin ClientOps => Exact(Book)'
      BY <3>1, <3>3 DEF Exact, Book
    <3> QED BY <3>4, <3>6, <3>7, <3>8
  <2> QED BY <1>1, <1>2, <2>1, <2>5, <2>6, <2>7, <2>8 DEF KeptInv
<1> QED BY <1>3, <1>4

LEMMA KeptInit == RecoveryInit => KeptInv
<1> SUFFICES ASSUME RecoveryInit PROVE KeptInv
  OBVIOUS
<1>1. /\ positions = {} /\ orders = {} /\ nextOrderID = 1 /\ lock = Free /\ caller = Idle
      /\ before = db /\ acct.usedMargin = 0
      /\ db.positions = {} /\ db.orders = {} /\ db.nextOrderRow = 1 /\ db.account = acct
  BY DEF RecoveryInit, Init
<1>2. Legible(db) /\ NoOrphans(db) /\ Orderly(db, db)
  BY <1>1, FewerOrderly, FS_EmptySet DEF Legible, NoOrphans, OneEach, Numbers
<1>3. Mirror(Book) /\ Clean(Book) /\ AllGuarded(positions, orders)
  BY <1>1, <1>2 DEF Mirror, Clean, Book, AllGuarded
<1>4. Exact(Book)
  <2>1. Reserved({}) = 0
    BY FS_EmptySet, ReservedAdds
  <2> QED BY <1>1, <2>1 DEF Exact, Book
<1>5. lock # Emergency /\ lock.op # "repair"
  BY <1>1, LocksDiffer
<1> QED BY <1>1, <1>2, <1>3, <1>4, <1>5 DEF KeptInv

LEMMA KeptHolds ==
  ASSUME ClientOps \subseteq Plain
  PROVE  RecoverySpec => [](RecoveryInv /\ KeptInv)
<1>1. ASSUME RecoveryInv, KeptInv, [RecoveryNext]_allVars PROVE KeptInv'
  <2>1. CASE UNCHANGED allVars
    BY <1>1, <2>1 DEF allVars, vars, KeptInv, Mirror, Clean, Exact, Legible, NoOrphans,
       StopsAreOwn, Book, AllGuarded, GuardedBy, Numbers, OneEach
  <2> QED BY <1>1, <2>1, NextKept, CleanRestartKept, TornRestartKept, RepairKept
             DEF RecoveryNext
<1> QED BY <1>1, KeptInit, RecoveryInvHolds, PTL DEF RecoverySpec

\* Rehydrate "repairs the missing protective order before accepting new
\* entries": whether the process died between two handlers or between two writes
\* of one, a replacement's exit and entry included, nobody finds the broker
\* running with a position whose own stop is not live. For clients that place
\* market entries, close, halt and reset; with one torn handler at most, and
\* while no order was loaded under a name yet to be given.
THEOREM StopsOutliveRestarts ==
  ASSUME ClientOps \subseteq Plain
  PROVE  RecoverySpec => []StopSurvivesRestart
<1>1. RecoveryInv /\ KeptInv => StopSurvivesRestart
  <2> SUFFICES ASSUME KeptInv, fresh, torn <= 1, lock = Free, NEW p \in positions
               PROVE  Guarded(p)
    BY DEF StopSurvivesRestart
  <2>1. lock.op # "repair"
    BY LocksDiffer
  <2>2. AllGuarded(positions, orders)
    BY <2>1 DEF KeptInv
  <2> QED BY <2>2 DEF AllGuarded, GuardedBy, Guarded
<1> QED BY <1>1, KeptHolds, PTL

\* A restart between two calls is invisible, while no order was loaded under a
\* name yet to be given: after any sequence of market entries, closes, halts, ticks
\* and candles, what every handler left in memory is what
\* its writes left in the tables and what Rehydrate reads back from them.
THEOREM CleanRestartInvisible ==
  ASSUME ClientOps \subseteq Plain \ {"reset"}
  PROVE  RecoverySpec => CleanRestart
<1> DEFINE Same == /\ positions' = positions /\ orders' = orders /\ acct' = acct
<1>1. ASSUME RecoveryInv, KeptInv, [RecoveryNext]_allVars,
             fresh, restarts' # restarts, torn' = 0
      PROVE  Same
  <2>1. ClientOps \subseteq Plain /\ "reset" \notin ClientOps
    OBVIOUS
  <2>2. CASE Restart
    <3>1. torn = 0
      BY <1>1, <2>2 DEF Restart
    <3> QED BY <1>1, <2>1, <2>2, <3>1, CleanRestartSame
  <2>3. ~TornRestart
    BY <1>1, RecoveryAssumption DEF TornRestart, RecoveryInv, RecoveryTypeOK
  <2> QED BY <1>1, <2>2, <2>3 DEF RecoveryNext, RepairStop, allVars
<1>2. RecoverySpec => [](RecoveryInv /\ KeptInv)
  <2>1. ClientOps \subseteq Plain
    OBVIOUS
  <2> QED BY <2>1, KeptHolds
<1> QED BY <1>1, <1>2, PTL DEF RecoverySpec, CleanRestart
====
