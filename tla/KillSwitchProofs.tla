-------------------------- MODULE KillSwitchProofs --------------------------
(***************************************************************************)
(* The position monitor over PaperBroker, for every value of the           *)
(* constants: the account is flat after the kill switch, and what is       *)
(* proved of the broker alone holds while the monitor drives it.           *)
(***************************************************************************)
EXTENDS KillSwitch, PaperBrokerProofs

(* What the monitor and the broker's clients do to the broker is a step of  *)
(* the broker, or one of the two that only the monitor takes.               *)
HaltOnly ==
  /\ halted' = TRUE
  /\ UNCHANGED <<positions, orders, nextOrderID, acct, prices, marks, lock,
                 caller, db>>

LEMMA MonitorStep ==
  ASSUME [MonitorNext]_allVars
  PROVE  [Next]_vars \/ HaltOnly \/ DropAllOrders
<1>1. CASE Client \/ Holder
  BY <1>1 DEF Client, Holder, Next, Exit, Tick
<1>2. CASE Monitor
  <2>1. ASSUME NEW s \in Symbols, NEW x \in Prices, Update(s, x)
        PROVE  Next
    BY <2>1 DEF Update, Next, Tick
  <2>2. ASSUME NEW s \in Symbols, NEW x \in Prices, Ticked(s, x)
        PROVE  Next
    BY <2>1, <2>2 DEF Ticked
  <2>3. ASSUME NEW s \in Symbols, VisitWithPrice(s)
        PROVE  Next
    BY <2>1, <2>3 DEF VisitWithPrice
  <2>4. ASSUME NEW s \in Symbols, VisitWithCandle(s)
        PROVE  Next
    BY <2>4 DEF VisitWithCandle, Next, Tick
  <2> QED BY <1>2, <2>2, <2>3, <2>4 DEF Monitor, CheckKillSwitch, HaltBroker, CloseAll,
             CheckAllPositions, Skip, HaltOnly
<1>3. CASE UNCHANGED allVars
  BY <1>3 DEF allVars
<1> QED BY <1>1, <1>2, <1>3 DEF MonitorNext
-----------------------------------------------------------------------------
LEMMA MonitorInitType == MonitorInit => MonitorTypeOK
  BY InitType DEF MonitorInit, MonitorTypeOK

LEMMA MonitorNextType == MonitorTypeOK /\ [MonitorNext]_allVars => MonitorTypeOK'
<1> SUFFICES ASSUME MonitorTypeOK, [MonitorNext]_allVars PROVE MonitorTypeOK'
  OBVIOUS
<1>1. TypeOK'
  <2>1. TypeOK
    BY DEF MonitorTypeOK
  <2>2. CASE [Next]_vars
    BY <2>1, <2>2, NextType
  <2>3. CASE HaltOnly
    BY <2>1, <2>3 DEF HaltOnly, TypeOK
  <2>4. CASE DropAllOrders
    BY <2>1, <2>4 DEF DropAllOrders, TypeOK
  <2> QED BY <2>2, <2>3, <2>4, MonitorStep
<1>2. step' \in {"idle", "check", "halt", "close"} /\ todo' \subseteq Symbols
  <2>1. CASE Monitor
    <3>1. \A p \in positions : p.symbol \in Symbols
      BY DEF MonitorTypeOK, TypeOK, Position
    <3> QED BY <2>1, <3>1 DEF Monitor, CheckKillSwitch, HaltBroker, CloseAll, Ticked,
               Update, CheckAllPositions, VisitWithCandle, VisitWithPrice, Skip,
               MonitorTypeOK
  <2> QED BY <2>1 DEF MonitorNext, allVars, MonitorTypeOK
<1> QED BY <1>1, <1>2 DEF MonitorTypeOK

\* The broker's state and the monitor's stay well typed.
THEOREM MonitorTypeCorrect == MonitorSpec => []MonitorTypeOK
<1> QED BY MonitorInitType, MonitorNextType, PTL DEF MonitorSpec

-----------------------------------------------------------------------------
(* The kill switch. *)

\* The inductive invariant. Once the broker is halted and EmergencyCloseAll has
\* been called, nothing pending is an entry, and positions are only left while
\* that call still holds the mutex. Between halt and close nothing is promised:
\* a limit order may still fill there.
KillInv ==
  halted /\ step # "close" =>
    /\ \A o \in orders : o.type # "LIMIT"
    /\ positions # {} => lock = Emergency

\* No entry gets through while the mutex is held, or into a halted broker.
LEMMA NoEntry ==
  ASSUME \/ lock # Free
         \/ halted /\ "reduce" \notin ClientOps
  PROVE  ~Entry
<1> SUFFICES ASSUME Entry PROVE FALSE
  OBVIOUS
<1>1. PICK s \in Symbols, side \in {"BUY", "SELL"} :
        \/ \E qty \in Reductions : RejectReduce(s, side, qty) \/ ReduceOnly(s, side, qty)
        \/ \E qty \in Qtys, sl \in Prices :
             \/ RejectMarket(s, side, qty, sl)
             \/ \E tp \in Targets \cup {None} :
                  \/ PlaceMarket(s, side, qty, sl, tp)
                  \/ \E x \in Prices : PlaceLimit(s, side, qty, x, sl, tp)
  BY DEF Entry
<1>2. ~Calls("reduce")
  BY DEF Calls
<1>3. ~(Calls("market") /\ MayEnter) /\ ~(Calls("limit") /\ MayEnter)
  BY DEF Calls, MayEnter
<1>4. \A qty \in Reductions : ~RejectReduce(s, side, qty) /\ ~ReduceOnly(s, side, qty)
  BY <1>2 DEF RejectReduce, ReduceOnly
<1>5. \A qty \in Qtys, sl \in Prices : ~RejectMarket(s, side, qty, sl)
  BY <1>3 DEF RejectMarket
<1>6. \A qty \in Qtys, sl \in Prices, tp \in Targets \cup {None} :
        ~PlaceMarket(s, side, qty, sl, tp)
  BY <1>3 DEF PlaceMarket
<1>7. \A qty \in Qtys, sl \in Prices, tp \in Targets \cup {None}, x \in Prices :
        ~PlaceLimit(s, side, qty, x, sl, tp)
  BY <1>3 DEF PlaceLimit
<1> QED BY <1>1, <1>4, <1>5, <1>6, <1>7, Zenon

\* A halted broker with nothing to close and no entry pending opens nothing.
LEMMA NothingOpens ==
  ASSUME halted, \A o \in orders : o.type # "LIMIT", positions = {},
         "reduce" \notin ClientOps, Client \/ Holder \/ Tick
  PROVE  /\ halted' /\ positions' = {}
         /\ orders' \subseteq orders
<1>1. ~Entry
  BY NoEntry
<1>2. ASSUME NEW o \in orders, CancelOrder(o)
      PROVE  halted' /\ positions' = {} /\ orders' \subseteq orders
  BY <1>2 DEF CancelOrder, Becomes, Book, Without
<1>3. ASSUME NEW s \in Symbols, NEW x \in Prices, SetSymbolPrice(s, x) \/ UpdatePrice(s, x)
      PROVE  halted' /\ positions' = {} /\ orders' \subseteq orders
  BY <1>3 DEF SetSymbolPrice, UpdatePrice, Becomes, Book
<1>4. CASE ResetDailyLoss
  BY <1>4 DEF ResetDailyLoss
<1>5. ASSUME NEW s \in Symbols, NEW low \in Prices, NEW high \in Prices,
             NEW close \in Prices, ProcessCandle(s, low, high, close)
      PROVE  halted' /\ positions' = {} /\ orders' \subseteq orders
  BY <1>5 DEF ProcessCandle
<1>6. ASSUME NEW o \in orders
      PROVE  ~FillLimit(o)
  BY DEF FillLimit, Reached
<1>7. CASE FinishCandle
  <2> DEFINE stops == Crossed("STOP_MARKET")
             hit   == IF stops # {} THEN stops ELSE Crossed("TAKE_PROFIT_MARKET")
  <2>1. Becomes([Book EXCEPT !.orders = @ \ hit]) /\ halted' = halted
    BY <1>7 DEF FinishCandle
  <2> HIDE DEF hit
  <2> QED BY <2>1 DEF Becomes, Book
<1> QED BY <1>1, <1>2, <1>3, <1>4, <1>5, <1>6, <1>7 DEF Client, Holder, Tick

\* EmergencyCloseAll's own steps close positions until none is left.
LEMMA EmergencyGoesOn ==
  ASSUME halted, \A o \in orders : o.type # "LIMIT", lock = Emergency,
         Client \/ Holder \/ Tick
  PROVE  /\ halted' /\ orders' \subseteq orders
         /\ positions' # {} => lock' = Emergency
<1>1. lock # Free /\ lock \notin Candle
  BY DEF Free, Emergency, Candle
<1>2. ~(Client \/ Tick)
  <2>1. ~Entry
    BY <1>1, NoEntry
  <2>2. ~Client
    BY <1>1, <2>1 DEF Client, CancelOrder, ClosePosition, SetSymbolPrice,
                      ResetDailyLoss, Calls
  <2>3. ~Tick
    BY <1>1 DEF Tick, SetSymbolPrice, UpdatePrice, ProcessCandle, FillLimit,
                FinishCandle
  <2> QED BY <2>2, <2>3
<1>3. ASSUME NEW p \in positions, EmergencyClose(p)
      PROVE  halted' /\ orders' \subseteq orders /\ (positions' # {} => lock' = Emergency)
  <2>1. halted' = halted /\ lock' = IF positions' = {} THEN Free ELSE Emergency
    BY <1>3 DEF EmergencyClose
  <2>2. orders' \subseteq orders
    BY <1>3 DEF EmergencyClose, Becomes, Closed, Book, Siblings
  <2> QED BY <2>1, <2>2
<1> QED BY <1>2, <1>3 DEF Holder, Tick

LEMMA KillStep ==
  ASSUME KillInv, [MonitorNext]_allVars, "reduce" \notin ClientOps
  PROVE  KillInv'
\* A step of the monitor that leaves the broker alone.
<1>1. CASE CheckKillSwitch \/ CheckAllPositions \/ (\E s \in Symbols : Skip(s))
           \/ UNCHANGED allVars
  BY <1>1 DEF CheckKillSwitch, CheckAllPositions, Skip, allVars, vars, KillInv
<1>2. CASE HaltBroker
  BY <1>2 DEF HaltBroker, KillInv
<1>3. CASE CloseAll
  BY <1>3 DEF CloseAll, DropAllOrders, KillInv
<1>4. ASSUME Client \/ Holder \/ Tick,
             step # "close", step' # "close"
      PROVE  KillInv'
  <2>1. CASE ~halted
    <3>1. halted' = halted
      <4>1. Entry => halted' = halted
        <5>1. \A s, side, qty : RejectReduce(s, side, qty) \/ ReduceOnly(s, side, qty) => halted' = halted
          BY DEF RejectReduce, ReduceOnly
        <5>2. \A s, side, qty, sl : RejectMarket(s, side, qty, sl) => halted' = halted
          BY DEF RejectMarket
        <5>3. \A s, side, qty, sl, tp : PlaceMarket(s, side, qty, sl, tp) => halted' = halted
          BY DEF PlaceMarket
        <5>4. \A s, side, qty, x, sl, tp : PlaceLimit(s, side, qty, x, sl, tp) => halted' = halted
          BY DEF PlaceLimit
        <5> QED BY <5>1, <5>2, <5>3, <5>4 DEF Entry
      <4>2. Client => halted' = halted
        BY <4>1 DEF Client, CancelOrder, ClosePosition, SetSymbolPrice, ResetDailyLoss
      <4>3. Holder \/ Tick => halted' = halted
        BY DEF Holder, Tick, SetSymbolPrice, UpdatePrice, ProcessCandle, FillLimit,
               FinishCandle, EmergencyClose
      <4> QED BY <1>4, <4>2, <4>3
    <3> QED BY <2>1, <3>1 DEF KillInv
  <2>2. CASE halted /\ positions = {}
    <3>1. /\ halted' /\ positions' = {} /\ orders' \subseteq orders
      BY <1>4, <2>2, NothingOpens DEF KillInv
    <3> QED BY <1>4, <2>2, <3>1 DEF KillInv
  <2>3. CASE halted /\ positions # {}
    <3>1. /\ orders' \subseteq orders
          /\ positions' # {} => lock' = Emergency
      BY <1>4, <2>3, EmergencyGoesOn DEF KillInv
    <3> QED BY <1>4, <2>3, <3>1 DEF KillInv
  <2> QED BY <2>1, <2>2, <2>3
<1>5. ASSUME NEW s \in Symbols,
             \/ \E x \in Prices : Ticked(s, x)
             \/ VisitWithCandle(s) \/ VisitWithPrice(s)
      PROVE  KillInv'
  <2>1. Tick /\ step # "close" /\ step' # "close"
    BY <1>5 DEF Ticked, VisitWithCandle, VisitWithPrice, Update, Tick
  <2> QED BY <1>4, <2>1
\* A client or the holder of the mutex, between the monitor's calls.
<1>6. ASSUME Client \/ Holder, UNCHANGED <<step, todo>>
      PROVE  KillInv'
  <2>1. CASE step = "close"
    BY <1>6, <2>1 DEF KillInv
  <2> QED BY <1>4, <1>6, <2>1
<1> QED BY <1>1, <1>2, <1>3, <1>5, <1>6 DEF MonitorNext, Monitor

\* "Daily loss limit breached ... All positions closed, new entries halted": once
\* the kill switch has run there is no position and no pending entry, whatever
\* clients, candles and ticks came before, between and after its calls. Without
\* the assumption a reduce-only order opens a position in a halted broker.
THEOREM FlatOnceKilled ==
  ASSUME "reduce" \notin ClientOps
  PROVE  MonitorSpec => []FlatAfterKill
<1>1. MonitorInit => KillInv
  BY DEF MonitorInit, Init, KillInv
<1>2. KillInv /\ [MonitorNext]_allVars => KillInv'
  BY KillStep
<1>3. KillInv => FlatAfterKill
  BY DEF KillInv, FlatAfterKill, Free, Emergency
<1> QED BY <1>1, <1>2, <1>3, PTL DEF MonitorSpec

-----------------------------------------------------------------------------
(* The guarantees of the broker under the monitor. *)

\* No position without its stop, monitor included: the assumption is that of
\* AlwaysGuarded.
THEOREM GuardedUnderMonitor ==
  ASSUME ClientOps \cap Bystanders = {}
  PROVE  MonitorSpec => []NoNakedPosition
<1>1. MonitorInit => GuardInv
  BY DEF MonitorInit, Init, GuardInv, Sound, AllGuarded
<1>2. MonitorTypeOK /\ GuardInv /\ [MonitorNext]_allVars => GuardInv'
  <2> SUFFICES ASSUME MonitorTypeOK, GuardInv, [MonitorNext]_allVars
               PROVE  GuardInv'
    OBVIOUS
  <2>1. CASE [Next]_vars
    BY <2>1, NextGuarded DEF MonitorTypeOK
  <2>2. CASE HaltOnly
    BY <2>2 DEF HaltOnly, GuardInv
  <2>3. CASE DropAllOrders
    BY <2>3 DEF DropAllOrders, GuardInv, Sound, AllGuarded
  <2> QED BY <2>1, <2>2, <2>3, MonitorStep
<1>3. GuardInv => NoNakedPosition
  BY DEF GuardInv, AllGuarded, GuardedBy, NoNakedPosition, Guarded
<1> QED BY <1>1, <1>2, <1>3, MonitorTypeCorrect, PTL DEF MonitorSpec

\* The same with the monitor's goroutine, at every step of a halt and an emergency
\* close: whatever the broker knows has its row.
THEOREM SavedUnderMonitor ==
  ASSUME ClientOps \cap NotSaved = {}
  PROVE  MonitorSpec => []NothingForgotten
<1>1. MonitorInit => SavedInv
  BY InitSaved DEF MonitorInit
<1>2. MonitorTypeOK /\ SavedInv /\ [MonitorNext]_allVars => SavedInv'
  <2> SUFFICES ASSUME MonitorTypeOK, SavedInv, [MonitorNext]_allVars
               PROVE  SavedInv'
    OBVIOUS
  <2>1. CASE [Next]_vars
    BY <2>1, NextSaved DEF MonitorTypeOK
  <2>2. CASE HaltOnly
    BY <2>2 DEF HaltOnly, SavedInv
  <2>3. CASE DropAllOrders
    BY <2>3 DEF DropAllOrders, SavedInv
  <2> QED BY <2>1, <2>2, <2>3, MonitorStep
<1>3. SavedInv => NothingForgotten
  BY DEF SavedInv, NothingForgotten
<1> QED BY <1>1, <1>2, <1>3, MonitorTypeCorrect, PTL DEF MonitorSpec
=============================================================================
