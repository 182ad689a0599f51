--------------------------- MODULE BrokerRecovery ---------------------------
(***************************************************************************)
(* PaperBroker across crashes: the process dies, a new one starts with an  *)
(* empty book and Rehydrate rebuilds it from the tables before anything    *)
(* else may call the broker.                                               *)
(*                                                                         *)
(* A handler makes its writes one by one, without a transaction: orders,   *)
(* then the position, then the account snapshot. A crash may leave a       *)
(* prefix of the writes of the last handler in the tables, whether it      *)
(* opens, closes, replaces, relinks or repairs a position.                 *)
(***************************************************************************)
EXTENDS PaperBroker

CONSTANTS MaxRestarts,   \* bound: restarts in a behaviour
          MaxTorn        \* bound: those of them that tear the last handler

ASSUME RecoveryAssumption == MaxRestarts \in Nat /\ MaxTorn \in Nat

VARIABLES
  before,     \* the tables as the last handler found them (history)
  restarts,   \* restarts so far (history)
  torn,       \* torn restarts so far (history)
  fresh,      \* no order was loaded under a name yet to be given (history)
  refused     \* Rehydrate returned an error and the process gave up

allVars == <<vars, before, restarts, torn, fresh, refused>>

RecoveryInit ==
  /\ Init /\ before = db /\ restarts = 0 /\ torn = 0
  /\ fresh = TRUE /\ refused = FALSE
-----------------------------------------------------------------------------
\* What was opened and what was closed from old to new; a market entry does
\* both when it replaces a position.
Added(old, new) == {p \in new.positions : \A q \in old.positions : q.id # p.id}
Removed(old, new) == {q \in old.positions : \A p \in new.positions : q.id # p.id}
Replaces(old, new) == Added(old, new) # {} /\ Removed(old, new) # {}

\* A replacement is an exit, snapshot included, and then an entry, a market
\* order's: the tables between the two.
BeforeEntry(a, p) ==
  LET fee == p.entry * p.size * TakerFee
  IN  [a EXCEPT !.balance = @ + fee, !.usedMargin = @ - Margin(p), !.entryFees = @ - fee]

Between(old, new) ==
  [orders |-> old.orders \cap new.orders, nextOrderRow |-> old.nextOrderRow + 1,
   positions |-> old.positions \ Removed(old, new), nextPosRow |-> old.nextPosRow,
   account |-> BeforeEntry(new.account, CHOOSE p \in Added(old, new) : TRUE)]

\* The tables after some, not all, of the writes that lead from old to new, by
\* an entry, an exit, a repair or a new link: the orders that go, the orders that
\* come, the position, the snapshot.
SomeWrites(old, new) ==
  {[old EXCEPT !.orders = @ \ some] : some \in SUBSET (old.orders \ new.orders)}
  \cup {[old EXCEPT !.orders = {r \in new.orders : r.id < n}, !.nextOrderRow = n] :
          n \in old.nextOrderRow .. new.nextOrderRow}
  \cup {[new EXCEPT !.account = old.account]}

PartialWrites(old, new) ==
  IF ~Replaces(old, new) THEN SomeWrites(old, new)
  ELSE LET mid == Between(old, new)
       IN  {mid} \cup SomeWrites(old, mid) \cup SomeWrites(mid, new)

\* GetOpen returns the newest row first and the map keeps the last one.
LoadedPositions(d) ==
  {p \in d.positions : \A q \in d.positions : q.symbol = p.symbol => p.id <= q.id}

LoadedOrders(d) ==
  {o \in d.orders : \A r \in d.orders : r.key = o.key => o.id <= r.id}

\* "persisted open position has no stop loss", validatePositionStopLoss
Invalid(p) == p.sl = None \/ ~OnLossSide(p.side, p.sl, p.entry)

Repair(S) == IF S = {} THEN Free ELSE [op |-> "repair", symbols |-> S]

\* Rehydrate up to the repair loop, on the tables d. The counter is rebuilt
\* from the ids of the rows, but names the next orders: a name loaded here may
\* be given a second time.
Load(d) ==
  /\ positions' = LoadedPositions(d)
  /\ orders' = LoadedOrders(d)
  /\ nextOrderID' = 1 + Max({0} \cup {o.id : o \in d.orders})
  /\ acct' = [d.account EXCEPT !.usedMargin = MapThenSumSet(Margin, d.positions)]
  /\ lock' = Repair({p.symbol : p \in positions'})
  /\ fresh' = (fresh /\ \A o \in orders' : o.key < nextOrderID')
  /\ UNCHANGED refused

Refuse ==
  /\ positions' = {} /\ orders' = {} /\ nextOrderID' = 1
  /\ acct' = [acct EXCEPT !.balance = StartingBalance, !.usedMargin = 0,
                          !.realizedPnL = 0, !.dailyLoss = 0, !.entryFees = 0]
  /\ lock' = Free
  /\ refused' = TRUE
  /\ UNCHANGED fresh

RestartOn(d) ==
  /\ ~refused /\ restarts < MaxRestarts
  /\ IF \E p \in d.positions : Invalid(p) THEN Refuse ELSE Load(d)
  /\ prices' = [s \in Symbols |-> None]
  /\ marks' = {}
  /\ halted' = refused'
  /\ caller' = Idle
  /\ db' = d /\ before' = d
  /\ restarts' = restarts + 1

Restart == RestartOn(db) /\ UNCHANGED torn

TornRestart ==
  /\ torn < MaxTorn
  /\ \E d \in PartialWrites(before, db) : RestartOn(d)
  /\ torn' = torn + 1

\* Mutant of HasOpenStop: any protective order counts as a stop.
HasOpenExit(s) == \E o \in orders : o.symbol = s /\ o.type # "LIMIT"

\* hasOpenStopOrderLocked: any stop of the symbol will do.
HasOpenStop(s) == \E o \in orders : o.symbol = s /\ o.type = "STOP_MARKET"

Repaired(b, p) ==
  LET g == Protection(b, p.symbol, p.side, p.entry, p.size, p.sl, p.tp)
      q == [p EXCEPT !.slId = g.slId, !.tpId = IF g.tpId = None THEN @ ELSE g.tpId]
  IN  [b EXCEPT !.positions = (@ \ {p}) \cup {q},
                !.orders = Put(@, g.new),
                !.nextOrderID = @ + g.count,
                !.db = UpdatePosition(InsertOrders(@, g.new, g.count), q)]

\* One turn of the repair loop.
RepairStop(p) ==
  /\ lock.op = "repair" /\ p.symbol \in lock.symbols
  /\ IF HasOpenStop(p.symbol) THEN Becomes(Book) ELSE Becomes(Repaired(Book, p))
  /\ lock' = Repair(lock.symbols \ {p.symbol})
  /\ before' = db
  /\ UNCHANGED <<prices, marks, halted, caller, restarts, torn, fresh, refused>>

RecoveryNext ==
  \/ ~refused /\ Next /\ before' = db /\ UNCHANGED <<restarts, torn, fresh, refused>>
  \/ Restart \/ TornRestart
  \/ \E p \in positions : RepairStop(p)

RecoverySpec == RecoveryInit /\ [][RecoveryNext]_allVars
-----------------------------------------------------------------------------
RecoveryTypeOK ==
  /\ positions \subseteq Position /\ orders \subseteq Order
  /\ nextOrderID \in Nat \ {0} /\ prices \in [Symbols -> Prices \cup {None}]
  /\ acct \in Account /\ db \in Tables /\ before \in Tables
  /\ restarts \in 0 .. MaxRestarts /\ torn \in 0 .. MaxTorn
  /\ fresh \in BOOLEAN /\ refused \in BOOLEAN

\* Rehydrate "repairs the missing protective order before accepting new
\* entries": whenever the previous process died, between handlers or between
\* two writes of one, nobody finds the broker running with a position whose
\* own stop is not live. Two things are excluded. Of names given twice see
\* StopAlwaysLive; and after a second torn handler hasOpenStopOrderLocked may
\* take the stop that the first one orphaned for the position's own.
StopSurvivesRestart ==
  fresh /\ torn <= 1 /\ lock = Free => \A p \in positions : Guarded(p)

\* broker.go: "Broker must guarantee no position exists without SL". Violated:
\* requests that are refused use up names but no row, so the counter Rehydrate
\* rebuilds from the rows may be behind the names of the orders it loads, and
\* the stop of the next entry replaces another symbol's in openOrders.
StopAlwaysLive == lock = Free => \A p \in positions : Guarded(p)

\* Nothing this broker writes, completely or not, makes the next start fail.
NeverRefused == ~refused

\* A restart between two calls is invisible: same positions, same orders, same
\* account. This relates every handler's memory effect to its writes, and both
\* to what Rehydrate reads back. For the calls of the run, which leave out
\* EmergencyCloseAll (its orders come back) and ResetDailyLoss (not saved); and
\* while no loaded order carries a name yet to be given (`fresh'), for a second
\* order of one name replaces the first in memory and not in the rows.
CleanRestart ==
  [][fresh /\ restarts' # restarts /\ torn' = 0 =>
       /\ positions' = positions /\ orders' = orders /\ acct' = acct]_allVars

=============================================================================
