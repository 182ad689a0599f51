--------------------------- MODULE PaperSimulator ---------------------------
(***************************************************************************)
(* The paper-mode simulator of internal/execution/paper/simulator.go: an   *)
(* account in memory, written through to paper_account_state, and trades   *)
(* that live in paper_trades only. Two goroutines use it: a ticker runs    *)
(* CheckOpenPositions every five seconds, and the scheduler's cycle runs   *)
(* SimulateFill and CheckOpenPositions. checkMu serialises the checks; the *)
(* account's mutex covers each update and each copy, no database call.     *)
(*                                                                         *)
(* Prices are natural numbers; money is counted so that a fee of FeeTaker  *)
(* per unit of notional is an integer (1/Scale of a price unit).           *)
(***************************************************************************)
EXTENDS Integers, FiniteSets, FiniteSetsExt

CONSTANTS Prices,          \* what GetLatestPrice may return
          Plans,           \* the order plans the scheduler may send
          StartingBalance, \* cfg.StartingBalanceUSD, in money units
          Scale,           \* money units of one price unit
          FeeTaker,        \* cfg.FeeTakerBps: money units per unit of notional
          Slippage,        \* cfg.SlippageBps at these prices, in price units
          Faults,          \* the calls that may fail in this instance
          MaxTrades,       \* bound: fills in a behaviour
          MaxRestarts      \* bound: restarts in a behaviour

Free == "free"
NoPrice == 0   \* an error of the feed, or a price that is not positive
Procs == {"ticker", "cycle"}
TradeIds == 1 .. MaxTrades

Plan == [side : {"LONG", "SHORT"}, qty : Nat \ {0}, entry : Nat \ {0},
         sl : Int, tp : Int]   \* tp is 0 when the plan has none

ASSUME SimulatorAssumption ==
  /\ Prices \subseteq Nat \ {0} /\ Plans \subseteq Plan
  /\ StartingBalance \in Nat /\ Scale \in Nat \ {0} /\ FeeTaker \in Nat
  /\ Slippage \in Nat /\ \A x \in Prices : Slippage < x
  /\ Faults \subseteq {"load", "insert", "close", "account", "crash", "stop"}
  /\ MaxTrades \in Nat /\ MaxRestarts \in Nat

VARIABLES
  rows,      \* paper_trades: each trade's row
  row,       \* paper_account_state
  mem,       \* the account in memory
  price,     \* what the feed returns now, or NoPrice
  checkMu,   \* who holds checkMu
  at,        \* where each goroutine is, with its local variables
  nextTrade, \* the next trade to be filled (a UUID in the code)
  session    \* initializedAt: the first trade of this process, with the profit
             \* settled and the profit loaded when it started (history)

vars == <<rows, row, mem, price, checkMu, at, nextTrade, session>>

Trade == [state : {"none", "open", "closed"}, side : {"LONG", "SHORT"},
          qty : Nat, entry : Nat, sl : Int, tp : Int, net : Int]

NoTrade == [state |-> "none", side |-> "LONG", qty |-> 0, entry |-> 0,
            sl |-> 0, tp |-> 0, net |-> 0]

\* `fees' is a history: the entry fees this account has paid.
Account == [equity : Int, total : Nat, wins : Nat, losses : Nat,
            realized : Int, streak : Nat, fees : Int]

NewAccount == [equity |-> StartingBalance, total |-> 0, wins |-> 0, losses |-> 0,
               realized |-> 0, streak |-> 0, fees |-> 0]

Idle == [step |-> "idle"]

Nothing == [t |-> 0, row |-> NoTrade]
Item == [t : TradeIds, row : Trade]

\* todo: the open trades as GetOpen read them, not visited yet
Running == [step : {"load", "visit", "write", "insert", "copy", "save"},
            todo : SUBSET Item, item : Item \cup {Nothing}, copy : Account]

Init ==
  /\ rows = [t \in TradeIds |-> NoTrade]
  /\ row = NewAccount /\ mem = NewAccount
  /\ price \in Prices \cup {NoPrice}
  /\ checkMu = Free
  /\ at = [p \in Procs |-> Idle]
  /\ nextTrade = 1
  /\ session = [since |-> 1, settled |-> 0, realized |-> 0, n |-> 0]

Fails(fault) == fault \in Faults

Local(step, todo, item, copy) ==
  [step |-> step, todo |-> todo, item |-> item, copy |-> copy]

Goes(p, local) == at' = [at EXCEPT ![p] = local]

\* Mutant of Continues: the call that finds no open trade forgets to unlock.
KeepsMutex(p, todo) ==
  IF todo = {}
  THEN Goes(p, Idle) /\ UNCHANGED checkMu
  ELSE /\ Goes(p, Local("visit", todo, Nothing, NewAccount))
       /\ UNCHANGED checkMu

\* Back to the loop over the open trades, or out of the call.
Continues(p, todo) ==
  IF todo = {}
  THEN /\ Goes(p, Idle)
       /\ checkMu' = IF checkMu = p THEN Free ELSE checkMu
  ELSE /\ Goes(p, Local("visit", todo, Nothing, NewAccount))
       /\ UNCHANGED checkMu
-----------------------------------------------------------------------------
\* A call to the feed: prices move, and GetLatestPrice may fail for a while.
PriceMoves ==
  /\ price' \in Prices \cup {NoPrice}
  /\ price' # price
  /\ UNCHANGED <<rows, row, mem, checkMu, at, nextTrade, session>>

(* SimulateFill: slip the price, complete the plan's target, move stop and  *)
(* target along when the fill is more than 0.5% away from the plan.         *)
Fee(qty, x) == FeeTaker * qty * x

Toward(side, x, d) == IF side = "LONG" THEN x + d ELSE x - d

Distance(x, y) == IF x < y THEN y - x ELSE x - y

Target(plan) ==
  IF plan.tp > 0 THEN plan.tp
  ELSE Toward(plan.side, plan.entry, 2 * Distance(plan.entry, plan.sl))

FarFrom(plan, fill) == 200 * Distance(fill, plan.entry) > plan.entry

\* Mutant of Filled: the target is moved with the fill and the stop is not.
HalfMoved(plan, fill) ==
  [state |-> "open", side |-> plan.side, qty |-> plan.qty, entry |-> fill,
   sl |-> plan.sl,
   tp |-> IF FarFrom(plan, fill)
          THEN Toward(plan.side, fill, Distance(Target(plan), plan.entry))
          ELSE Target(plan),
   net |-> 0]

Filled(plan, fill) ==
  [state |-> "open", side |-> plan.side, qty |-> plan.qty, entry |-> fill,
   sl |-> IF FarFrom(plan, fill)
          THEN Toward(plan.side, fill, -Distance(plan.entry, plan.sl))
          ELSE plan.sl,
   tp |-> IF FarFrom(plan, fill)
          THEN Toward(plan.side, fill, Distance(Target(plan), plan.entry))
          ELSE Target(plan),
   net |-> 0]

ChargeEntry(acct, fee) ==
  [acct EXCEPT !.equity = @ - fee, !.total = @ + 1, !.fees = @ + fee]

SimulateFill(plan) ==
  LET fill == Toward(plan.side, price, Slippage)
  IN  /\ at["cycle"] = Idle /\ nextTrade <= MaxTrades
      /\ price # NoPrice
      /\ mem' = ChargeEntry(mem, Fee(plan.qty, fill))
      /\ Goes("cycle", Local("insert", {}, [t |-> nextTrade, row |-> Filled(plan, fill)],
                             NewAccount))
      /\ nextTrade' = nextTrade + 1
      /\ UNCHANGED <<rows, row, price, checkMu, session>>

\* A trade whose row cannot be inserted is gone; its fee and count stay.
InsertTrade ==
  LET it == at["cycle"].item
  IN  /\ at["cycle"].step = "insert"
      /\ \/ /\ rows' = [rows EXCEPT ![it.t] = it.row]
            /\ Goes("cycle", Local("copy", {}, Nothing, NewAccount))
         \/ /\ Fails("insert")
            /\ Goes("cycle", Idle)
            /\ UNCHANGED rows
      /\ UNCHANGED <<row, mem, price, checkMu, nextTrade, session>>
-----------------------------------------------------------------------------
(* CheckOpenPositions *)

\* Mutant of MayCheck: the checks of the two goroutines are not serialised.
AlwaysMayCheck == TRUE

MayCheck == checkMu = Free

BeginCheck(p) ==
  /\ at[p] = Idle /\ MayCheck
  /\ checkMu' = p
  /\ Goes(p, Local("load", {}, Nothing, NewAccount))
  /\ UNCHANGED <<rows, row, mem, price, nextTrade, session>>

OpenTrades == {[t |-> t, row |-> rows[t]] : t \in {u \in TradeIds : rows[u].state = "open"}}

GetOpen(p) ==
  /\ at[p].step = "load"
  /\ Continues(p, OpenTrades)
  /\ UNCHANGED <<rows, row, mem, price, nextTrade, session>>

GetOpenFails(p) ==
  /\ Fails("load") /\ at[p].step = "load"
  /\ Continues(p, {})
  /\ UNCHANGED <<rows, row, mem, price, nextTrade, session>>

StopHit(r, x) == IF r.side = "LONG" THEN x <= r.sl ELSE x >= r.sl

\* The stop is looked at first.
TargetHit(r, x) ==
  ~StopHit(r, x) /\ (IF r.side = "LONG" THEN x >= r.tp ELSE x <= r.tp)

ExitPrice(r, x) == Toward(r.side, IF StopHit(r, x) THEN r.sl ELSE r.tp, -Slippage)

PnLNet(r, exit) ==
  Scale * r.qty * (IF r.side = "LONG" THEN exit - r.entry ELSE r.entry - exit)
    - Max({0, Fee(r.qty, exit)})

\* Mutant of Counts: trades of earlier sessions are counted too.
AlwaysCounts(t) == TRUE

\* A rehydrated trade moves the money but not the counters.
Counts(t) == t >= session.since

\* Mutant of Book: a rehydrated trade moves the profit but not the equity.
BookedHalf(acct, t, net) ==
  [acct EXCEPT !.equity = IF Counts(t) THEN @ + net ELSE @, !.realized = @ + net,
               !.wins = IF Counts(t) /\ net > 0 THEN @ + 1 ELSE @,
               !.losses = IF Counts(t) /\ net <= 0 THEN @ + 1 ELSE @,
               !.streak = IF ~Counts(t) THEN @ ELSE IF net > 0 THEN 0 ELSE @ + 1]

\* Mutant of Book: a win takes one loss off the streak instead of ending it.
BookedShort(acct, t, net) ==
  [acct EXCEPT !.equity = @ + net, !.realized = @ + net,
               !.wins = IF Counts(t) /\ net > 0 THEN @ + 1 ELSE @,
               !.losses = IF Counts(t) /\ net <= 0 THEN @ + 1 ELSE @,
               !.streak = IF ~Counts(t) THEN @ ELSE IF net > 0 THEN @ - 1 ELSE @ + 1]

Book(acct, t, net) ==
  [acct EXCEPT !.equity = @ + net, !.realized = @ + net,
               !.wins = IF Counts(t) /\ net > 0 THEN @ + 1 ELSE @,
               !.losses = IF Counts(t) /\ net <= 0 THEN @ + 1 ELSE @,
               !.streak = IF ~Counts(t) THEN @ ELSE IF net > 0 THEN 0 ELSE @ + 1]

Hit(r) == price # NoPrice /\ (StopHit(r, price) \/ TargetHit(r, price))

\* What closeTrade's UPDATE will change of the row.
Closing(it, net) ==
  [t |-> it.t, row |-> [it.row EXCEPT !.state = "closed", !.net = net]]

\* One turn of the loop, for the first of the open trades: nothing to do, or
\* closeTrade up to its first write.
Visit(p) ==
  /\ at[p].step = "visit"
  /\ \E it \in at[p].todo :
       LET rest == at[p].todo \ {it}
           net  == PnLNet(it.row, ExitPrice(it.row, price))
       IN  /\ \A other \in rest : it.t <= other.t
           /\ \/ ~Hit(it.row) /\ Continues(p, rest) /\ UNCHANGED mem
              \/ /\ Hit(it.row)
                 /\ mem' = Book(mem, it.t, net)
                 /\ Goes(p, Local("write", rest, Closing(it, net), NewAccount))
                 /\ UNCHANGED checkMu
  /\ UNCHANGED <<rows, row, price, nextTrade, session>>

\* closeTrade's UPDATE. When it fails the call returns: the trade stays open
\* although its profit is booked.
WriteTrade(p) ==
  LET it == at[p].item
  IN  /\ at[p].step = "write"
      /\ \/ /\ rows' = [rows EXCEPT ![it.t] = it.row]
            /\ Goes(p, Local("copy", at[p].todo, Nothing, NewAccount))
            /\ UNCHANGED checkMu
         \/ Fails("close") /\ Continues(p, at[p].todo) /\ UNCHANGED rows
      /\ UNCHANGED <<row, mem, price, nextTrade, session>>

(* persistAccountState: copy under the lock, write outside it. *)
CopyAccount(p) ==
  /\ at[p].step = "copy"
  /\ Goes(p, Local("save", at[p].todo, Nothing, mem))
  /\ UNCHANGED <<rows, row, mem, price, checkMu, nextTrade, session>>

SaveAccount(p) ==
  /\ at[p].step = "save"
  /\ \/ row' = at[p].copy
     \/ Fails("account") /\ UNCHANGED row
  /\ Continues(p, at[p].todo)
  /\ UNCHANGED <<rows, mem, price, nextTrade, session>>

\* CancelOpenPositions, "during a simulator reset": nobody else runs. Nothing
\* in the repository calls it; an UPDATE that fails leaves its trade open.
CancelOpenPositions ==
  /\ \A p \in Procs : at[p] = Idle
  /\ \E S \in SUBSET {it.t : it \in OpenTrades} :
       /\ S # {}
       /\ Fails("close") \/ S = {it.t : it \in OpenTrades}
       /\ rows' = [t \in TradeIds |-> IF t \in S THEN [rows[t] EXCEPT !.state = "closed"]
                                      ELSE rows[t]]
  /\ UNCHANGED <<row, mem, price, checkMu, at, nextTrade, session>>
-----------------------------------------------------------------------------
\* What has been settled so far, a history of the trades' rows: profit booked
\* for a row not written yet is not there yet.
InFlight(p) == IF at[p].step = "write" THEN at[p].item.row.net ELSE 0

Settled ==
  session.settled + mem.realized - session.realized
    - InFlight("ticker") - InFlight("cycle")

Quiet == (\A p \in Procs : at[p] = Idle) /\ row = mem

\* The process dies anywhere, or is stopped while nothing is under way; the
\* next one runs Initialize.
Restart ==
  /\ session.n < MaxRestarts
  /\ Fails("crash") \/ (Fails("stop") /\ Quiet)
  /\ mem' = row
  /\ checkMu' = Free
  /\ at' = [p \in Procs |-> Idle]
  /\ session' = [since |-> nextTrade, settled |-> Settled,
                 realized |-> row.realized, n |-> session.n + 1]
  /\ UNCHANGED <<rows, row, price, nextTrade>>

Check(p) ==
  \/ BeginCheck(p) \/ GetOpen(p) \/ GetOpenFails(p) \/ Visit(p)
  \/ WriteTrade(p) \/ CopyAccount(p) \/ SaveAccount(p)

Next ==
  \/ PriceMoves
  \/ \E plan \in Plans : SimulateFill(plan)
  \/ InsertTrade
  \/ \E p \in Procs : Check(p)
  \/ CancelOpenPositions
  \/ Restart

Spec == Init /\ [][Next]_vars

\* The ticker fires every five seconds and a step of a goroutine ends. A turn
\* at checkMu comes at last: sync.Mutex hands over to a starved waiter. The
\* database does not refuse every read of the ticker.
Fairness ==
  /\ SF_vars(BeginCheck("ticker")) /\ SF_vars(GetOpen("ticker"))
  /\ WF_vars(InsertTrade)
  /\ \A p \in Procs :
       WF_vars(GetOpen(p) \/ GetOpenFails(p) \/ Visit(p) \/ WriteTrade(p)
                 \/ CopyAccount(p) \/ SaveAccount(p))

FairSpec == Spec /\ Fairness
-----------------------------------------------------------------------------
(* Properties. *)

TypeOK ==
  /\ rows \in [TradeIds -> Trade]
  /\ row \in Account /\ mem \in Account
  /\ price \in Prices \cup {NoPrice}
  /\ checkMu \in Procs \cup {Free}
  /\ at \in [Procs -> {Idle} \cup Running]
  /\ nextTrade \in 1 .. MaxTrades + 1
  /\ session.since \in 1 .. MaxTrades + 1 /\ session.settled \in Int
  /\ session.realized \in Int /\ session.n \in 0 .. MaxRestarts

\* Whatever fails, and wherever a crash cuts, the account in memory and the
\* one in the table are never a mixture of two moments: each says that the
\* equity is the start, less the entry fees, plus the realized profit.
Balanced(acct) == acct.equity = StartingBalance - acct.fees + acct.realized

EquityAddsUp == Balanced(mem) /\ Balanced(row)

\* No trade is counted as won or lost twice, or without having been counted
\* when it was opened: neither when a crash loses the count of the fill, nor
\* when a stale copy of the account is written over a newer one.
CountedOnce == mem.wins + mem.losses <= mem.total /\ row.wins + row.losses <= row.total

\* How far y lies ahead of x, seen towards the profit of that side.
Ahead(side, x, y) == IF side = "LONG" THEN y - x ELSE x - y

\* Wherever the price had moved when the plan was filled, an open trade risks at
\* its stop and gains at its target what its plan does, give or take the 0.5% of
\* the plan's price within which the fill moves neither (simulator.go:212): also
\* for the plans setup.go:456 lets through with a stop at 0.5% or 0.3%, whose
\* stop a fill within that 0.5% can leave on the wrong side.
LevelsNearPlan ==
  \A t \in TradeIds : rows[t].state = "open" =>
    LET r == rows[t]
        Near(plan, x, y) == 200 * Distance(x, y) <= plan.entry
    IN  \E plan \in Plans :
          /\ plan.side = r.side /\ plan.qty = r.qty
          /\ Near(plan, Ahead(r.side, r.sl, r.entry), Ahead(r.side, plan.sl, plan.entry))
          /\ Near(plan, Ahead(r.side, r.entry, r.tp), Ahead(r.side, plan.entry, Target(plan)))

\* The mapping to TradeBook. A trade is settled when its row is.
Promised == INSTANCE TradeBook WITH
  book <- [t \in TradeIds |-> [state |-> rows[t].state, net |-> rows[t].net]],
  profit <- Settled

\* C1: two goroutines that check at once, a fill meanwhile, and a crash between
\* booking and writing never settle a trade twice or revise its result.
TradesSettledOnce == Promised!Spec

\* A trade whose stop the price has passed for good is closed at last.
StopsAreReached ==
  \A t \in TradeIds : []<>(rows[t].state # "open" \/ price = NoPrice \/ ~StopHit(rows[t], price))

=============================================================================
