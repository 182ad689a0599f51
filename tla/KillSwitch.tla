----------------------------- MODULE KillSwitch -----------------------------
(***************************************************************************)
(* The position monitor of internal/monitor/monitor.go over PaperBroker:   *)
(* it feeds prices and candles to the broker and enforces the daily loss   *)
(* limit. The monitor runs in one goroutine and takes the broker's mutex   *)
(* anew for every call, so the clients of the broker run between its       *)
(* reading of the account, its halting of the broker and its closing of    *)
(* the positions.                                                          *)
(***************************************************************************)
EXTENDS PaperBroker

CONSTANTS MaxDailyLossPct,   \* cfg.MaxDailyLossPct
          MonitorCalls       \* the monitor's entry points that are called

ASSUME MonitorAssumption ==
  /\ MaxDailyLossPct \in Nat
  /\ MonitorCalls \subseteq {"Update", "CheckAllPositions"}

VARIABLES
  step,   \* where the monitor is: idle, or in checkKillSwitch
  todo    \* the symbols CheckAllPositions has yet to visit

allVars == <<vars, step, todo>>

MonitorInit == Init /\ step = "idle" /\ todo = {}
-----------------------------------------------------------------------------
(* checkKillSwitch *)

GainOf(m) == m.gain

UnrealizedPnL == MapThenSumSet(GainOf, marks)

Equity == acct.balance + UnrealizedPnL

TotalDailyLoss ==
  acct.dailyLoss + (IF UnrealizedPnL < 0 THEN -UnrealizedPnL ELSE 0)

LimitBreached ==
  /\ MaxDailyLossPct > 0
  /\ 100 * TotalDailyLoss >= Equity * MaxDailyLossPct

\* GetAccountState, and the decision taken on it
CheckKillSwitch ==
  /\ step = "check" /\ lock = Free
  /\ step' = IF LimitBreached THEN "halt" ELSE "idle"
  /\ UNCHANGED <<vars, todo>>

\* Mutant of HaltBroker: the breach is logged and nothing is done about it.
LogOnly ==
  /\ step = "halt" /\ lock = Free
  /\ step' = "idle"
  /\ UNCHANGED <<vars, todo>>

HaltBroker ==
  /\ step = "halt" /\ lock = Free
  /\ halted' = TRUE
  /\ step' = "close"
  /\ UNCHANGED <<positions, orders, nextOrderID, acct, prices, marks, lock,
                 caller, db, todo>>

CloseAll ==
  /\ step = "close" /\ lock = Free
  /\ DropAllOrders
  /\ step' = "idle"
  /\ UNCHANGED todo
-----------------------------------------------------------------------------
(* Update: one price tick. *)
Update(s, x) ==
  /\ UpdatePrice(s, x)
  /\ step' = "check"

Ticked(s, x) ==
  /\ "Update" \in MonitorCalls /\ step = "idle" /\ todo = {}
  /\ Update(s, x)
  /\ UNCHANGED todo

(* CheckAllPositions: the open positions are copied, then visited one by    *)
(* one, with the latest candle, or with the latest price when there is no   *)
(* candle, or not at all when there is neither.                             *)
CheckAllPositions ==
  /\ "CheckAllPositions" \in MonitorCalls
  /\ step = "idle" /\ todo = {} /\ lock = Free
  /\ positions # {}
  /\ todo' = {p.symbol : p \in positions}
  /\ UNCHANGED <<vars, step>>

VisitWithCandle(s) ==
  /\ step = "idle" /\ s \in todo
  /\ \E low, high, close \in Prices : ProcessCandle(s, low, high, close)
  /\ todo' = todo \ {s}
  /\ UNCHANGED step

VisitWithPrice(s) ==
  /\ step = "idle" /\ s \in todo
  /\ \E x \in Prices : Update(s, x)
  /\ todo' = todo \ {s}

Skip(s) ==
  /\ step = "idle" /\ s \in todo
  /\ todo' = todo \ {s}
  /\ UNCHANGED <<vars, step>>

\* The rest of a ProcessCandle or an EmergencyCloseAll that has the mutex
Holder ==
  \/ \E o \in orders : FillLimit(o)
  \/ FinishCandle
  \/ \E p \in positions : EmergencyClose(p)

\* The other callers of the broker: the executor and its price feed
Client ==
  \/ Entry
  \/ \E o \in orders : CancelOrder(o)
  \/ \E p \in positions : ClosePosition(p)
  \/ \E s \in Symbols, x \in Prices : SetSymbolPrice(s, x)
  \/ ResetDailyLoss

Monitor ==
  \/ CheckKillSwitch \/ HaltBroker \/ CloseAll
  \/ \E s \in Symbols, x \in Prices : Ticked(s, x)
  \/ CheckAllPositions
  \/ \E s \in Symbols : VisitWithCandle(s) \/ VisitWithPrice(s) \/ Skip(s)

MonitorNext ==
  \/ Monitor
  \/ (Client \/ Holder) /\ UNCHANGED <<step, todo>>

MonitorSpec == MonitorInit /\ [][MonitorNext]_allVars

\* The goroutine that holds the mutex goes on, and sync.Mutex hands over to a
\* waiter that has been starved, so each blocking call of the monitor returns.
\* The scheduler calls CheckAllPositions in every cycle.
MonitorFairness ==
  /\ WF_allVars(Holder /\ UNCHANGED <<step, todo>>)
  /\ SF_allVars(CheckKillSwitch)
  /\ SF_allVars(HaltBroker)
  /\ SF_allVars(CloseAll)
  /\ SF_allVars(CheckAllPositions)
  /\ \A s \in Symbols :
       SF_allVars(VisitWithCandle(s) \/ VisitWithPrice(s) \/ Skip(s))

FairMonitorSpec == MonitorSpec /\ MonitorFairness
-----------------------------------------------------------------------------
MonitorTypeOK ==
  /\ TypeOK
  /\ step \in {"idle", "check", "halt", "close"}
  /\ todo \subseteq Symbols

\* "Daily loss limit breached ... All positions closed, new entries halted":
\* once the kill switch has run, the account is flat and nothing pending can
\* open a position, for as long as the broker stays up. It takes the order
\* halt-then-close: between the two, a client may still enter.
FlatAfterKill ==
  halted /\ step = "idle" /\ lock = Free =>
    /\ positions = {}
    /\ \A o \in orders : o.type # "LIMIT"

\* Whoever else uses the broker meanwhile, a breach that was seen ends flat.
BreachEndsFlat == step = "halt" ~> halted /\ positions = {}

=============================================================================
