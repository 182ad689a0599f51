------------------------ MODULE PaperSimulatorProofs ------------------------
(***************************************************************************)
(* The paper simulator, for every set of prices and plans, every number of *)
(* trades and restarts, and every combination of failing calls the         *)
(* theorems admit.                                                         *)
(***************************************************************************)
EXTENDS PaperSimulator, FiniteSetTheorems, TLAPS

Locals == {Idle} \cup Running

(* Types *)

LEMMA AccountsType == NewAccount \in Account
  BY SimulatorAssumption DEF NewAccount, Account

LEMMA NoTradeType == NoTrade \in Trade
  BY DEF NoTrade, Trade

LEMMA NothingType == Nothing \notin Item /\ Nothing.t = 0
  BY DEF Nothing, Item, TradeIds

\* Only a call under way has a step to take.
LEMMA Under ==
  ASSUME TypeOK, NEW p \in Procs, at[p].step # "idle"
  PROVE  at[p] \in Running
  BY DEF TypeOK, Idle

LEMMA LocalType ==
  ASSUME NEW s \in {"load", "visit", "write", "insert", "copy", "save"},
         NEW todo \in SUBSET Item, NEW item \in Item \cup {Nothing},
         NEW copy \in Account
  PROVE  Local(s, todo, item, copy) \in Running
  BY DEF Local, Running

LEMMA GoesType ==
  ASSUME TypeOK, NEW p \in Procs, NEW local \in Locals, Goes(p, local)
  PROVE  at' \in [Procs -> Locals]
  BY DEF TypeOK, Goes, Locals

LEMMA ContinuesType ==
  ASSUME TypeOK, NEW p \in Procs, NEW todo \in SUBSET Item, Continues(p, todo)
  PROVE  at' \in [Procs -> Locals] /\ checkMu' \in Procs \cup {Free}
<1>1. Idle \in Locals /\ Local("visit", todo, Nothing, NewAccount) \in Locals
  BY LocalType, AccountsType DEF Locals
<1>2. at' \in [Procs -> Locals]
  BY <1>1, GoesType DEF Continues
<1>3. checkMu' \in Procs \cup {Free}
  BY DEF Continues, TypeOK
<1> QED BY <1>2, <1>3

LEMMA TowardType ==
  ASSUME NEW side, NEW x \in Int, NEW d \in Int
  PROVE  Toward(side, x, d) \in Int
  BY DEF Toward

LEMMA DistanceType ==
  ASSUME NEW x \in Int, NEW y \in Int
  PROVE  Distance(x, y) \in Nat
  BY DEF Distance

LEMMA FeeType ==
  ASSUME NEW qty \in Int, NEW x \in Int
  PROVE  Fee(qty, x) \in Int
<1>1. FeeTaker * qty \in Int
  BY SimulatorAssumption
<1> QED BY <1>1 DEF Fee

\* The result of a trade is a number: no fee is negative.
LEMMA NetType ==
  ASSUME NEW r \in Trade, NEW x \in Int
  PROVE  PnLNet(r, x) \in Int
<1> DEFINE fee == Fee(r.qty, x)
           S == {0, fee}
           move == IF r.side = "LONG" THEN x - r.entry ELSE r.entry - x
<1>1. fee \in Int
  BY FeeType DEF Trade
<1>2. Max(S) \in Int
  <2> HIDE DEF fee
  <2>1. \E m \in S : \A y \in S : m >= y
    BY <1>1
  <2>2. Max(S) \in S
    BY <2>1 DEF Max
  <2> QED BY <1>1, <2>2
<1>3. move \in Int /\ Scale * r.qty \in Int
  BY SimulatorAssumption DEF Trade
<1> HIDE DEF S, move
<1>4. Scale * r.qty * move \in Int
  BY <1>3
<1>5. PnLNet(r, x) = Scale * r.qty * move - Max(S)
  BY DEF PnLNet, S, move
<1> QED BY <1>2, <1>4, <1>5

LEMMA ExitType ==
  ASSUME NEW r \in Trade, NEW x \in Int
  PROVE  ExitPrice(r, x) \in Int
<1>1. (IF StopHit(r, x) THEN r.sl ELSE r.tp) \in Int /\ -Slippage \in Int
  BY SimulatorAssumption DEF Trade
<1> HIDE DEF StopHit
<1> QED BY <1>1, TowardType DEF ExitPrice

LEMMA FilledType ==
  ASSUME NEW plan \in Plans, NEW fill \in Nat
  PROVE  Filled(plan, fill) \in Trade
<1>1. /\ plan.side \in {"LONG", "SHORT"} /\ plan.qty \in Nat
      /\ plan.entry \in Int /\ plan.sl \in Int /\ plan.tp \in Int
  BY SimulatorAssumption DEF Plan
<1>2. Target(plan) \in Int
  <2> DEFINE d == Distance(plan.entry, plan.sl)
  <2>1. d \in Nat
    BY <1>1, DistanceType
  <2> HIDE DEF d
  <2>2. 2 * d \in Int
    BY <2>1
  <2> QED BY <1>1, <2>2, TowardType DEF Target, d
<1>3. /\ Distance(plan.entry, plan.sl) \in Nat
      /\ Distance(Target(plan), plan.entry) \in Nat
  BY <1>1, <1>2, DistanceType
<1> DEFINE sl == IF FarFrom(plan, fill)
                 THEN Toward(plan.side, fill, -Distance(plan.entry, plan.sl))
                 ELSE plan.sl
           tp == IF FarFrom(plan, fill)
                 THEN Toward(plan.side, fill, Distance(Target(plan), plan.entry))
                 ELSE Target(plan)
<1>4. sl \in Int /\ tp \in Int
  BY <1>1, <1>2, <1>3, TowardType
<1>5. Filled(plan, fill) = [state |-> "open", side |-> plan.side, qty |-> plan.qty,
                            entry |-> fill, sl |-> sl, tp |-> tp, net |-> 0]
  BY DEF Filled
<1> HIDE DEF sl, tp
<1> QED BY <1>1, <1>4, <1>5 DEF Trade

LEMMA ClosingType ==
  ASSUME NEW it \in Item, NEW net \in Int
  PROVE  LET c == Closing(it, net)
         IN  /\ c \in Item /\ c.t = it.t
             /\ c.row.state = "closed" /\ c.row.net = net
<1> DEFINE r == [it.row EXCEPT !.state = "closed", !.net = net]
<1>1. it.row \in Trade /\ it.t \in TradeIds
  BY DEF Item
<1>2. r \in Trade /\ r.state = "closed" /\ r.net = net
  BY <1>1 DEF Trade
<1>3. Closing(it, net) = [t |-> it.t, row |-> r]
  BY DEF Closing
<1> HIDE DEF r
<1> QED BY <1>1, <1>2, <1>3 DEF Item

\* What booking a result does to an account.
LEMMA Booked ==
  ASSUME NEW a \in Account, NEW t, NEW net \in Int
  PROVE  LET c == Book(a, t, net)
         IN  /\ c \in Account
             /\ c.equity = a.equity + net /\ c.realized = a.realized + net
             /\ c.fees = a.fees /\ c.total = a.total
             /\ c.wins + c.losses = a.wins + a.losses + (IF Counts(t) THEN 1 ELSE 0)
<1> DEFINE equity   == a.equity + net
           realized == a.realized + net
           wins     == IF Counts(t) /\ net > 0 THEN a.wins + 1 ELSE a.wins
           losses   == IF Counts(t) /\ net <= 0 THEN a.losses + 1 ELSE a.losses
           streak   == IF ~Counts(t) THEN a.streak ELSE IF net > 0 THEN 0 ELSE a.streak + 1
           c == Book(a, t, net)
<1>1. c = [a EXCEPT !.equity = equity, !.realized = realized, !.wins = wins,
                    !.losses = losses, !.streak = streak]
  BY DEF Book
<1>2. /\ a.wins \in Nat /\ a.losses \in Nat /\ a.streak \in Nat
      /\ a.equity \in Int /\ a.realized \in Int
  BY DEF Account
<1>3. /\ equity \in Int /\ realized \in Int /\ wins \in Nat /\ losses \in Nat
      /\ streak \in Nat
      /\ wins + losses = a.wins + a.losses + (IF Counts(t) THEN 1 ELSE 0)
  <2> HIDE DEF Counts
  <2> QED BY <1>2
<1> HIDE DEF equity, realized, wins, losses, streak
<1>4. /\ c \in Account /\ c.equity = equity /\ c.realized = realized
      /\ c.fees = a.fees /\ c.total = a.total /\ c.wins = wins /\ c.losses = losses
  <2> HIDE DEF c
  <2>1. c \in Account
    BY <1>1, <1>3 DEF Account
  <2> QED BY <1>1, <2>1 DEF Account
<1> QED BY <1>3, <1>4 DEF equity, realized, c

LEMMA Charged ==
  ASSUME NEW a \in Account, NEW fee \in Int
  PROVE  LET c == ChargeEntry(a, fee)
         IN  /\ c \in Account
             /\ c.equity = a.equity - fee /\ c.fees = a.fees + fee
             /\ c.realized = a.realized /\ c.total = a.total + 1
             /\ c.wins = a.wins /\ c.losses = a.losses
<1> DEFINE equity == a.equity - fee
           total  == a.total + 1
           fees   == a.fees + fee
           c == ChargeEntry(a, fee)
<1>1. c = [a EXCEPT !.equity = equity, !.total = total, !.fees = fees]
  BY DEF ChargeEntry
<1>2. equity \in Int /\ total \in Nat /\ fees \in Int
  BY DEF Account
<1> HIDE DEF equity, total, fees
<1>3. /\ c \in Account
      /\ c.equity = equity /\ c.fees = fees /\ c.realized = a.realized
      /\ c.total = total /\ c.wins = a.wins /\ c.losses = a.losses
  BY <1>1, <1>2 DEF Account
<1> QED BY <1>3 DEF equity, total, fees, c

-----------------------------------------------------------------------------
(* Type correctness *)

LEMMA InitType == Init => TypeOK
<1> SUFFICES ASSUME Init PROVE TypeOK
  OBVIOUS
<1>1. rows \in [TradeIds -> Trade]
  BY NoTradeType DEF Init
<1>1a. mem \in Account /\ row \in Account
  BY AccountsType DEF Init
<1>2. nextTrade \in 1 .. MaxTrades + 1 /\ session.since \in 1 .. MaxTrades + 1
      /\ session.n \in 0 .. MaxRestarts
  BY SimulatorAssumption DEF Init
<1> QED BY <1>1, <1>1a, <1>2 DEF Init, TypeOK

\* A call that moves one goroutine on, and leaves the rest well typed.
LEMMA StepType ==
  ASSUME TypeOK, at' \in [Procs -> Locals], checkMu' \in Procs \cup {Free},
         rows' \in [TradeIds -> Trade], mem' \in Account, row' \in Account,
         nextTrade' \in 1 .. MaxTrades + 1, UNCHANGED <<price, session>>
  PROVE  TypeOK'
  BY DEF TypeOK, Locals

LEMMA FillType ==
  ASSUME TypeOK, NEW plan \in Plans, SimulateFill(plan)
  PROVE  TypeOK'
<1> DEFINE fill == Toward(plan.side, price, Slippage)
           it   == [t |-> nextTrade, row |-> Filled(plan, fill)]
<1>1. price \in Nat /\ Slippage \in Nat /\ Slippage < price /\ MaxTrades \in Nat
  BY SimulatorAssumption DEF SimulateFill, TypeOK, NoPrice
<1>2. fill \in Nat /\ fill \in Int
  BY <1>1 DEF Toward
<1> HIDE DEF fill
<1>3. Filled(plan, fill) \in Trade /\ plan.qty \in Int
  BY <1>2, FilledType, SimulatorAssumption DEF Plan
<1>4. it \in Item /\ nextTrade' \in 1 .. MaxTrades + 1
  <2>1. nextTrade \in TradeIds /\ nextTrade' = nextTrade + 1
    BY <1>1 DEF SimulateFill, TypeOK, TradeIds
  <2> HIDE DEF it
  <2>2. nextTrade' \in 1 .. MaxTrades + 1
    BY <1>1, <2>1 DEF TradeIds
  <2> QED BY <1>3, <2>1, <2>2 DEF Item, it
<1>5. Fee(plan.qty, fill) \in Int
  BY <1>2, <1>3, FeeType
<1>6. mem' \in Account
  BY <1>5, Charged DEF SimulateFill, TypeOK, fill
<1>7. at' \in [Procs -> Locals]
  <2>1. Local("insert", {}, it, NewAccount) \in Locals
    BY <1>4, LocalType, AccountsType DEF Locals
  <2>2. "cycle" \in Procs
    BY DEF Procs
  <2>3. Goes("cycle", Local("insert", {}, it, NewAccount))
    BY DEF SimulateFill, fill
  <2> HIDE DEF it
  <2> QED BY <2>1, <2>2, <2>3, GoesType
<1> QED BY <1>4, <1>6, <1>7, StepType DEF SimulateFill, TypeOK

LEMMA RowWritten ==
  ASSUME rows \in [TradeIds -> Trade], NEW it \in Item \cup {Nothing}
  PROVE  [rows EXCEPT ![it.t] = it.row] \in [TradeIds -> Trade]
<1>1. CASE it \in Item
  BY <1>1 DEF Item
<1>2. CASE it = Nothing
  <2>1. it.t \notin TradeIds
    BY <1>2, NothingType DEF TradeIds
  <2> QED BY <2>1
<1> QED BY <1>1, <1>2

LEMMA CheckType ==
  ASSUME TypeOK, NEW p \in Procs, Check(p)
  PROVE  TypeOK'
<1>1. ASSUME at[p].step # "idle"
      PROVE  /\ at[p] \in Running /\ at[p].todo \in SUBSET Item
             /\ at[p].item \in Item \cup {Nothing} /\ at[p].copy \in Account
  BY <1>1, Under DEF Running
<1>2. CASE BeginCheck(p)
  <2>1. Local("load", {}, Nothing, NewAccount) \in Locals
    BY LocalType, AccountsType DEF Locals
  <2>2. at' \in [Procs -> Locals]
    BY <1>2, <2>1, GoesType DEF BeginCheck
  <2> QED BY <1>2, <2>2, StepType DEF BeginCheck, TypeOK
<1>3. CASE GetOpen(p) \/ GetOpenFails(p)
  <2>1. OpenTrades \in SUBSET Item /\ {} \in SUBSET Item
    BY DEF OpenTrades, Item, TypeOK
  <2>2. at' \in [Procs -> Locals] /\ checkMu' \in Procs \cup {Free}
    BY <1>3, <2>1, ContinuesType DEF GetOpen, GetOpenFails
  <2> QED BY <1>3, <2>2, StepType DEF GetOpen, GetOpenFails, TypeOK
<1>4. CASE Visit(p)
  <2>1. PICK it \in at[p].todo :
          LET rest == at[p].todo \ {it}
              net  == PnLNet(it.row, ExitPrice(it.row, price))
          IN  \/ Continues(p, rest) /\ UNCHANGED mem
              \/ /\ mem' = Book(mem, it.t, net)
                 /\ Goes(p, Local("write", rest, Closing(it, net), NewAccount))
                 /\ UNCHANGED checkMu
    BY <1>4 DEF Visit
  <2> DEFINE rest == at[p].todo \ {it}
             net  == PnLNet(it.row, ExitPrice(it.row, price))
  <2>2. it \in Item /\ rest \in SUBSET Item
    BY <1>1, <1>4 DEF Visit
  <2>3. net \in Int
    <3>1. it.row \in Trade /\ price \in Int
      BY <2>2, SimulatorAssumption DEF Item, TypeOK, NoPrice
    <3> QED BY <3>1, ExitType, NetType
  <2>4. CASE Continues(p, rest) /\ UNCHANGED mem
    <3>1. at' \in [Procs -> Locals] /\ checkMu' \in Procs \cup {Free}
      BY <2>2, <2>4, ContinuesType
    <3> QED BY <1>4, <2>4, <3>1, StepType DEF Visit, TypeOK
  <2>5. CASE /\ mem' = Book(mem, it.t, net)
             /\ Goes(p, Local("write", rest, Closing(it, net), NewAccount))
             /\ UNCHANGED checkMu
    <3>1. mem' \in Account
      BY <2>3, <2>5, Booked DEF TypeOK
    <3>2. Closing(it, net) \in Item
      BY <2>2, <2>3, ClosingType
    <3>3. Local("write", rest, Closing(it, net), NewAccount) \in Locals
      BY <2>2, <3>2, LocalType, AccountsType DEF Locals
    <3>4. at' \in [Procs -> Locals]
      BY <2>5, <3>3, GoesType
    <3> QED BY <1>4, <2>5, <3>1, <3>4, StepType DEF Visit, TypeOK
  <2> QED BY <2>1, <2>4, <2>5
<1>5. CASE WriteTrade(p)
  <2>1. at[p].step # "idle"
    BY <1>5 DEF WriteTrade
  <2>2. rows' \in [TradeIds -> Trade]
    BY <1>1, <1>5, <2>1, RowWritten DEF WriteTrade, TypeOK
  <2>3. Local("copy", at[p].todo, Nothing, NewAccount) \in Locals
    BY <1>1, <2>1, LocalType, AccountsType DEF Locals
  <2>4. at' \in [Procs -> Locals] /\ checkMu' \in Procs \cup {Free}
    BY <1>1, <1>5, <2>1, <2>3, ContinuesType, GoesType DEF WriteTrade, TypeOK
  <2> QED BY <1>5, <2>2, <2>4, StepType DEF WriteTrade, TypeOK
<1>6. CASE CopyAccount(p)
  <2>1. at[p].step # "idle"
    BY <1>6 DEF CopyAccount
  <2>2. Local("save", at[p].todo, Nothing, mem) \in Locals
    BY <1>1, <2>1, LocalType DEF Locals, TypeOK
  <2>3. at' \in [Procs -> Locals]
    BY <1>6, <2>2, GoesType DEF CopyAccount
  <2> QED BY <1>6, <2>3, StepType DEF CopyAccount, TypeOK
<1>7. CASE SaveAccount(p)
  <2>1. at[p].step # "idle"
    BY <1>7 DEF SaveAccount
  <2>2. row' \in Account
    BY <1>1, <1>7, <2>1 DEF SaveAccount, TypeOK
  <2>3. at' \in [Procs -> Locals] /\ checkMu' \in Procs \cup {Free}
    BY <1>1, <1>7, <2>1, ContinuesType DEF SaveAccount
  <2> QED BY <1>7, <2>2, <2>3, StepType DEF SaveAccount, TypeOK
<1> QED BY <1>2, <1>3, <1>4, <1>5, <1>6, <1>7 DEF Check

LEMMA InFlightType ==
  ASSUME TypeOK, NEW p \in Procs
  PROVE  InFlight(p) \in Int
<1>1. CASE at[p].step = "write"
  <2>1. at[p].item \in Item \cup {Nothing}
    BY <1>1, Under DEF Running
  <2>2. at[p].item.row \in Trade
    BY <2>1, NoTradeType DEF Item, Nothing
  <2> QED BY <1>1, <2>2 DEF InFlight, Trade
<1>2. CASE at[p].step # "write"
  BY <1>2 DEF InFlight
<1> QED BY <1>1, <1>2

LEMMA SettledType ==
  ASSUME TypeOK
  PROVE  Settled \in Int
<1>1. InFlight("ticker") \in Int /\ InFlight("cycle") \in Int
  BY InFlightType DEF Procs
<1> QED BY <1>1 DEF Settled, TypeOK, Account

LEMMA NextType == TypeOK /\ [Next]_vars => TypeOK'
<1> SUFFICES ASSUME TypeOK, [Next]_vars PROVE TypeOK'
  OBVIOUS
<1>1. CASE PriceMoves \/ UNCHANGED vars
  BY <1>1 DEF PriceMoves, vars, TypeOK
<1>2. CASE InsertTrade
  <2>1. "cycle" \in Procs /\ at["cycle"].step # "idle"
    BY <1>2 DEF Procs, InsertTrade
  <2>2. at["cycle"].item \in Item \cup {Nothing}
    BY <2>1, Under DEF Running
  <2>3. rows' \in [TradeIds -> Trade]
    BY <1>2, <2>2, RowWritten DEF InsertTrade, TypeOK
  <2>4. Local("copy", {}, Nothing, NewAccount) \in Locals /\ Idle \in Locals
    BY LocalType, AccountsType DEF Locals
  <2>5. at' \in [Procs -> Locals]
    BY <1>2, <2>1, <2>4, GoesType DEF InsertTrade
  <2> QED BY <1>2, <2>3, <2>5, StepType DEF InsertTrade, TypeOK
<1>3. CASE CancelOpenPositions
  <2>1. PICK S : rows' = [t \in TradeIds |-> IF t \in S THEN [rows[t] EXCEPT !.state = "closed"]
                                             ELSE rows[t]]
    BY <1>3 DEF CancelOpenPositions
  <2>2. rows' \in [TradeIds -> Trade]
    <3>1. \A t \in TradeIds : rows[t] \in Trade
      BY DEF TypeOK
    <3>2. \A t \in TradeIds : [rows[t] EXCEPT !.state = "closed"] \in Trade
      BY <3>1 DEF Trade
    <3> QED BY <2>1, <3>1, <3>2
  <2> QED BY <1>3, <2>2 DEF CancelOpenPositions, TypeOK
<1>4. CASE Restart
  <2>1. Settled \in Int /\ row.realized \in Int
    BY SettledType DEF TypeOK, Account
  <2>2. session.n + 1 \in 0 .. MaxRestarts
    BY <1>4, SimulatorAssumption DEF Restart, TypeOK
  <2>3. at' \in [Procs -> Locals]
    BY <1>4 DEF Restart, Locals
  <2>4. /\ session'.since \in 1 .. MaxTrades + 1 /\ session'.settled \in Int
        /\ session'.realized \in Int /\ session'.n \in 0 .. MaxRestarts
    BY <1>4, <2>1, <2>2 DEF Restart, TypeOK
  <2> QED BY <1>4, <2>3, <2>4 DEF Restart, TypeOK, Locals
<1> QED BY <1>1, <1>2, <1>3, <1>4, FillType, CheckType DEF Next

\* The account, its copies, the rows and the goroutines stay well typed,
\* whatever fails.
THEOREM TypeCorrect == Spec => []TypeOK
<1> QED BY InitType, NextType, PTL DEF Spec
-----------------------------------------------------------------------------
(* Every account adds up, the copies on their way to the table too. *)

CopiesBalanced == \A p \in Procs : at[p].step # "idle" => Balanced(at[p].copy)

BalanceInv == TypeOK /\ EquityAddsUp /\ CopiesBalanced

LEMMA NewBalanced == Balanced(NewAccount)
  BY SimulatorAssumption DEF Balanced, NewAccount

LEMMA GoesBalanced ==
  ASSUME TypeOK, CopiesBalanced, NEW p \in Procs, NEW local, Goes(p, local),
         local = Idle \/ Balanced(local.copy)
  PROVE  CopiesBalanced'
<1> SUFFICES ASSUME NEW q \in Procs, at'[q].step # "idle"
             PROVE  Balanced(at'[q].copy)
  BY DEF CopiesBalanced, Balanced
<1>1. CASE q = p
  BY <1>1 DEF Goes, TypeOK, Idle
<1>2. CASE q # p
  BY <1>2 DEF Goes, TypeOK, CopiesBalanced
<1> QED BY <1>1, <1>2

LEMMA ContinuesBalanced ==
  ASSUME TypeOK, CopiesBalanced, NEW p \in Procs, NEW todo, Continues(p, todo)
  PROVE  CopiesBalanced'
<1>1. Balanced(Local("visit", todo, Nothing, NewAccount).copy)
  BY NewBalanced DEF Local
<1> QED BY <1>1, GoesBalanced DEF Continues

LEMMA CheckBalanced ==
  ASSUME BalanceInv, NEW p \in Procs, Check(p)
  PROVE  EquityAddsUp' /\ CopiesBalanced'
<1> USE DEF BalanceInv
<1>0. \A s, todo, item : Balanced(Local(s, todo, item, NewAccount).copy)
  BY NewBalanced DEF Local
<1>1. CASE BeginCheck(p)
  <2>1. CopiesBalanced'
    BY <1>0, <1>1, GoesBalanced DEF BeginCheck
  <2> QED BY <1>1, <2>1 DEF BeginCheck, EquityAddsUp, Balanced
<1>2. CASE GetOpen(p) \/ GetOpenFails(p)
  <2>1. CopiesBalanced'
    BY <1>2, ContinuesBalanced DEF GetOpen, GetOpenFails
  <2> QED BY <1>2, <2>1 DEF GetOpen, GetOpenFails, EquityAddsUp, Balanced
<1>3. CASE Visit(p)
  <2>1. PICK it \in at[p].todo :
          LET rest == at[p].todo \ {it}
              net  == PnLNet(it.row, ExitPrice(it.row, price))
          IN  \/ Continues(p, rest) /\ UNCHANGED mem
              \/ /\ mem' = Book(mem, it.t, net)
                 /\ Goes(p, Local("write", rest, Closing(it, net), NewAccount))
    BY <1>3 DEF Visit
  <2> DEFINE rest == at[p].todo \ {it}
             net  == PnLNet(it.row, ExitPrice(it.row, price))
  <2>2. CASE Continues(p, rest) /\ UNCHANGED mem
    <3>1. CopiesBalanced'
      BY <2>2, ContinuesBalanced
    <3> QED BY <1>3, <2>2, <3>1 DEF Visit, EquityAddsUp, Balanced
  <2>3. CASE /\ mem' = Book(mem, it.t, net)
             /\ Goes(p, Local("write", rest, Closing(it, net), NewAccount))
    <3>1. it \in Item
      BY <1>3, Under DEF Visit, Running
    <3>2. net \in Int
      <4>1. it.row \in Trade /\ price \in Int
        BY <3>1, SimulatorAssumption DEF Item, TypeOK, NoPrice
      <4> QED BY <4>1, ExitType, NetType
    <3> HIDE DEF net
    <3>3. /\ mem'.equity = mem.equity + net /\ mem'.realized = mem.realized + net
          /\ mem'.fees = mem.fees /\ mem \in Account
      BY <2>3, <3>2, Booked DEF TypeOK
    <3>4. Balanced(mem')
      BY <3>2, <3>3, SimulatorAssumption DEF EquityAddsUp, Balanced, Account
    <3>5. CopiesBalanced'
      BY <1>0, <2>3, GoesBalanced
    <3> QED BY <1>3, <3>4, <3>5 DEF Visit, EquityAddsUp, Balanced
  <2> QED BY <2>1, <2>2, <2>3
<1>4. CASE WriteTrade(p)
  <2>1. CopiesBalanced'
    BY <1>0, <1>4, GoesBalanced, ContinuesBalanced DEF WriteTrade
  <2> QED BY <1>4, <2>1 DEF WriteTrade, EquityAddsUp, Balanced
<1>5. CASE CopyAccount(p)
  <2>1. Balanced(Local("save", at[p].todo, Nothing, mem).copy)
    BY DEF Local, EquityAddsUp
  <2>2. CopiesBalanced'
    BY <1>5, <2>1, GoesBalanced DEF CopyAccount
  <2> QED BY <1>5, <2>2 DEF CopyAccount, EquityAddsUp, Balanced
<1>6. CASE SaveAccount(p)
  <2>1. CopiesBalanced'
    BY <1>6, ContinuesBalanced DEF SaveAccount
  <2>2. Balanced(at[p].copy)
    BY <1>6 DEF SaveAccount, CopiesBalanced
  <2> QED BY <1>6, <2>1, <2>2 DEF SaveAccount, EquityAddsUp, Balanced
<1> QED BY <1>1, <1>2, <1>3, <1>4, <1>5, <1>6 DEF Check

\* Whatever fails and wherever a crash cuts, the account in memory and the one
\* in the table each say that the equity is the start, less the entry fees,
\* plus the realized profit: a copy is taken of one moment, and charge and
\* booking move both sides at once.
THEOREM AccountsAddUp == Spec => []EquityAddsUp
<1>1. Init => BalanceInv
  <2>1. ASSUME Init PROVE EquityAddsUp /\ CopiesBalanced
    BY <2>1, NewBalanced DEF Init, EquityAddsUp, CopiesBalanced, Idle
  <2> QED BY <2>1, InitType DEF BalanceInv
<1>2. BalanceInv /\ [Next]_vars => BalanceInv'
  <2> SUFFICES ASSUME BalanceInv, [Next]_vars PROVE EquityAddsUp' /\ CopiesBalanced'
    BY NextType DEF BalanceInv
  <2> USE DEF BalanceInv
  <2>1. CASE PriceMoves \/ CancelOpenPositions \/ UNCHANGED vars
    BY <2>1 DEF PriceMoves, CancelOpenPositions, vars, EquityAddsUp, CopiesBalanced, Balanced
  <2>2. ASSUME NEW plan \in Plans, SimulateFill(plan)
        PROVE  EquityAddsUp' /\ CopiesBalanced'
    <3> DEFINE fill == Toward(plan.side, price, Slippage)
               fee  == Fee(plan.qty, fill)
               local == Local("insert", {}, [t |-> nextTrade, row |-> Filled(plan, fill)],
                              NewAccount)
    <3>1. fill \in Int /\ plan.qty \in Int
      BY SimulatorAssumption, TowardType DEF TypeOK, NoPrice, Plan
    <3>2. fee \in Int
      BY <3>1, FeeType
    <3>3. mem' = ChargeEntry(mem, fee) /\ Goes("cycle", local) /\ row' = row
      BY <2>2 DEF SimulateFill
    <3>4. CopiesBalanced'
      BY <3>3, NewBalanced, GoesBalanced DEF Local, Procs
    <3> HIDE DEF fill, fee, local
    <3>5. /\ mem'.equity = mem.equity - fee /\ mem'.fees = mem.fees + fee
          /\ mem'.realized = mem.realized /\ mem \in Account
      BY <3>2, <3>3, Charged DEF TypeOK
    <3>6. Balanced(mem')
      BY <3>2, <3>5, SimulatorAssumption DEF EquityAddsUp, Balanced, Account
    <3> QED BY <3>3, <3>4, <3>6 DEF EquityAddsUp, Balanced
  <2>3. CASE InsertTrade
    <3>1. Balanced(Local("copy", {}, Nothing, NewAccount).copy) /\ "cycle" \in Procs
      BY NewBalanced DEF Local, Procs
    <3>2. CopiesBalanced'
      BY <2>3, <3>1, GoesBalanced DEF InsertTrade
    <3> QED BY <2>3, <3>2 DEF InsertTrade, EquityAddsUp, Balanced
  <2>4. CASE Restart
    BY <2>4 DEF Restart, EquityAddsUp, CopiesBalanced, Balanced, Idle
  <2> QED BY <2>1, <2>2, <2>3, <2>4, CheckBalanced DEF Next
<1> QED BY <1>1, <1>2, PTL DEF Spec, BalanceInv
-----------------------------------------------------------------------------
(* The trades' rows and the goroutines that work on them, when no UPDATE of *)
(* a trade fails. checkMu admits one check, so the trades a check has read  *)
(* are still open when it visits them; a fill that has no row yet is not    *)
(* among them.                                                              *)

Working(p) == at[p].step \in {"load", "visit", "write"} \/ at[p].todo # {}

ToVisit(p) == \A it \in at[p].todo : it.row = rows[it.t] /\ it.row.state = "open"

ToWrite(p) ==
  /\ at[p].item \in Item /\ at[p].item.row.state = "closed"
  /\ rows[at[p].item.t].state = "open"
  /\ \A it \in at[p].todo : it.t # at[p].item.t

ToInsert(p) ==
  /\ p = "cycle" /\ at[p].todo = {}
  /\ at[p].item \in Item /\ at[p].item.t < nextTrade
  /\ at[p].item.row.state = "open" /\ at[p].item.row.net = 0
  /\ rows[at[p].item.t] = NoTrade

LocalOK(p) ==
  at[p].step # "idle" =>
    /\ Working(p) => checkMu = p
    /\ ToVisit(p)
    /\ at[p].step = "write" => ToWrite(p)
    /\ at[p].step = "insert" => ToInsert(p)

RowsOK ==
  \A t \in TradeIds :
    /\ rows[t].state # "closed" => rows[t].net = 0
    /\ t >= nextTrade => rows[t] = NoTrade

BookInv == RowsOK /\ \A p \in Procs : LocalOK(p)

\* A goroutine that moves on without touching the rows, and gives checkMu up
\* or takes it when it is free, disturbs no other.
LEMMA OthersKeep ==
  ASSUME TypeOK, BookInv, NEW p \in Procs, NEW q \in Procs, q # p,
         NEW local, Goes(p, local), UNCHANGED <<rows, nextTrade>>,
         checkMu' = checkMu \/ checkMu \in {p, Free}
  PROVE  LocalOK(q)'
<1>1. at'[q] = at[q] /\ LocalOK(q)
  BY DEF Goes, TypeOK, BookInv
<1>2. at[q].step # "idle" /\ Working(q) => checkMu = q
  BY <1>1 DEF LocalOK
<1>3. q # Free
  BY DEF Procs, Free
<1>4. at[q].step # "idle" /\ Working(q) => checkMu' = q
  BY <1>2, <1>3
<1> QED BY <1>1, <1>4 DEF LocalOK, Working, ToVisit, ToWrite, ToInsert

LEMMA MovesOn ==
  ASSUME TypeOK, BookInv, NEW p \in Procs, NEW local, Goes(p, local),
         UNCHANGED <<rows, nextTrade>>, checkMu' = checkMu \/ checkMu \in {p, Free},
         LocalOK(p)'
  PROVE  BookInv'
<1>1. RowsOK'
  BY DEF BookInv, RowsOK
<1>2. \A q \in Procs : LocalOK(q)'
  <2> TAKE q \in Procs
  <2>1. CASE q = p
    BY <2>1
  <2>2. CASE q # p
    BY <2>2, OthersKeep
  <2> QED BY <2>1, <2>2
<1> QED BY <1>1, <1>2 DEF BookInv

LEMMA ContinuesLocal ==
  ASSUME TypeOK, NEW p \in Procs, NEW todo, Continues(p, todo),
         todo # {} => checkMu = p,
         \A it \in todo : it.row = rows'[it.t] /\ it.row.state = "open"
  PROVE  LocalOK(p)' /\ (checkMu' = checkMu \/ checkMu \in {p, Free})
         /\ (\E local : Goes(p, local)) /\ at'[p].step \in {"idle", "visit"}
<1>1. CASE todo = {}
  <2>1. at'[p] = Idle /\ Goes(p, Idle)
    BY <1>1 DEF Continues, Goes, TypeOK
  <2> QED BY <1>1, <2>1 DEF Continues, LocalOK, Idle
<1>2. CASE todo # {}
  <2> DEFINE local == Local("visit", todo, Nothing, NewAccount)
  <2>1. at'[p] = local /\ Goes(p, local) /\ checkMu' = checkMu
    BY <1>2 DEF Continues, Goes, TypeOK
  <2>2. local.step = "visit" /\ local.todo = todo
    BY DEF Local
  <2> HIDE DEF local
  <2> QED BY <1>2, <2>1, <2>2 DEF LocalOK, Working, ToVisit
<1> QED BY <1>1, <1>2

\* Two open trades on a list differ in their numbers.
LEMMA TradesApart ==
  ASSUME TypeOK, NEW p \in Procs, at[p].step # "idle", ToVisit(p),
         NEW it \in at[p].todo, NEW other \in at[p].todo, other # it
  PROVE  other.t # it.t
<1>1. it \in Item /\ other \in Item
  BY Under DEF Running
<1>2. it.row = rows[it.t] /\ other.row = rows[other.t]
  BY DEF ToVisit
<1> QED BY <1>1, <1>2 DEF Item

LEMMA VisitKeepsBook ==
  ASSUME TypeOK, BookInv, NEW p \in Procs, Visit(p)
  PROVE  BookInv'
<1>1. PICK it \in at[p].todo :
        LET rest == at[p].todo \ {it}
            net  == PnLNet(it.row, ExitPrice(it.row, price))
        IN  \/ Continues(p, rest)
            \/ /\ Goes(p, Local("write", rest, Closing(it, net), NewAccount))
               /\ UNCHANGED checkMu
  BY DEF Visit
<1> DEFINE rest == at[p].todo \ {it}
           net  == PnLNet(it.row, ExitPrice(it.row, price))
<1>2. at[p].step # "idle" /\ checkMu = p /\ ToVisit(p) /\ UNCHANGED <<rows, nextTrade>>
  BY DEF Visit, BookInv, LocalOK, Working
<1>3. it \in Item /\ \A other \in rest : other.t # it.t
  BY <1>2, TradesApart, Under DEF Running
<1>4. CASE Continues(p, rest)
  <2>1. \A other \in rest : other.row = rows'[other.t] /\ other.row.state = "open"
    BY <1>2 DEF ToVisit
  <2> HIDE DEF rest
  <2>2. LocalOK(p)' /\ \E local : Goes(p, local)
    BY <1>2, <1>4, <2>1, ContinuesLocal
  <2>3. checkMu' = checkMu \/ checkMu \in {p, Free}
    BY <1>2
  <2> QED BY <1>2, <2>2, <2>3, MovesOn
<1>5. CASE /\ Goes(p, Local("write", rest, Closing(it, net), NewAccount))
           /\ UNCHANGED checkMu
  <2>1. net \in Int
    <3>1. it.row \in Trade /\ price \in Int
      BY <1>3, SimulatorAssumption DEF Item, TypeOK, NoPrice
    <3> QED BY <3>1, ExitType, NetType
  <2> DEFINE c == Closing(it, net)
             local == Local("write", rest, c, NewAccount)
  <2>2. c \in Item /\ c.t = it.t /\ c.row.state = "closed"
    BY <1>3, <2>1, ClosingType
  <2>3. rows[it.t].state = "open" /\ \A other \in rest : other \in at[p].todo
    BY <1>2 DEF ToVisit
  <2> HIDE DEF c, rest
  <2>4. local.step = "write" /\ local.todo = rest /\ local.item = c
    BY DEF Local
  <2>5. at'[p] = local /\ Goes(p, local)
    BY <1>5 DEF Goes, TypeOK, c
  <2> HIDE DEF local
  <2>6. ToVisit(p)'
    BY <1>2, <2>3, <2>4, <2>5 DEF ToVisit
  <2>7. ToWrite(p)'
    BY <1>2, <1>3, <2>2, <2>3, <2>4, <2>5 DEF ToWrite, rest
  <2>8. LocalOK(p)'
    BY <1>2, <1>5, <2>4, <2>5, <2>6, <2>7 DEF LocalOK
  <2> QED BY <1>2, <1>5, <2>5, <2>8, MovesOn
<1> QED BY <1>1, <1>4, <1>5

\* The UPDATE of a trade, when it is made: no one else is checking, and a fill
\* on its way to its row is of another trade.
LEMMA WriteKeepsBook ==
  ASSUME TypeOK, BookInv, "close" \notin Faults, NEW p \in Procs, WriteTrade(p)
  PROVE  BookInv'
<1> DEFINE it == at[p].item
           local == Local("copy", at[p].todo, Nothing, NewAccount)
<1>1. /\ at[p].step = "write" /\ Goes(p, local) /\ UNCHANGED <<checkMu, nextTrade>>
      /\ rows' = [rows EXCEPT ![it.t] = it.row]
  BY DEF WriteTrade, Fails
<1>2. ToWrite(p) /\ ToVisit(p) /\ checkMu = p
  BY <1>1 DEF BookInv, LocalOK, Working
<1>3. it.t \in TradeIds /\ it.row.state = "closed" /\ rows[it.t].state = "open"
  BY <1>2 DEF ToWrite, Item
<1>4. local.step = "copy" /\ local.todo = at[p].todo /\ at'[p] = local
  BY <1>1 DEF Local, Goes, TypeOK
<1> HIDE DEF local
<1>5. RowsOK'
  BY <1>1, <1>3 DEF BookInv, RowsOK, TypeOK, NoTrade
<1>6. LocalOK(p)'
  <2>1. \A other \in at[p].todo : other \in Item /\ other.t # it.t
    BY <1>1, <1>2, Under DEF ToWrite, Running
  <2>2. ToVisit(p)'
    BY <1>1, <1>2, <1>4, <2>1 DEF ToVisit, TypeOK, Item
  <2> QED BY <1>1, <1>2, <1>4, <2>2 DEF LocalOK
<1>7. ASSUME NEW q \in Procs, q # p PROVE LocalOK(q)'
  <2>1. at'[q] = at[q] /\ LocalOK(q)
    BY <1>1, <1>7 DEF Goes, TypeOK, BookInv
  <2>2. CASE at[q].step = "idle"
    BY <2>1, <2>2 DEF LocalOK
  <2>3. CASE at[q].step # "idle"
    <3>1. at[q].todo = {} /\ at[q].step \notin {"load", "visit", "write"}
      BY <1>2, <1>7, <2>1, <2>3 DEF LocalOK, Working
    <3>2. at[q].step = "insert" => ToInsert(q)'
      <4> SUFFICES ASSUME at[q].step = "insert" PROVE ToInsert(q)'
        OBVIOUS
      <4>1. ToInsert(q)
        BY <2>1, <2>3 DEF LocalOK
      <4>2. at[q].item.t # it.t /\ at[q].item.t \in TradeIds
        BY <1>3, <4>1 DEF ToInsert, NoTrade, Item
      <4> QED BY <1>1, <2>1, <4>1, <4>2 DEF ToInsert, TypeOK
    <3> QED BY <2>1, <3>1, <3>2 DEF LocalOK, Working, ToVisit
  <2> QED BY <2>2, <2>3
<1> QED BY <1>5, <1>6, <1>7 DEF BookInv

LEMMA InsertKeepsBook ==
  ASSUME TypeOK, BookInv, InsertTrade
  PROVE  BookInv'
<1> DEFINE it == at["cycle"].item
           local == Local("copy", {}, Nothing, NewAccount)
<1>0. "cycle" \in Procs /\ at["cycle"].step # "idle"
  BY DEF Procs, InsertTrade
<1>1. ToInsert("cycle")
  BY <1>0 DEF InsertTrade, BookInv, LocalOK
<1>2. it.t \in TradeIds /\ it.row.state = "open" /\ it.row.net = 0 /\ it.t < nextTrade
      /\ rows[it.t] = NoTrade
  BY <1>1 DEF ToInsert, Item
<1>3. local.step = "copy" /\ local.todo = {}
  BY DEF Local
<1> HIDE DEF local
<1>4. CASE Goes("cycle", Idle) /\ UNCHANGED rows
  <2>1. LocalOK("cycle")'
    BY <1>0, <1>4 DEF LocalOK, Goes, TypeOK, Idle
  <2> QED BY <1>0, <1>4, <2>1, MovesOn DEF InsertTrade
<1>5. CASE Goes("cycle", local) /\ rows' = [rows EXCEPT ![it.t] = it.row]
  <2>0. at'["cycle"] = local
    BY <1>0, <1>5 DEF Goes, TypeOK
  <2>1. LocalOK("cycle")'
    <3>1. /\ at'["cycle"].step = "copy" /\ ~Working("cycle")' /\ ToVisit("cycle")'
      BY <1>3, <2>0 DEF Working, ToVisit
    <3> QED BY <3>1 DEF LocalOK
  <2>2. RowsOK'
    <3>1. nextTrade' = nextTrade /\ nextTrade \in Int /\ TradeIds \subseteq Int
      BY SimulatorAssumption DEF InsertTrade, TypeOK, TradeIds
    <3>2. \A t \in TradeIds : rows'[t] = IF t = it.t THEN it.row ELSE rows[t]
      BY <1>5 DEF TypeOK
    <3> HIDE DEF it
    <3> QED BY <1>2, <3>1, <3>2 DEF BookInv, RowsOK
  <2>3. ASSUME NEW q \in Procs, q # "cycle" PROVE LocalOK(q)'
    <3>1. at'[q] = at[q] /\ LocalOK(q)
      BY <1>5, <2>3 DEF Goes, TypeOK, BookInv
    <3>2. SUFFICES ASSUME at[q].step # "idle" PROVE LocalOK(q)'
      BY <3>1 DEF LocalOK
    <3>3. at[q] \in Running /\ at[q].step # "insert"
      BY <2>3, <3>1, <3>2, Under DEF LocalOK, ToInsert
    <3>4. ToVisit(q)'
      <4> SUFFICES ASSUME NEW other \in at[q].todo
                   PROVE  other.row = rows'[other.t] /\ other.row.state = "open"
        BY <3>1 DEF ToVisit
      <4>1. /\ other \in Item /\ other.row = rows[other.t] /\ other.row.state = "open"
            /\ other.t \in TradeIds
        BY <3>1, <3>2, <3>3 DEF LocalOK, ToVisit, Running, Item
      <4>2. other.t # it.t
        BY <1>2, <4>1 DEF NoTrade
      <4> QED BY <1>5, <4>1, <4>2 DEF TypeOK
    <3>5. at[q].step = "write" => ToWrite(q)'
      <4> SUFFICES ASSUME at[q].step = "write" PROVE ToWrite(q)'
        OBVIOUS
      <4>1. ToWrite(q) /\ at[q].item.t \in TradeIds
        BY <3>1, <3>2 DEF LocalOK, ToWrite, Item
      <4>2. at[q].item.t # it.t
        BY <1>2, <4>1 DEF ToWrite, NoTrade
      <4> QED BY <1>5, <3>1, <4>1, <4>2 DEF ToWrite, TypeOK
    <3> QED BY <3>1, <3>2, <3>3, <3>4, <3>5 DEF LocalOK, Working, InsertTrade
  <2> QED BY <2>1, <2>2, <2>3 DEF BookInv
<1> QED BY <1>4, <1>5 DEF InsertTrade, local

LEMMA FillKeepsBook ==
  ASSUME TypeOK, BookInv, NEW plan \in Plans, SimulateFill(plan)
  PROVE  BookInv'
<1> DEFINE fill == Toward(plan.side, price, Slippage)
           it   == [t |-> nextTrade, row |-> Filled(plan, fill)]
           local == Local("insert", {}, it, NewAccount)
<1>1. price \in Nat /\ Slippage \in Nat /\ Slippage < price /\ MaxTrades \in Nat
  BY SimulatorAssumption DEF SimulateFill, TypeOK, NoPrice
<1>2. fill \in Nat
  BY <1>1 DEF Toward
<1>3. nextTrade \in TradeIds /\ nextTrade \in Int
  BY <1>1 DEF SimulateFill, TypeOK, TradeIds
<1>4. Goes("cycle", local) /\ nextTrade' = nextTrade + 1 /\ UNCHANGED <<rows, checkMu>>
  BY DEF SimulateFill
<1> HIDE DEF fill
<1>5. Filled(plan, fill) \in Trade /\ Filled(plan, fill).state = "open"
      /\ Filled(plan, fill).net = 0
  <2>1. Filled(plan, fill).state = "open" /\ Filled(plan, fill).net = 0
    BY DEF Filled
  <2> QED BY <1>2, <2>1, FilledType
<1>6. it \in Item /\ it.t = nextTrade /\ it.row.state = "open" /\ it.row.net = 0
  BY <1>3, <1>5 DEF Item
<1> HIDE DEF it
<1>7. "cycle" \in Procs /\ at'["cycle"] = local
  BY <1>4 DEF Goes, TypeOK, Procs
<1>8. local.step = "insert" /\ local.todo = {} /\ local.item = it
  BY DEF Local
<1> HIDE DEF local
<1>9. RowsOK'
  BY <1>3, <1>4 DEF BookInv, RowsOK, TradeIds
<1>10. LocalOK("cycle")'
  <2>1. rows[nextTrade] = NoTrade
    BY <1>3 DEF BookInv, RowsOK
  <2>2. ToInsert("cycle")'
    BY <1>3, <1>4, <1>6, <1>7, <1>8, <2>1 DEF ToInsert
  <2> QED BY <1>4, <1>7, <1>8, <2>2 DEF LocalOK, Working, ToVisit
<1>11. ASSUME NEW q \in Procs, q # "cycle" PROVE LocalOK(q)'
  <2>1. at'[q] = at[q] /\ LocalOK(q)
    BY <1>4, <1>11 DEF Goes, TypeOK, BookInv
  <2> QED BY <1>4, <1>11, <2>1 DEF LocalOK, Working, ToVisit, ToWrite, ToInsert
<1> QED BY <1>9, <1>10, <1>11 DEF BookInv

LEMMA BookInvariant ==
  ASSUME TypeOK, BookInv, "close" \notin Faults, [Next]_vars
  PROVE  BookInv'
<1>1. CASE PriceMoves \/ UNCHANGED vars
  <2>1. UNCHANGED <<rows, checkMu, at, nextTrade>>
    BY <1>1 DEF PriceMoves, vars
  <2> QED BY <2>1 DEF BookInv, RowsOK, LocalOK, Working, ToVisit, ToWrite, ToInsert
<1>2. CASE CancelOpenPositions
  <2>1. PICK S \in SUBSET {it.t : it \in OpenTrades} :
          rows' = [t \in TradeIds |-> IF t \in S THEN [rows[t] EXCEPT !.state = "closed"]
                                      ELSE rows[t]]
    BY <1>2 DEF CancelOpenPositions
  <2>2. \A t \in S : rows[t].state = "open"
    BY DEF OpenTrades
  <2>3. RowsOK'
    <3> SUFFICES ASSUME NEW t \in TradeIds
                 PROVE  /\ rows'[t].state # "closed" => rows'[t].net = 0
                        /\ t >= nextTrade => rows'[t] = NoTrade
      BY <1>2 DEF RowsOK, CancelOpenPositions
    <3>1. CASE t \in S
      <4>1. rows[t].state = "open" /\ rows[t] \in Trade
        BY <2>2, <3>1 DEF TypeOK
      <4>2. rows'[t] = [rows[t] EXCEPT !.state = "closed"]
        BY <2>1, <3>1
      <4>3. rows'[t].state = "closed"
        BY <4>1, <4>2 DEF Trade
      <4> QED BY <4>1, <4>3 DEF BookInv, RowsOK, NoTrade
    <3>2. CASE t \notin S
      BY <2>1, <3>2 DEF BookInv, RowsOK
    <3> QED BY <3>1, <3>2
  <2>4. \A p \in Procs : LocalOK(p)'
    BY <1>2 DEF CancelOpenPositions, LocalOK, Idle
  <2> QED BY <2>3, <2>4 DEF BookInv
<1>3. CASE Restart
  BY <1>3 DEF Restart, BookInv, RowsOK, LocalOK, Idle
<1>4. ASSUME NEW p \in Procs, Check(p) PROVE BookInv'
  <2>1. CASE BeginCheck(p)
    <3> DEFINE local == Local("load", {}, Nothing, NewAccount)
    <3>1. local.step = "load" /\ local.todo = {}
      BY DEF Local
    <3>2. /\ at'[p] = local /\ Goes(p, local) /\ checkMu' = p /\ checkMu = Free
          /\ UNCHANGED <<rows, nextTrade>>
      BY <2>1 DEF BeginCheck, MayCheck, Goes, TypeOK
    <3> HIDE DEF local
    <3>3. LocalOK(p)'
      BY <3>1, <3>2 DEF LocalOK, Working, ToVisit
    <3> QED BY <3>2, <3>3, MovesOn
  <2>2. CASE GetOpen(p) \/ GetOpenFails(p)
    <3>1. PICK todo \in {OpenTrades, {}} : Continues(p, todo)
      BY <2>2 DEF GetOpen, GetOpenFails
    <3>2. /\ at[p].step = "load" /\ checkMu = p /\ UNCHANGED <<rows, nextTrade>>
      BY <2>2 DEF GetOpen, GetOpenFails, BookInv, LocalOK, Working
    <3>3. \A it \in todo : it.row = rows'[it.t] /\ it.row.state = "open"
      BY <3>1, <3>2 DEF OpenTrades
    <3>4. LocalOK(p)' /\ \E local : Goes(p, local)
      BY <3>1, <3>2, <3>3, ContinuesLocal
    <3> QED BY <3>2, <3>4, MovesOn
  <2>3. CASE CopyAccount(p)
    <3> DEFINE local == Local("save", at[p].todo, Nothing, mem)
    <3>1. local.step = "save" /\ local.todo = at[p].todo
      BY DEF Local
    <3>2. /\ at'[p] = local /\ Goes(p, local) /\ at[p].step = "copy"
          /\ UNCHANGED <<rows, nextTrade, checkMu>>
      BY <2>3 DEF CopyAccount, Goes, TypeOK
    <3> HIDE DEF local
    <3>3. LocalOK(p)'
      BY <3>1, <3>2 DEF BookInv, LocalOK, Working, ToVisit
    <3> QED BY <3>2, <3>3, MovesOn
  <2>4. CASE SaveAccount(p)
    <3>1. at[p].step = "save" /\ Continues(p, at[p].todo) /\ UNCHANGED <<rows, nextTrade>>
      BY <2>4 DEF SaveAccount
    <3>2. /\ at[p].todo # {} => checkMu = p
          /\ \A it \in at[p].todo : it.row = rows'[it.t] /\ it.row.state = "open"
      BY <3>1 DEF BookInv, LocalOK, Working, ToVisit
    <3>3. /\ LocalOK(p)' /\ \E local : Goes(p, local)
          /\ checkMu' = checkMu \/ checkMu \in {p, Free}
      BY <3>1, <3>2, ContinuesLocal
    <3> QED BY <3>1, <3>3, MovesOn
  <2> QED BY <1>4, <2>1, <2>2, <2>3, <2>4, VisitKeepsBook, WriteKeepsBook DEF Check
<1> QED BY <1>1, <1>2, <1>3, <1>4, FillKeepsBook, InsertKeepsBook DEF Next

LEMMA InitBook == Init => BookInv
  BY SimulatorAssumption
  DEF Init, BookInv, RowsOK, LocalOK, Idle, NoTrade
-----------------------------------------------------------------------------
(* The refinement of TradeBook: a row's INSERT opens its trade, its UPDATE  *)
(* settles it, a reset cancels what is open, and everything else leaves the *)
(* trades and the settled profit as they are.                               *)

Results == [t \in TradeIds |-> [state |-> rows[t].state, net |-> rows[t].net]]

LEMMA SameSettled ==
  ASSUME TypeOK, mem'.realized = mem.realized, UNCHANGED session,
         \A p \in Procs : InFlight(p)' = InFlight(p)
  PROVE  Settled' = Settled
<1>1. InFlight("ticker")' = InFlight("ticker") /\ InFlight("cycle")' = InFlight("cycle")
  BY DEF Procs
<1> QED BY <1>1 DEF Settled

LEMMA SameInFlight ==
  ASSUME TypeOK, NEW p \in Procs, NEW local, Goes(p, local),
         at[p].step # "write", local.step # "write"
  PROVE  \A q \in Procs : InFlight(q)' = InFlight(q)
<1> SUFFICES ASSUME NEW q \in Procs PROVE InFlight(q)' = InFlight(q)
  OBVIOUS
<1>1. CASE q = p
  BY <1>1 DEF Goes, TypeOK, InFlight
<1>2. CASE q # p
  BY <1>2 DEF Goes, TypeOK, InFlight
<1> QED BY <1>1, <1>2

LEMMA ContinuesInFlight ==
  ASSUME TypeOK, NEW p \in Procs, NEW todo, Continues(p, todo), at[p].step # "write"
  PROVE  \A q \in Procs : InFlight(q)' = InFlight(q)
<1>1. Idle.step # "write" /\ Local("visit", todo, Nothing, NewAccount).step # "write"
  BY DEF Idle, Local
<1> QED BY <1>1, SameInFlight DEF Continues

\* Of two amounts in flight, the one of p changes.
LEMMA OneInFlight ==
  ASSUME TypeOK, NEW p \in Procs, NEW d \in Int, InFlight(p)' = InFlight(p) + d,
         \A q \in Procs \ {p} : InFlight(q)' = InFlight(q)
  PROVE  InFlight("ticker")' + InFlight("cycle")' = InFlight("ticker") + InFlight("cycle") + d
<1>1. InFlight("ticker") \in Int /\ InFlight("cycle") \in Int
  BY InFlightType DEF Procs
<1>2. CASE p = "ticker"
  <2>1. InFlight("cycle")' = InFlight("cycle") /\ InFlight("ticker")' = InFlight("ticker") + d
    BY <1>2 DEF Procs
  <2> QED BY <1>1, <2>1
<1>3. CASE p = "cycle"
  <2>1. InFlight("ticker")' = InFlight("ticker") /\ InFlight("cycle")' = InFlight("cycle") + d
    BY <1>3 DEF Procs
  <2> QED BY <1>1, <2>1
<1> QED BY <1>2, <1>3 DEF Procs

LEMMA VisitSettlesNothing ==
  ASSUME TypeOK, NEW p \in Procs, Visit(p)
  PROVE  Settled' = Settled
<1>1. PICK it \in at[p].todo :
        LET rest == at[p].todo \ {it}
            net  == PnLNet(it.row, ExitPrice(it.row, price))
        IN  \/ Continues(p, rest) /\ UNCHANGED mem
            \/ /\ mem' = Book(mem, it.t, net)
               /\ Goes(p, Local("write", rest, Closing(it, net), NewAccount))
  BY DEF Visit
<1> DEFINE rest == at[p].todo \ {it}
           net  == PnLNet(it.row, ExitPrice(it.row, price))
<1>2. at[p].step = "visit" /\ UNCHANGED session
  BY DEF Visit
<1>3. CASE Continues(p, rest) /\ UNCHANGED mem
  <2>1. \A q \in Procs : InFlight(q)' = InFlight(q)
    BY <1>2, <1>3, ContinuesInFlight
  <2> QED BY <1>2, <1>3, <2>1, SameSettled
<1>4. CASE /\ mem' = Book(mem, it.t, net)
           /\ Goes(p, Local("write", rest, Closing(it, net), NewAccount))
  <2>1. it \in Item
    BY <1>2, Under DEF Running
  <2>2. net \in Int
    <3>1. it.row \in Trade /\ price \in Int
      BY <2>1, SimulatorAssumption DEF Item, TypeOK, NoPrice
    <3> QED BY <3>1, ExitType, NetType
  <2> DEFINE c == Closing(it, net)
             local == Local("write", rest, c, NewAccount)
  <2>3. c.row.net = net
    BY <2>1, <2>2, ClosingType
  <2>4. Goes(p, local) /\ mem' = Book(mem, it.t, net)
    BY <1>4
  <2> HIDE DEF c, net, rest
  <2>5. local.step = "write" /\ local.item = c
    BY DEF Local
  <2> HIDE DEF local
  <2>6. InFlight(p)' = net /\ InFlight(p) = 0
    BY <1>2, <2>3, <2>4, <2>5 DEF Goes, TypeOK, InFlight
  <2>7. \A q \in Procs \ {p} : InFlight(q)' = InFlight(q)
    BY <2>4 DEF Goes, TypeOK, InFlight
  <2>8. InFlight("ticker")' + InFlight("cycle")'
          = InFlight("ticker") + InFlight("cycle") + net
    BY <2>2, <2>6, <2>7, OneInFlight
  <2>9. mem'.realized = mem.realized + net
    BY <2>2, <2>4, Booked DEF TypeOK
  <2>10. /\ InFlight("ticker") \in Int /\ InFlight("cycle") \in Int
         /\ InFlight("ticker")' \in Int /\ InFlight("cycle")' \in Int
    <3>1. InFlight("ticker") \in Int /\ InFlight("cycle") \in Int
      BY InFlightType DEF Procs
    <3>2. \A q \in Procs : InFlight(q)' \in Int
      BY <2>2, <2>6, <2>7, InFlightType
    <3> QED BY <3>1, <3>2 DEF Procs
  <2> QED BY <1>2, <2>2, <2>8, <2>9, <2>10 DEF Settled, TypeOK, Account
<1> QED BY <1>1, <1>3, <1>4

LEMMA WriteSettles ==
  ASSUME TypeOK, BookInv, "close" \notin Faults, NEW p \in Procs, WriteTrade(p)
  PROVE  \E t \in TradeIds : Promised!Settle(t)
<1> DEFINE it == at[p].item
           local == Local("copy", at[p].todo, Nothing, NewAccount)
<1>1. /\ at[p].step = "write" /\ Goes(p, local) /\ UNCHANGED <<mem, session>>
      /\ rows' = [rows EXCEPT ![it.t] = it.row]
  BY DEF WriteTrade, Fails
<1>2. it \in Item /\ it.row.state = "closed" /\ rows[it.t].state = "open"
  BY <1>1 DEF BookInv, LocalOK, ToWrite
<1>3. it.t \in TradeIds /\ it.row \in Trade /\ it.row.net \in Int /\ rows[it.t].net = 0
  BY <1>2 DEF Item, Trade, BookInv, RowsOK
<1>4. local.step = "copy"
  BY DEF Local
<1> HIDE DEF local
<1>5. InFlight(p) = it.row.net /\ InFlight(p)' = 0
  BY <1>1, <1>4 DEF Goes, TypeOK, InFlight
<1>6. \A q \in Procs \ {p} : InFlight(q)' = InFlight(q)
  BY <1>1 DEF Goes, TypeOK, InFlight
<1> HIDE DEF it
<1>7. Settled' = Settled + it.row.net
  <2>1. -it.row.net \in Int /\ InFlight(p)' = InFlight(p) + (-it.row.net)
    BY <1>3, <1>5
  <2>2. InFlight("ticker")' + InFlight("cycle")'
          = InFlight("ticker") + InFlight("cycle") + (-it.row.net)
    BY <1>6, <2>1, OneInFlight
  <2>3. /\ InFlight("ticker") \in Int /\ InFlight("cycle") \in Int
        /\ InFlight("ticker")' \in Int /\ InFlight("cycle")' \in Int
    <3>1. InFlight("ticker") \in Int /\ InFlight("cycle") \in Int
      BY InFlightType DEF Procs
    <3>2. \A q \in Procs : InFlight(q)' \in Int
      BY <1>5, <1>6, InFlightType
    <3> QED BY <3>1, <3>2 DEF Procs
  <2> QED BY <1>1, <1>3, <2>2, <2>3 DEF Settled, TypeOK, Account
<1>8. Results[it.t] = [state |-> "open", net |-> 0]
  BY <1>2, <1>3 DEF Results
<1>9. Results' = [Results EXCEPT ![it.t] = [state |-> "closed", net |-> it.row.net]]
  BY <1>1, <1>2, <1>3 DEF Results, TypeOK
<1>10. Results'[it.t] = [state |-> "closed", net |-> it.row.net]
  BY <1>3, <1>9 DEF Results
<1>11. Results' = [Results EXCEPT ![it.t] = Results'[it.t]]
  BY <1>9, <1>10
<1>12. PICK t \in TradeIds : t = it.t
  BY <1>3
<1>13. Promised!Settle(t)
  BY <1>3, <1>7, <1>8, <1>10, <1>11, <1>12
  DEF Promised!Settle, Promised!Opened, Promised!Entry, Results
<1> QED BY <1>13

LEMMA InsertOpens ==
  ASSUME TypeOK, BookInv, InsertTrade
  PROVE  Promised!Next \/ UNCHANGED Promised!vars
<1> DEFINE it == at["cycle"].item
<1>0. "cycle" \in Procs /\ at["cycle"].step = "insert" /\ UNCHANGED <<mem, session>>
  BY DEF Procs, InsertTrade
<1>1. Settled' = Settled
  <2>1. Idle.step # "write" /\ Local("copy", {}, Nothing, NewAccount).step # "write"
    BY DEF Idle, Local
  <2>2. \A q \in Procs : InFlight(q)' = InFlight(q)
    BY <1>0, <2>1, SameInFlight DEF InsertTrade
  <2> QED BY <1>0, <2>2, SameSettled
<1>2. ToInsert("cycle")
  BY <1>0 DEF BookInv, LocalOK
<1>3. /\ it.t \in TradeIds /\ it.row \in Trade /\ it.row.state = "open"
      /\ it.row.net = 0 /\ rows[it.t] = NoTrade
  BY <1>2 DEF ToInsert, Item
<1>4. CASE UNCHANGED rows
  BY <1>1, <1>4 DEF Promised!vars
<1>5. CASE rows' = [rows EXCEPT ![it.t] = it.row]
  <2> HIDE DEF it
  <2>1. Results[it.t] = [state |-> "none", net |-> 0]
    BY <1>3 DEF Results, NoTrade
  <2>2. Results' = [Results EXCEPT ![it.t] = [state |-> "open", net |-> 0]]
    BY <1>3, <1>5 DEF Results, TypeOK
  <2>3. PICK t \in TradeIds : t = it.t
    BY <1>3
  <2>4. Promised!Open(t)
    BY <1>1, <2>1, <2>2, <2>3
    DEF Promised!Open, Promised!Unopened, Promised!Opened, Results
  <2> QED BY <2>4 DEF Promised!Next
<1> QED BY <1>4, <1>5 DEF InsertTrade

LEMMA CancelCancels ==
  ASSUME TypeOK, BookInv, CancelOpenPositions
  PROVE  Promised!Next
<1>1. PICK S \in SUBSET {it.t : it \in OpenTrades} :
        rows' = [t \in TradeIds |-> IF t \in S THEN [rows[t] EXCEPT !.state = "closed"]
                                    ELSE rows[t]]
  BY DEF CancelOpenPositions
<1>2. \A t \in S : t \in TradeIds /\ rows[t].state = "open"
  BY DEF OpenTrades
<1>3. \A t \in S : Results[t] = [state |-> "open", net |-> 0]
  BY <1>2 DEF Results, BookInv, RowsOK
<1>4. Results' = [t \in TradeIds |-> IF t \in S THEN [state |-> "closed", net |-> 0]
                                     ELSE Results[t]]
  <2>1. ASSUME NEW t \in TradeIds
        PROVE  Results'[t] = IF t \in S THEN [state |-> "closed", net |-> 0] ELSE Results[t]
    <3>1. CASE t \in S
      <4>1. rows[t] \in Trade /\ rows[t].net = 0
        BY <1>2, <3>1 DEF TypeOK, BookInv, RowsOK
      <4>2. rows'[t] = [rows[t] EXCEPT !.state = "closed"]
        BY <1>1, <3>1
      <4>3. rows'[t].state = "closed" /\ rows'[t].net = 0
        BY <4>1, <4>2 DEF Trade
      <4> QED BY <3>1, <4>3 DEF Results
    <3>2. CASE t \notin S
      BY <1>1, <3>2 DEF Results
    <3> QED BY <3>1, <3>2
  <2>2. Results' = [t \in TradeIds |-> Results'[t]]
    BY DEF Results
  <2> HIDE DEF Results
  <2> QED BY <2>1, <2>2
<1>5. Settled' = Settled
  <2>1. UNCHANGED <<mem, at, session>>
    BY DEF CancelOpenPositions
  <2> QED BY <2>1 DEF Settled, InFlight
<1>6. Promised!CancelAll(S)
  BY <1>3, <1>4, <1>5 DEF Promised!CancelAll, Promised!Opened, Promised!Cancelled, Results
<1>7. S \in SUBSET TradeIds
  BY <1>2
<1> QED BY <1>6, <1>7 DEF Promised!Next

LEMMA Refines ==
  ASSUME TypeOK, BookInv, "close" \notin Faults, [Next]_vars
  PROVE  [Promised!Next]_(Promised!vars)
<1>0. ASSUME UNCHANGED rows, Settled' = Settled PROVE UNCHANGED Promised!vars
  BY <1>0 DEF Promised!vars
<1>1. CASE PriceMoves \/ UNCHANGED vars
  <2>1. UNCHANGED <<rows, mem, at, session>>
    BY <1>1 DEF PriceMoves, vars
  <2>2. Settled' = Settled
    BY <2>1 DEF Settled, InFlight
  <2> QED BY <1>0, <2>1, <2>2
<1>2. ASSUME NEW plan \in Plans, SimulateFill(plan) PROVE UNCHANGED Promised!vars
  <2> DEFINE fill == Toward(plan.side, price, Slippage)
             fee == Fee(plan.qty, fill)
             local == Local("insert", {}, [t |-> nextTrade, row |-> Filled(plan, fill)],
                            NewAccount)
  <2>1. /\ Goes("cycle", local) /\ UNCHANGED <<rows, session>> /\ at["cycle"] = Idle
        /\ mem' = ChargeEntry(mem, fee)
    BY <1>2 DEF SimulateFill
  <2>2. local.step # "write" /\ at["cycle"].step # "write" /\ "cycle" \in Procs
    BY <2>1 DEF Local, Idle, Procs
  <2> HIDE DEF local, fee
  <2>3. \A q \in Procs : InFlight(q)' = InFlight(q)
    BY <2>1, <2>2, SameInFlight
  <2>4. mem'.realized = mem.realized
    BY <2>1 DEF ChargeEntry, TypeOK, Account
  <2> QED BY <1>0, <2>1, <2>3, <2>4, SameSettled
<1>3. ASSUME NEW p \in Procs, Check(p) PROVE Promised!Next \/ UNCHANGED Promised!vars
  <2>1. CASE Visit(p)
    BY <1>0, <2>1, VisitSettlesNothing DEF Visit
  <2>2. CASE WriteTrade(p)
    BY <2>2, WriteSettles DEF Promised!Next
  <2>3. CASE ~(Visit(p) \/ WriteTrade(p))
    <3>1. UNCHANGED <<rows, mem, session>>
      BY <1>3, <2>3
      DEF Check, BeginCheck, GetOpen, GetOpenFails, CopyAccount, SaveAccount
    <3>2. \A q \in Procs : InFlight(q)' = InFlight(q)
      <4>1. /\ Local("load", {}, Nothing, NewAccount).step # "write" /\ Idle.step # "write"
            /\ Local("save", at[p].todo, Nothing, mem).step # "write"
        BY DEF Local, Idle
      <4>2. CASE BeginCheck(p)
        BY <4>1, <4>2, SameInFlight DEF BeginCheck
      <4>3. CASE GetOpen(p) \/ GetOpenFails(p) \/ SaveAccount(p)
        BY <4>3, ContinuesInFlight DEF GetOpen, GetOpenFails, SaveAccount
      <4>4. CASE CopyAccount(p)
        BY <4>1, <4>4, SameInFlight DEF CopyAccount
      <4> QED BY <1>3, <2>3, <4>2, <4>3, <4>4 DEF Check
    <3> QED BY <1>0, <3>1, <3>2, SameSettled
  <2> QED BY <2>1, <2>2, <2>3
<1>4. CASE Restart
  <2>1. /\ session'.settled = Settled /\ session'.realized = row.realized
        /\ mem' = row /\ UNCHANGED rows /\ \A p \in Procs : at'[p] = Idle
    BY <1>4 DEF Restart
  <2>2. InFlight("ticker")' = 0 /\ InFlight("cycle")' = 0
    BY <2>1 DEF InFlight, Idle, Procs
  <2>3. Settled \in Int /\ row.realized \in Int
    BY SettledType DEF TypeOK, Account
  <2>4. Settled' = session'.settled + mem'.realized - session'.realized
                     - InFlight("ticker")' - InFlight("cycle")'
    BY DEF Settled
  <2>5. Settled' = Settled
    BY <2>1, <2>2, <2>3, <2>4
  <2> QED BY <1>0, <2>1, <2>5
<1> QED BY <1>1, <1>2, <1>3, <1>4, InsertOpens, CancelCancels DEF Next

\* Two goroutines that check at once, a fill meanwhile, and a crash anywhere
\* never settle a trade twice, revise its result, or move the profit by
\* anything but that result: the simulator implements TradeBook, as long as
\* the UPDATE that closes a trade does not fail.
THEOREM TradesAreSettledOnce ==
  ASSUME "close" \notin Faults
  PROVE  Spec => TradesSettledOnce
<1>1. Init => TypeOK /\ BookInv
  BY InitType, InitBook
<1>2. TypeOK /\ BookInv /\ [Next]_vars => (TypeOK /\ BookInv)'
  BY NextType, BookInvariant
<1>3. Init => Promised!Init
  <2> SUFFICES ASSUME Init PROVE Promised!Init
    OBVIOUS
  <2>1. Settled = 0
    BY DEF Init, Settled, InFlight, Idle, NewAccount, Procs
  <2>2. Results = [t \in TradeIds |-> [state |-> "none", net |-> 0]]
    BY DEF Init, Results, NoTrade
  <2> QED BY <2>1, <2>2 DEF Promised!Init, Promised!Unopened, Results
<1>4. TypeOK /\ BookInv /\ [Next]_vars => [Promised!Next]_(Promised!vars)
  BY Refines
<1> QED BY <1>1, <1>2, <1>3, <1>4, PTL DEF Spec, TradesSettledOnce, Promised!Spec
-----------------------------------------------------------------------------
(* Every win or loss is counted for a trade of its own: those of this       *)
(* process that are neither closed nor on their way to their UPDATE are     *)
(* still to be counted, and there is room for them in the total.            *)

BeingWritten(t) == \E p \in Procs : at[p].step = "write" /\ at[p].item.t = t

Unbooked ==
  {t \in TradeIds : /\ session.since <= t /\ t < nextTrade
                    /\ rows[t].state # "closed" /\ ~BeingWritten(t)}

HasRoom(acct, n) == acct.wins + acct.losses + n <= acct.total

CountInv ==
  /\ HasRoom(mem, Cardinality(Unbooked)) /\ HasRoom(row, 0)
  /\ \A p \in Procs : at[p].step # "idle" => HasRoom(at[p].copy, 0)

LEMMA UnbookedFinite ==
  IsFiniteSet(Unbooked) /\ Cardinality(Unbooked) \in Nat
<1>1. IsFiniteSet(TradeIds)
  BY SimulatorAssumption, FS_Interval DEF TradeIds
<1>2. IsFiniteSet(Unbooked)
  BY <1>1, FS_Subset DEF Unbooked
<1> QED BY <1>2, FS_CardinalityType

LEMMA FewerUnbooked ==
  ASSUME Unbooked' \subseteq Unbooked
  PROVE  Cardinality(Unbooked') <= Cardinality(Unbooked) /\ Cardinality(Unbooked') \in Nat
  BY UnbookedFinite, FS_Subset, FS_CardinalityType

LEMMA Shrinks ==
  ASSUME TypeOK, NEW p \in Procs, NEW local, Goes(p, local), at[p].step # "write",
         UNCHANGED <<nextTrade, session>>,
         \A t \in TradeIds : rows'[t].state # "closed" => rows[t].state # "closed"
  PROVE  Unbooked' \subseteq Unbooked
<1> SUFFICES ASSUME NEW t \in TradeIds, BeingWritten(t) PROVE BeingWritten(t)'
  BY DEF Unbooked
<1>1. PICK q \in Procs : at[q].step = "write" /\ at[q].item.t = t
  BY DEF BeingWritten
<1>2. at'[q] = at[q]
  BY <1>1 DEF Goes, TypeOK
<1> QED BY <1>1, <1>2 DEF BeingWritten

\* Where a copy of the account comes from, and what is saved.
LEMMA CopiesMove ==
  ASSUME TypeOK, [Next]_vars
  PROVE  /\ \A p \in Procs : at'[p].step # "idle" =>
              at'[p] = at[p] \/ at'[p].copy \in {NewAccount, mem}
         /\ row' = row \/ \E p \in Procs : at[p].step # "idle" /\ row' = at[p].copy
<1>0. \A s, todo, item, copy : Local(s, todo, item, copy).copy = copy
  BY DEF Local
<1>1. ASSUME NEW p \in Procs, NEW local, Goes(p, local),
             local = Idle \/ local.copy \in {NewAccount, mem}
      PROVE  \A q \in Procs : at'[q].step # "idle" =>
               at'[q] = at[q] \/ at'[q].copy \in {NewAccount, mem}
  <2> TAKE q \in Procs
  <2>1. at'[q] = IF q = p THEN local ELSE at[q]
    BY <1>1 DEF Goes, TypeOK
  <2> QED BY <1>1, <2>1 DEF Idle
<1>2. ASSUME NEW p \in Procs, NEW todo, Continues(p, todo)
      PROVE  \A q \in Procs : at'[q].step # "idle" =>
               at'[q] = at[q] \/ at'[q].copy \in {NewAccount, mem}
  BY <1>0, <1>1, <1>2 DEF Continues
<1>3. CASE PriceMoves \/ CancelOpenPositions \/ UNCHANGED vars
  BY <1>3 DEF PriceMoves, CancelOpenPositions, vars
<1>4. ASSUME NEW plan \in Plans, SimulateFill(plan)
      PROVE  /\ \E local : Goes("cycle", local) /\ local.copy \in {NewAccount, mem}
             /\ row' = row
  BY <1>0, <1>4 DEF SimulateFill
<1>5. CASE InsertTrade
  BY <1>0, <1>1, <1>5 DEF InsertTrade, Procs
<1>6. CASE Restart
  BY <1>6 DEF Restart, Idle
<1>7. ASSUME NEW p \in Procs, Check(p)
      PROVE  /\ \/ \E local : /\ Goes(p, local)
                              /\ local = Idle \/ local.copy \in {NewAccount, mem}
                \/ \E todo : Continues(p, todo)
             /\ row' = row \/ (at[p].step # "idle" /\ row' = at[p].copy)
  <2>1. CASE BeginCheck(p) \/ CopyAccount(p) \/ WriteTrade(p)
    BY <1>0, <2>1 DEF BeginCheck, CopyAccount, WriteTrade
  <2>2. CASE GetOpen(p) \/ GetOpenFails(p) \/ SaveAccount(p)
    BY <2>2 DEF GetOpen, GetOpenFails, SaveAccount
  <2>3. CASE Visit(p)
    BY <1>0, <2>3 DEF Visit
  <2> QED BY <1>7, <2>1, <2>2, <2>3 DEF Check
<1>8. "cycle" \in Procs
  BY DEF Procs
<1> QED BY <1>1, <1>2, <1>3, <1>4, <1>5, <1>6, <1>7, <1>8 DEF Next

\* What a step does to the count: room for a new trade is made before there is
\* one, and a win or loss takes the room of the trade it is counted for.
LEMMA RoomKept ==
  ASSUME TypeOK, BookInv, CountInv, "close" \notin Faults, [Next]_vars
  PROVE  HasRoom(mem', Cardinality(Unbooked'))
<1>0. Cardinality(Unbooked) \in Nat /\ mem \in Account /\ row \in Account
  BY UnbookedFinite DEF TypeOK
<1>1. ASSUME mem' = mem, Unbooked' \subseteq Unbooked
      PROVE  HasRoom(mem', Cardinality(Unbooked'))
  BY <1>0, <1>1, FewerUnbooked DEF CountInv, HasRoom, Account
<1>2. ASSUME UNCHANGED rows
      PROVE  \A t \in TradeIds : rows'[t].state # "closed" => rows[t].state # "closed"
  BY <1>2
<1>3. CASE PriceMoves \/ UNCHANGED vars
  <2>1. UNCHANGED <<rows, at, nextTrade, session, mem>>
    BY <1>3 DEF PriceMoves, vars
  <2>2. Unbooked' = Unbooked
    BY <2>1 DEF Unbooked, BeingWritten
  <2> QED BY <1>1, <2>1, <2>2
<1>4. CASE CancelOpenPositions
  <2>1. UNCHANGED <<at, nextTrade, session, mem>>
    BY <1>4 DEF CancelOpenPositions
  <2>2. \A t \in TradeIds : rows'[t].state # "closed" => rows'[t] = rows[t]
    <3>1. PICK S : rows' = [t \in TradeIds |-> IF t \in S THEN [rows[t] EXCEPT !.state = "closed"]
                                               ELSE rows[t]]
      BY <1>4 DEF CancelOpenPositions
    <3> SUFFICES ASSUME NEW t \in TradeIds, t \in S PROVE rows'[t].state = "closed"
      BY <3>1
    <3>2. rows'[t] = [rows[t] EXCEPT !.state = "closed"] /\ rows[t] \in Trade
      BY <3>1 DEF TypeOK
    <3> QED BY <3>2 DEF Trade
  <2>3. Unbooked' \subseteq Unbooked
    BY <2>1, <2>2 DEF Unbooked, BeingWritten
  <2> QED BY <1>1, <2>1, <2>3
<1>5. CASE Restart
  <2>1. session'.since = nextTrade /\ nextTrade' = nextTrade /\ mem' = row
    BY <1>5 DEF Restart
  <2>2. Unbooked' = {}
    BY <2>1, SimulatorAssumption DEF Unbooked, TypeOK, TradeIds
  <2>3. Cardinality(Unbooked') = 0
    BY <2>2, FS_EmptySet
  <2> QED BY <2>1, <2>3 DEF CountInv
<1>6. CASE InsertTrade
  <2>1. "cycle" \in Procs /\ at["cycle"].step # "write"
    BY <1>6 DEF Procs, InsertTrade
  <2>2. ToInsert("cycle")
    BY <1>6, <2>1 DEF InsertTrade, BookInv, LocalOK
  <2>3. \A t \in TradeIds : rows'[t].state # "closed" => rows[t].state # "closed"
    <3>1. rows[at["cycle"].item.t].state # "closed"
      BY <2>2 DEF ToInsert, NoTrade
    <3> QED BY <1>6, <3>1 DEF InsertTrade, TypeOK
  <2>4. Unbooked' \subseteq Unbooked
    BY <1>6, <2>1, <2>3, Shrinks DEF InsertTrade
  <2> QED BY <1>1, <1>6, <2>4 DEF InsertTrade
<1>7. ASSUME NEW plan \in Plans, SimulateFill(plan)
      PROVE  HasRoom(mem', Cardinality(Unbooked'))
  <2> DEFINE fill == Toward(plan.side, price, Slippage)
             fee == Fee(plan.qty, fill)
             local == Local("insert", {}, [t |-> nextTrade, row |-> Filled(plan, fill)],
                            NewAccount)
  <2>1. /\ Goes("cycle", local) /\ UNCHANGED <<rows, session>> /\ nextTrade' = nextTrade + 1
        /\ mem' = ChargeEntry(mem, fee) /\ at["cycle"] = Idle
    BY <1>7 DEF SimulateFill
  <2>2. fee \in Int
    <3>1. fill \in Int /\ plan.qty \in Int
      BY SimulatorAssumption, TowardType DEF TypeOK, NoPrice, Plan
    <3> QED BY <3>1, FeeType
  <2> HIDE DEF local, fee
  <2>3. mem'.total = mem.total + 1 /\ mem'.wins = mem.wins /\ mem'.losses = mem.losses
    BY <1>0, <2>1, <2>2, Charged
  <2>4. Unbooked' \subseteq Unbooked \cup {nextTrade}
    <3> SUFFICES ASSUME NEW t \in Unbooked', t # nextTrade PROVE t \in Unbooked
      OBVIOUS
    <3>1. t \in TradeIds /\ t < nextTrade
      BY <2>1, SimulatorAssumption DEF Unbooked, TypeOK, TradeIds
    <3>2. BeingWritten(t) => BeingWritten(t)'
      <4> SUFFICES ASSUME NEW q \in Procs, at[q].step = "write", at[q].item.t = t
                   PROVE  BeingWritten(t)'
        BY DEF BeingWritten
      <4>1. at'[q] = at[q]
        BY <2>1 DEF Goes, TypeOK, Idle
      <4> QED BY <4>1 DEF BeingWritten
    <3> QED BY <2>1, <3>1, <3>2 DEF Unbooked
  <2>5. Cardinality(Unbooked') <= Cardinality(Unbooked) + 1 /\ Cardinality(Unbooked') \in Nat
    <3>1. /\ IsFiniteSet(Unbooked \cup {nextTrade})
          /\ Cardinality(Unbooked \cup {nextTrade}) <= Cardinality(Unbooked) + 1
      <4>1. /\ IsFiniteSet(Unbooked \cup {nextTrade})
            /\ \/ Cardinality(Unbooked \cup {nextTrade}) = Cardinality(Unbooked)
               \/ Cardinality(Unbooked \cup {nextTrade}) = Cardinality(Unbooked) + 1
        BY UnbookedFinite, FS_AddElement, Zenon
      <4> QED BY <1>0, <4>1
    <3>2. /\ Cardinality(Unbooked') <= Cardinality(Unbooked \cup {nextTrade})
          /\ IsFiniteSet(Unbooked')
      BY <2>4, <3>1, FS_Subset
    <3>3. Cardinality(Unbooked') \in Nat /\ Cardinality(Unbooked \cup {nextTrade}) \in Nat
      BY <3>1, <3>2, FS_CardinalityType
    <3> QED BY <1>0, <3>1, <3>2, <3>3
  <2> QED BY <1>0, <2>3, <2>5 DEF CountInv, HasRoom, Account
<1>8. ASSUME NEW p \in Procs, Visit(p)
      PROVE  HasRoom(mem', Cardinality(Unbooked'))
  <2>1. PICK it \in at[p].todo :
          LET rest == at[p].todo \ {it}
              net  == PnLNet(it.row, ExitPrice(it.row, price))
          IN  \/ Continues(p, rest) /\ UNCHANGED mem
              \/ /\ mem' = Book(mem, it.t, net)
                 /\ Goes(p, Local("write", rest, Closing(it, net), NewAccount))
    BY <1>8 DEF Visit
  <2> DEFINE rest == at[p].todo \ {it}
             net  == PnLNet(it.row, ExitPrice(it.row, price))
             c    == Closing(it, net)
             local == Local("write", rest, c, NewAccount)
  <2>2. at[p].step = "visit" /\ UNCHANGED <<rows, nextTrade, session>>
    BY <1>8 DEF Visit
  <2>3. CASE Continues(p, rest) /\ UNCHANGED mem
    <3>1. \E l : Goes(p, l)
      BY <2>3 DEF Continues
    <3>2. Unbooked' \subseteq Unbooked
      BY <1>2, <2>2, <3>1, Shrinks
    <3> QED BY <1>1, <2>3, <3>2
  <2>4. CASE mem' = Book(mem, it.t, net) /\ Goes(p, local)
    <3>1. /\ it \in Item /\ it.row = rows[it.t] /\ it.row.state = "open" /\ checkMu = p
          /\ it.t \in TradeIds /\ it.row \in Trade
      BY <2>2, Under DEF BookInv, LocalOK, ToVisit, Working, Running, Item
    <3>2. net \in Int
      <4>1. it.row \in Trade /\ price \in Int
        BY <3>1, SimulatorAssumption DEF TypeOK, NoPrice
      <4> QED BY <4>1, ExitType, NetType
    <3>3. c.t = it.t
      BY <3>1, <3>2, ClosingType
    <3> HIDE DEF net, rest, c
    <3>4. local.step = "write" /\ local.item = c
      BY DEF Local
    <3> HIDE DEF local
    <3>5. Unbooked' \subseteq Unbooked \ {it.t}
      <4>1. Unbooked' \subseteq Unbooked
        BY <1>2, <2>2, <2>4, Shrinks
      <4>2. at'[p] = local
        BY <2>4 DEF Goes, TypeOK
      <4>3. it.t \notin Unbooked'
        BY <3>3, <3>4, <4>2 DEF Unbooked, BeingWritten
      <4> QED BY <4>1, <4>3
    <3>6. mem'.wins + mem'.losses = mem.wins + mem.losses + (IF Counts(it.t) THEN 1 ELSE 0)
          /\ mem'.total = mem.total
      BY <1>0, <2>4, <3>2, Booked
    <3>7. CASE ~Counts(it.t)
      <4>1. Cardinality(Unbooked') <= Cardinality(Unbooked) /\ Cardinality(Unbooked') \in Nat
        BY <3>5, FewerUnbooked
      <4>2. mem' \in Account
        BY <1>0, <2>4, <3>2, Booked
      <4> QED BY <1>0, <3>6, <3>7, <4>1, <4>2 DEF CountInv, HasRoom, Account
    <3>8. CASE Counts(it.t)
      <4>1. it.t < nextTrade
        BY <3>1, SimulatorAssumption DEF BookInv, RowsOK, NoTrade, TypeOK, TradeIds
      <4>2. ~BeingWritten(it.t)
        <5> SUFFICES ASSUME NEW q \in Procs, at[q].step = "write", at[q].item.t = it.t
                     PROVE  FALSE
          BY DEF BeingWritten
        <5>1. checkMu = q
          BY DEF BookInv, LocalOK, Working
        <5> QED BY <2>2, <3>1, <5>1
      <4>3. it.t \in Unbooked
        BY <3>1, <3>8, <4>1, <4>2, SimulatorAssumption
        DEF Unbooked, Counts, TypeOK, TradeIds
      <4>4. Cardinality(Unbooked \ {it.t}) = Cardinality(Unbooked) - 1
            /\ IsFiniteSet(Unbooked \ {it.t})
        BY <4>3, UnbookedFinite, FS_RemoveElement
      <4>5. Cardinality(Unbooked') <= Cardinality(Unbooked) - 1 /\ Cardinality(Unbooked') \in Nat
        BY <3>5, <4>4, FS_Subset, FS_CardinalityType
      <4>6. mem' \in Account
        BY <1>0, <2>4, <3>2, Booked
      <4> QED BY <1>0, <3>6, <3>8, <4>5, <4>6 DEF CountInv, HasRoom, Account
    <3> QED BY <3>7, <3>8
  <2> QED BY <2>1, <2>3, <2>4
<1>9. ASSUME NEW p \in Procs, WriteTrade(p)
      PROVE  HasRoom(mem', Cardinality(Unbooked'))
  <2> DEFINE it == at[p].item
             local == Local("copy", at[p].todo, Nothing, NewAccount)
  <2>1. /\ at[p].step = "write" /\ Goes(p, local) /\ UNCHANGED <<mem, nextTrade, session>>
        /\ rows' = [rows EXCEPT ![it.t] = it.row]
    BY <1>9 DEF WriteTrade, Fails
  <2>2. it.t \in TradeIds /\ it.row.state = "closed"
    BY <2>1 DEF BookInv, LocalOK, ToWrite, Item
  <2>3. Unbooked' \subseteq Unbooked
    <3> SUFFICES ASSUME NEW t \in Unbooked' PROVE t \in Unbooked
      OBVIOUS
    <3>1. t # it.t /\ t \in TradeIds /\ rows'[t] = rows[t]
      BY <2>1, <2>2 DEF Unbooked, TypeOK
    <3>2. BeingWritten(t) => BeingWritten(t)'
      <4> SUFFICES ASSUME NEW q \in Procs, at[q].step = "write", at[q].item.t = t
                   PROVE  BeingWritten(t)'
        BY DEF BeingWritten
      <4>1. at'[q] = at[q]
        BY <2>1, <3>1 DEF Goes, TypeOK
      <4> QED BY <4>1 DEF BeingWritten
    <3> QED BY <2>1, <3>1, <3>2 DEF Unbooked
  <2> QED BY <1>1, <2>1, <2>3
<1>10. ASSUME NEW p \in Procs, Check(p), ~Visit(p), ~WriteTrade(p)
       PROVE  HasRoom(mem', Cardinality(Unbooked'))
  <2>1. /\ UNCHANGED <<rows, mem, nextTrade, session>> /\ at[p].step # "write"
        /\ \E local : Goes(p, local)
    BY <1>10
    DEF Check, BeginCheck, GetOpen, GetOpenFails, CopyAccount, SaveAccount, Continues, Idle
  <2>2. Unbooked' \subseteq Unbooked
    BY <1>2, <2>1, Shrinks
  <2> QED BY <1>1, <2>1, <2>2
<1> QED BY <1>3, <1>4, <1>5, <1>6, <1>7, <1>8, <1>9, <1>10 DEF Next

\* No trade is counted as won or lost twice, or without having been counted
\* when it was opened, in memory and in the table: not when a crash loses the
\* count of a fill, nor when a stale copy of the account overwrites a newer
\* one, as long as the UPDATE that closes a trade does not fail.
THEOREM TradesCountedOnce ==
  ASSUME "close" \notin Faults
  PROVE  Spec => []CountedOnce
<1> DEFINE Inv == TypeOK /\ BookInv /\ CountInv
<1>1. Init => Inv
  <2> SUFFICES ASSUME Init PROVE CountInv
    BY InitType, InitBook
  <2>1. Unbooked = {}
    BY SimulatorAssumption DEF Init, Unbooked, TradeIds
  <2>2. Cardinality(Unbooked) = 0
    BY <2>1, FS_EmptySet
  <2> QED BY <2>2 DEF Init, CountInv, HasRoom, NewAccount, Idle
<1>2. Inv /\ [Next]_vars => Inv'
  <2> SUFFICES ASSUME Inv, [Next]_vars PROVE CountInv'
    BY NextType, BookInvariant
  <2>1. HasRoom(mem', Cardinality(Unbooked'))
    BY RoomKept
  <2>2. HasRoom(mem, 0) /\ HasRoom(NewAccount, 0)
    BY UnbookedFinite DEF CountInv, HasRoom, TypeOK, Account, NewAccount
  <2>3. HasRoom(row', 0)
    BY CopiesMove DEF CountInv
  <2>4. \A p \in Procs : at'[p].step # "idle" => HasRoom(at'[p].copy, 0)
    BY <2>2, CopiesMove DEF CountInv
  <2> QED BY <2>1, <2>3, <2>4 DEF CountInv, HasRoom
<1>3. Inv => CountedOnce
  BY UnbookedFinite DEF CountInv, HasRoom, CountedOnce, TypeOK, Account
<1> QED BY <1>1, <1>2, <1>3, PTL DEF Spec
-----------------------------------------------------------------------------
(* The stop and the target of a trade stay as far from its entry as the     *)
(* plan's are, give or take 0.5% of the plan's price.                       *)

Near(plan, x, y) == 200 * Distance(x, y) <= plan.entry

NearPlan(r) ==
  \E plan \in Plans :
    /\ plan.side = r.side /\ plan.qty = r.qty
    /\ Near(plan, Ahead(r.side, r.sl, r.entry), Ahead(r.side, plan.sl, plan.entry))
    /\ Near(plan, Ahead(r.side, r.entry, r.tp), Ahead(r.side, plan.entry, Target(plan)))

\* The plan's stop does not lie ahead of its entry, nor its target behind it.
RightSides(plan) ==
  /\ Ahead(plan.side, plan.sl, plan.entry) >= 0
  /\ plan.tp > 0 => Ahead(plan.side, plan.entry, plan.tp) >= 0

StopInv ==
  /\ \A t \in TradeIds : rows[t].state = "open" => NearPlan(rows[t])
  /\ at["cycle"].step = "insert" => NearPlan(at["cycle"].item.row)
  /\ \A p \in Procs : at[p].step = "write" => at[p].item.row.state = "closed"

LEMMA TargetPlaced ==
  ASSUME NEW plan \in Plans, RightSides(plan)
  PROVE  /\ Target(plan) \in Int
         /\ Ahead(plan.side, plan.entry, Target(plan)) >= 0
<1>1. /\ plan.side \in {"LONG", "SHORT"} /\ plan.entry \in Nat \ {0}
      /\ plan.sl \in Int /\ plan.tp \in Int
  BY SimulatorAssumption DEF Plan
<1>2. CASE plan.tp > 0
  BY <1>1, <1>2 DEF Target, RightSides
<1>3. CASE ~(plan.tp > 0)
  <2> DEFINE d == Distance(plan.entry, plan.sl)
  <2>1. d \in Nat
    BY <1>1 DEF Distance
  <2>2. Target(plan) = IF plan.side = "LONG" THEN plan.entry + 2 * d ELSE plan.entry - 2 * d
    BY <1>3 DEF Target, Toward
  <2> HIDE DEF d
  <2> QED BY <1>1, <2>1, <2>2 DEF Ahead
<1> QED BY <1>2, <1>3

LEMMA FilledNear ==
  ASSUME NEW plan \in Plans, RightSides(plan), NEW fill \in Nat
  PROVE  NearPlan(Filled(plan, fill))
<1> DEFINE s == Distance(plan.entry, plan.sl)
           tp == Target(plan)
           g == Distance(tp, plan.entry)
           r == Filled(plan, fill)
           side == plan.side
<1>1. /\ side \in {"LONG", "SHORT"} /\ plan.entry \in Nat \ {0} /\ plan.sl \in Int
  BY SimulatorAssumption DEF Plan
<1>2. tp \in Int /\ Ahead(side, plan.entry, tp) >= 0 /\ Ahead(side, plan.sl, plan.entry) >= 0
  BY TargetPlaced DEF RightSides
<1> HIDE DEF tp
<1>3. r.side = side /\ r.entry = fill /\ r.qty = plan.qty
  BY DEF Filled
<1>4. CASE FarFrom(plan, fill)
  <2>1. /\ s \in Nat /\ s = Ahead(side, plan.sl, plan.entry)
        /\ g \in Nat /\ g = Ahead(side, plan.entry, tp)
    BY <1>1, <1>2 DEF Ahead, Distance
  <2>2. r.sl = Toward(side, fill, -s) /\ r.tp = Toward(side, fill, g)
    BY <1>4 DEF Filled, tp
  <2> HIDE DEF s, g, r
  <2>3. Ahead(side, r.sl, fill) = s /\ Ahead(side, fill, r.tp) = g
    <3>1. CASE side = "LONG"
      BY <2>1, <2>2, <3>1 DEF Toward, Ahead
    <3>2. CASE side = "SHORT"
      BY <2>1, <2>2, <3>2 DEF Toward, Ahead
    <3> QED BY <1>1, <3>1, <3>2
  <2>4. Near(plan, s, s) /\ Near(plan, g, g)
    BY <1>1, <2>1 DEF Near, Distance
  <2> QED BY <1>3, <2>1, <2>3, <2>4 DEF NearPlan, r, tp
<1>5. CASE ~FarFrom(plan, fill)
  <2>1. r.sl = plan.sl /\ r.tp = tp
    BY <1>5 DEF Filled, tp
  <2>2. 200 * Distance(fill, plan.entry) <= plan.entry
    BY <1>1, <1>5 DEF FarFrom, Distance
  <2>3. /\ Distance(Ahead(side, plan.sl, fill), Ahead(side, plan.sl, plan.entry))
             = Distance(fill, plan.entry)
        /\ Distance(Ahead(side, fill, tp), Ahead(side, plan.entry, tp))
             = Distance(fill, plan.entry)
    BY <1>1, <1>2 DEF Ahead, Distance
  <2> HIDE DEF r
  <2>4. /\ Near(plan, Ahead(side, plan.sl, fill), Ahead(side, plan.sl, plan.entry))
        /\ Near(plan, Ahead(side, fill, tp), Ahead(side, plan.entry, tp))
    BY <2>2, <2>3 DEF Near
  <2> QED BY <1>3, <2>1, <2>4 DEF NearPlan, r, tp
<1> QED BY <1>4, <1>5

\* A goroutine that moves on without starting to write or to insert.
LEMMA StopsKept ==
  ASSUME TypeOK, StopInv, NEW p \in Procs, NEW local, Goes(p, local),
         local.step \notin {"write", "insert"},
         \A t \in TradeIds : rows'[t].state = "open" => NearPlan(rows'[t])
  PROVE  StopInv'
<1>1. \A q \in Procs : at'[q] = IF q = p THEN local ELSE at[q]
  BY DEF Goes, TypeOK
<1> QED BY <1>1 DEF StopInv, NearPlan, Procs

LEMMA ContinuesStops ==
  ASSUME TypeOK, StopInv, NEW p \in Procs, NEW todo, Continues(p, todo),
         \A t \in TradeIds : rows'[t].state = "open" => NearPlan(rows'[t])
  PROVE  StopInv'
<1>1. /\ Idle.step \notin {"write", "insert"}
      /\ Local("visit", todo, Nothing, NewAccount).step \notin {"write", "insert"}
  BY DEF Idle, Local
<1> QED BY <1>1, StopsKept DEF Continues

LEMMA CheckStops ==
  ASSUME TypeOK, StopInv, NEW p \in Procs, Check(p)
  PROVE  StopInv'
<1>0. \A s, todo, item, copy : Local(s, todo, item, copy).step = s
  BY DEF Local
<1>1. ASSUME UNCHANGED rows
      PROVE  \A t \in TradeIds : rows'[t].state = "open" => NearPlan(rows'[t])
  BY <1>1 DEF StopInv
<1>2. CASE BeginCheck(p) \/ CopyAccount(p)
  <2>1. PICK local : Goes(p, local) /\ local.step \in {"load", "save"}
    BY <1>0, <1>2 DEF BeginCheck, CopyAccount
  <2>2. local.step \notin {"write", "insert"}
    BY <2>1
  <2>3. UNCHANGED rows
    BY <1>2 DEF BeginCheck, CopyAccount
  <2> QED BY <1>1, <2>1, <2>2, <2>3, StopsKept
<1>3. CASE GetOpen(p) \/ GetOpenFails(p) \/ SaveAccount(p)
  <2>1. UNCHANGED rows /\ \E todo : Continues(p, todo)
    BY <1>3 DEF GetOpen, GetOpenFails, SaveAccount
  <2> QED BY <1>1, <2>1, ContinuesStops
<1>4. CASE Visit(p)
  <2>1. PICK it \in at[p].todo :
          LET rest == at[p].todo \ {it}
              net  == PnLNet(it.row, ExitPrice(it.row, price))
          IN  \/ Continues(p, rest)
              \/ Goes(p, Local("write", rest, Closing(it, net), NewAccount))
    BY <1>4 DEF Visit
  <2> DEFINE rest == at[p].todo \ {it}
             net  == PnLNet(it.row, ExitPrice(it.row, price))
             c    == Closing(it, net)
             local == Local("write", rest, c, NewAccount)
  <2>2. UNCHANGED rows /\ at[p].step = "visit"
    BY <1>4 DEF Visit
  <2>3. CASE Continues(p, rest)
    BY <1>1, <2>2, <2>3, ContinuesStops
  <2>4. CASE Goes(p, local)
    <3>1. it \in Item
      BY <2>2, Under DEF Running
    <3>2. net \in Int
      <4>1. it.row \in Trade
        BY <3>1 DEF Item
      <4>2. price \in Int
        BY SimulatorAssumption DEF TypeOK, NoPrice
      <4> QED BY <4>1, <4>2, ExitType, NetType
    <3>3. c.row.state = "closed"
      BY <3>1, <3>2, ClosingType
    <3> HIDE DEF c, net, rest
    <3>4. local.step = "write" /\ local.item = c
      BY DEF Local
    <3> HIDE DEF local
    <3>5. \A q \in Procs : at'[q] = IF q = p THEN local ELSE at[q]
      BY <2>4 DEF Goes, TypeOK
    <3> QED BY <2>2, <3>3, <3>4, <3>5 DEF StopInv, NearPlan, Procs
  <2> QED BY <2>1, <2>3, <2>4
<1>5. CASE WriteTrade(p)
  <2>1. at[p].step = "write" /\ at[p].item.row.state = "closed"
    BY <1>5 DEF WriteTrade, StopInv
  <2>2. \A t \in TradeIds : rows'[t].state = "open" => NearPlan(rows'[t])
    <3>1. CASE UNCHANGED rows
      BY <1>1, <3>1
    <3>2. CASE rows' = [rows EXCEPT ![at[p].item.t] = at[p].item.row]
      BY <2>1, <3>2 DEF StopInv, TypeOK
    <3> QED BY <1>5, <3>1, <3>2 DEF WriteTrade
  <2>3. CASE Goes(p, Local("copy", at[p].todo, Nothing, NewAccount))
    <3>1. Local("copy", at[p].todo, Nothing, NewAccount).step \notin {"write", "insert"}
      BY <1>0
    <3> QED BY <2>2, <2>3, <3>1, StopsKept
  <2>4. CASE Continues(p, at[p].todo)
    BY <2>2, <2>4, ContinuesStops
  <2> QED BY <1>5, <2>3, <2>4 DEF WriteTrade
<1> QED BY <1>2, <1>3, <1>4, <1>5 DEF Check

\* However far the fill is from the plan, whatever fails afterwards and
\* whoever closes it, a trade that is open risks at its stop and gains at its
\* target what a plan of the scheduler does, give or take 0.5% of the plan's
\* price: for plans whose stop and target are not on each other's side.
THEOREM LevelsStayNearPlan ==
  ASSUME \A plan \in Plans : RightSides(plan)
  PROVE  Spec => []LevelsNearPlan
<1>1. Init => StopInv
  BY DEF Init, StopInv, NoTrade, Idle, Procs
<1>2. TypeOK /\ StopInv /\ [Next]_vars => StopInv'
  <2> SUFFICES ASSUME TypeOK, StopInv, [Next]_vars PROVE StopInv'
    OBVIOUS
  <2>1. CASE PriceMoves \/ UNCHANGED vars
    BY <2>1 DEF PriceMoves, vars, StopInv, NearPlan
  <2>2. ASSUME NEW plan \in Plans, SimulateFill(plan) PROVE StopInv'
    <3> DEFINE fill == Toward(plan.side, price, Slippage)
               it == [t |-> nextTrade, row |-> Filled(plan, fill)]
               local == Local("insert", {}, it, NewAccount)
    <3>1. price \in Nat /\ Slippage \in Nat /\ Slippage < price
      BY <2>2, SimulatorAssumption DEF SimulateFill, TypeOK, NoPrice
    <3>2. fill \in Nat
      BY <3>1 DEF Toward
    <3>3. Goes("cycle", local) /\ UNCHANGED rows
      BY <2>2 DEF SimulateFill
    <3> HIDE DEF fill
    <3>4. NearPlan(it.row)
      BY <3>2, FilledNear
    <3> HIDE DEF it
    <3>5. local.step = "insert" /\ local.item = it
      BY DEF Local
    <3> HIDE DEF local
    <3>6. \A q \in Procs : at'[q] = IF q = "cycle" THEN local ELSE at[q]
      BY <3>3 DEF Goes, TypeOK
    <3> QED BY <3>3, <3>4, <3>5, <3>6 DEF StopInv, NearPlan, Procs
  <2>3. CASE InsertTrade
    <3>1. \A t \in TradeIds : rows'[t].state = "open" => NearPlan(rows'[t])
      BY <2>3 DEF InsertTrade, StopInv, TypeOK
    <3>2. /\ Idle.step \notin {"write", "insert"} /\ "cycle" \in Procs
          /\ Local("copy", {}, Nothing, NewAccount).step \notin {"write", "insert"}
      BY DEF Idle, Local, Procs
    <3> QED BY <2>3, <3>1, <3>2, StopsKept DEF InsertTrade
  <2>4. CASE CancelOpenPositions
    <3>1. UNCHANGED at
      BY <2>4 DEF CancelOpenPositions
    <3>2. \A t \in TradeIds : rows'[t].state = "open" => rows'[t] = rows[t]
      <4>1. PICK S : rows' = [t \in TradeIds |-> IF t \in S THEN [rows[t] EXCEPT !.state = "closed"]
                                                 ELSE rows[t]]
        BY <2>4 DEF CancelOpenPositions
      <4> SUFFICES ASSUME NEW t \in TradeIds, t \in S PROVE rows'[t].state = "closed"
        BY <4>1
      <4>2. rows'[t] = [rows[t] EXCEPT !.state = "closed"] /\ rows[t] \in Trade
        BY <4>1 DEF TypeOK
      <4> QED BY <4>2 DEF Trade
    <3> QED BY <3>1, <3>2 DEF StopInv, NearPlan
  <2>5. CASE Restart
    BY <2>5 DEF Restart, StopInv, NearPlan, Idle, Procs
  <2> QED BY <2>1, <2>2, <2>3, <2>4, <2>5, CheckStops DEF Next
<1>3. TypeOK /\ StopInv => LevelsNearPlan
  BY Zenon DEF StopInv, LevelsNearPlan, NearPlan, Near
<1> QED BY <1>1, <1>2, <1>3, InitType, NextType, PTL DEF Spec
=============================================================================
