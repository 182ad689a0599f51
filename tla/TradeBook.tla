----------------------------- MODULE TradeBook -----------------------------
(***************************************************************************)
(* What the paper simulator promises of its trades, whoever calls it, fails *)
(* or crashes: a trade is opened once and settled once, its result is never *)
(* revised, and the realized profit moves by that result, at that moment.   *)
(***************************************************************************)
EXTENDS Integers

CONSTANT TradeIds

VARIABLES
  book,    \* the state of each trade, and its result once it is closed
  profit   \* the results booked so far

vars == <<book, profit>>

Entry == [state : {"none", "open", "closed"}, net : Int]

Unopened == [state |-> "none", net |-> 0]
Opened == [state |-> "open", net |-> 0]
Cancelled == [state |-> "closed", net |-> 0]

Init == book = [t \in TradeIds |-> Unopened] /\ profit = 0

Open(t) ==
  /\ book[t] = Unopened
  /\ book' = [book EXCEPT ![t] = Opened]
  /\ UNCHANGED profit

Settle(t) ==
  /\ book[t] = Opened
  /\ book'[t] \in Entry /\ book'[t].state = "closed"
  /\ book' = [book EXCEPT ![t] = book'[t]]
  /\ profit' = profit + book'[t].net

CancelAll(S) ==
  /\ \A t \in S : book[t] = Opened
  /\ book' = [t \in TradeIds |-> IF t \in S THEN Cancelled ELSE book[t]]
  /\ UNCHANGED profit

Next ==
  \/ \E t \in TradeIds : Open(t) \/ Settle(t)
  \/ \E S \in SUBSET TradeIds : CancelAll(S)

Spec == Init /\ [][Next]_vars
=============================================================================
