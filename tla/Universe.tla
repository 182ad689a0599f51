------------------------------ MODULE Universe ------------------------------
(***************************************************************************)
(* internal/universe with its table universe_symbols, and the screener     *)
(* that reads it. Two processes write the table: the bot, which refreshes  *)
(* it at the start of every cycle (RefreshUniverse) and then screens it,   *)
(* and the command line (bot universe add, remove, refresh). A refresh is  *)
(* a scan of the exchange, a load of the table and one upsert per symbol;  *)
(* add and remove read a row and write it back.                            *)
(* A row's instrument terms (tick size, lot size, limits) are a version    *)
(* number; 0 stands for the blank record that add and remove make up.      *)
(***************************************************************************)
EXTENDS Integers, Sequences, SequencesExt, FiniteSets

CONSTANTS ByName,         \* the symbols, in the order of GetAll
          ByTurnover,     \* the symbols by turnover, the largest first
          CfgForce,       \* universe.force_include_symbols
          CfgBlacklist,   \* universe.blacklist
          LightScanMax,   \* light_scan_max_symbols
          Feeds,          \* what the market data may show of a symbol
          MinScore,       \* llm_routing.min_candidate_score
          MinRR,          \* strategy.indicators.min_rr
          ReduceSize,     \* scoring: the lowest score that is no REJECT
          MaxEdits,       \* bound: commands of the operator
          MaxMoves,       \* bound: changes at the exchange
          MaxFaults       \* bound: failed calls and crashes

Symbols == ToSet(ByName)
Processes == {"bot", "cli"}

ASSUME UniverseAssumption ==
  /\ ByName \in Seq(Symbols) /\ ByTurnover \in Seq(Symbols)
  /\ ToSet(ByTurnover) = Symbols /\ CfgForce \subseteq Symbols
  /\ CfgBlacklist \subseteq Symbols /\ LightScanMax \in Nat \ {0}
  /\ MaxEdits \in Nat /\ MaxMoves \in Nat /\ MaxFaults \in Nat
  /\ \A feed \in Feeds : feed.book \in {"none", "wide", "slippery", "shallow", "good"}

VARIABLES market,   \* the exchange: each symbol's listing and terms
          rows,     \* universe_symbols
          refresh,  \* each process's RefreshUniverse
          command,  \* the operator's add or remove under way
          bot,      \* what the bot's process is doing
          screen,   \* the bot's Screen under way
          wish,     \* history: the operator's standing order for a symbol
          budget    \* edits, moves and faults so far

vars == <<market, rows, refresh, command, bot, screen, wish, budget>>

Row == [terms : 0 .. MaxMoves + 1, black : BOOLEAN, force : BOOLEAN]
NoRow == [terms |-> -1, black |-> FALSE, force |-> FALSE]

\* What instruments and tickers say of a symbol: not trading; without a ticker;
\* short of the turnover, the dollar a coin must cost, or beyond max_spread_bps;
\* or none of these.
Listings == {"untraded", "unpriced", "poor", "good"}

\* The elements of a sequence that belong to a set, in order: what each loop
\* with a continue keeps.
Kept(seq, set) ==
  LET f[n \in 0 .. Len(seq)] ==
        IF n = 0 THEN <<>>
        ELSE IF seq[n] \in set THEN Append(f[n - 1], seq[n]) ELSE f[n - 1]
  IN  f[Len(seq)]

Idle == [at |-> "idle", todo |-> <<>>]
NoCommand == [kind |-> "none"]
NoScreen == [left |-> <<>>, eligible |-> {}, nonEligible |-> {}, rejected |-> {},
             in |-> {}, out |-> {}]

-----------------------------------------------------------------------------
(* ScanAll: what the exchange trades, less the configured blacklist and, but *)
(* for the forced ones, what has no ticker, turnover, price or spread to     *)
(* speak of; by turnover, at most LightScanMax of them. Both flags are set   *)
(* from the configuration alone.                                             *)
Passes(s) ==
  /\ market[s].listing # "untraded" /\ s \notin CfgBlacklist
  /\ s \in CfgForce \/ market[s].listing = "good"

ScanRow(s) == [terms |-> market[s].terms, black |-> FALSE, force |-> s \in CfgForce]

ScanAll ==
  LET unpriced == {s \in Symbols : market[s].listing = "unpriced"}
      passing == {s \in Symbols : Passes(s)}
      ranked == Kept(ByTurnover, passing \ unpriced) \o Kept(ByTurnover, passing \cap unpriced)
      kept == IF Len(ranked) > LightScanMax THEN SubSeq(ranked, 1, LightScanMax) ELSE ranked
  IN  [i \in DOMAIN kept |-> [sym |-> kept[i], row |-> ScanRow(kept[i])]]

Scanned == {e.sym : e \in ToSet(ScanAll)}
Knows(p, s) == \E e \in ToSet(refresh[p].todo) : e.sym = s

Fault == budget.faults < MaxFaults /\ budget' = [budget EXCEPT !.faults = @ + 1]

\* At the start the bot goes from its refresh to its first cycle, and in every
\* cycle from the refresh to the screen.
AfterRefresh(p) ==
  CASE p = "cli" -> bot
    [] bot = "preflight" -> "refresh"
    [] OTHER -> "read"

-----------------------------------------------------------------------------
(* RefreshUniverse. A failed scan ends it: the cycle screens the table as it *)
(* is, and a preflight ends the process, which the supervisor starts again.  *)
Scan(p) ==
  /\ refresh[p].at = "idle"
  /\ p = "bot" => bot \in {"preflight", "refresh"}
  /\ p = "cli" => command = NoCommand /\ budget.edits < MaxEdits
  /\ refresh' = [refresh EXCEPT ![p] = [at |-> "load", todo |-> ScanAll]]
  /\ wish' = [s \in Symbols |-> IF s \in Scanned THEN "none" ELSE wish[s]]
  /\ budget' = [budget EXCEPT !.edits = IF p = "cli" THEN @ + 1 ELSE @]
  /\ UNCHANGED <<market, rows, command, bot, screen>>

ScanFails ==
  /\ refresh["bot"].at = "idle" /\ bot \in {"preflight", "refresh"} /\ Fault
  /\ bot' = IF bot = "refresh" THEN "read" ELSE "preflight"
  /\ UNCHANGED <<market, rows, refresh, command, screen, wish>>

\* The forced rows of the table that the scan did not return are added as they
\* were loaded; when the load fails nothing is added.
Merged(todo) ==
  LET extra == {s \in Symbols : /\ rows[s] # NoRow /\ rows[s].force
                                /\ \A e \in ToSet(todo) : e.sym # s}
      names == Kept(ByName, extra)
  IN  todo \o [i \in DOMAIN names |-> [sym |-> names[i], row |-> rows[names[i]]]]

GetAll(p) ==
  /\ refresh[p].at = "load"
  /\ \/ /\ refresh' = [refresh EXCEPT ![p] = [at |-> "write", todo |-> Merged(@.todo)]]
        /\ UNCHANGED budget
     \/ /\ refresh' = [refresh EXCEPT ![p].at = "write"]
        /\ Fault
  /\ UNCHANGED <<market, rows, command, bot, screen, wish>>

\* Mutant: ON CONFLICT DO NOTHING.
UpsertKeepsOld(old, new) == IF old = NoRow THEN new ELSE old

Upsert(old, new) == new

InsertOrUpdate(p) ==
  /\ refresh[p].at = "write" /\ refresh[p].todo # <<>>
  /\ LET e == Head(refresh[p].todo) IN
     \/ rows' = [rows EXCEPT ![e.sym] = Upsert(@, e.row)] /\ UNCHANGED budget
     \/ Fault /\ UNCHANGED rows
  /\ refresh' = [refresh EXCEPT ![p].todo = Tail(@)]
  /\ UNCHANGED <<market, command, bot, screen, wish>>

RefreshDone(p) ==
  /\ refresh[p].at = "write" /\ refresh[p].todo = <<>>
  /\ refresh' = [refresh EXCEPT ![p] = Idle]
  /\ bot' = AfterRefresh(p)
  /\ UNCHANGED <<market, rows, command, screen, wish, budget>>

-----------------------------------------------------------------------------
(* bot universe add --force and bot universe remove: GetBySymbol, whose      *)
(* failure is taken for a symbol without a row, then InsertOrUpdate.         *)
GetBySymbol(kind, s) ==
  /\ command = NoCommand /\ refresh["cli"] = Idle /\ budget.edits < MaxEdits
  /\ \/ /\ command' = [kind |-> kind, sym |-> s, row |-> rows[s]]
        /\ budget' = [budget EXCEPT !.edits = @ + 1]
     \/ /\ budget.faults < MaxFaults
        /\ command' = [kind |-> kind, sym |-> s, row |-> NoRow]
        /\ budget' = [budget EXCEPT !.edits = @ + 1, !.faults = @ + 1]
  /\ UNCHANGED <<market, rows, refresh, bot, screen, wish>>

\* Mutant: the nil row is not told apart.
AddedRowUnchecked(existing) == [existing EXCEPT !.force = TRUE, !.black = FALSE]

AddedRow(existing) ==
  IF existing = NoRow THEN [terms |-> 0, black |-> FALSE, force |-> TRUE]
  ELSE [existing EXCEPT !.force = TRUE, !.black = FALSE]

AddForceInclude ==
  /\ command.kind = "add"
  /\ rows' = [rows EXCEPT ![command.sym] = AddedRow(command.row)]
  /\ wish' = [wish EXCEPT ![command.sym] = "in"]
  /\ command' = NoCommand
  /\ UNCHANGED <<market, refresh, bot, screen, budget>>

\* Mutant: the force flag stays set.
RemovedRowForced(existing) ==
  IF existing = NoRow THEN [terms |-> 0, black |-> TRUE, force |-> FALSE]
  ELSE [existing EXCEPT !.black = TRUE]

RemovedRow(existing) ==
  IF existing = NoRow THEN [terms |-> 0, black |-> TRUE, force |-> FALSE]
  ELSE [existing EXCEPT !.black = TRUE, !.force = FALSE]

\* A refresh that has the symbol in hand will write it back: the order stands
\* only when none has.
RemoveSymbol ==
  /\ command.kind = "remove"
  /\ rows' = [rows EXCEPT ![command.sym] = RemovedRow(command.row)]
  /\ wish' = [wish EXCEPT ![command.sym] =
                IF \E p \in Processes : Knows(p, command.sym) THEN "none" ELSE "out"]
  /\ command' = NoCommand
  /\ UNCHANGED <<market, refresh, bot, screen, budget>>

CommandFails ==
  /\ command # NoCommand /\ Fault
  /\ command' = NoCommand
  /\ UNCHANGED <<market, rows, refresh, bot, screen, wish>>

-----------------------------------------------------------------------------
(* Screen: the rows that are not blacklisted, one after the other; a symbol  *)
(* that cannot be evaluated is a rejection and the next one follows.         *)
GetUniverse ==
  /\ bot = "read"
  /\ \/ LET listed == {s \in Symbols : rows[s] # NoRow /\ ~rows[s].black} IN
        /\ screen' = [NoScreen EXCEPT !.left = Kept(ByName, listed),
                                       !.in = {s \in Symbols : wish[s] = "in"},
                                       !.out = {s \in Symbols : wish[s] = "out"}]
        /\ bot' = "screen" /\ UNCHANGED budget
     \/ bot' = "refresh" /\ Fault /\ UNCHANGED screen
  /\ UNCHANGED <<market, rows, refresh, command, wish>>

\* evaluateSymbol needs each of these series as a batch of closed and recent
\* candles from which a snapshot can be built: the symbol's own ones, and
\* BTCUSDT's. It goes on without BTC's 5m and without its dominance.
OwnSeries == {"setup", "context", "4H"}
BtcSeries == {"btc15m", "btc1H", "btc4H"}
Gathered(feed) == feed.unfit \cap (OwnSeries \cup BtcSeries) = {}

\* The better of the two strategies' setups (0: none), the pullback on a tie.
Chosen(feed) == IF feed.pullback >= feed.breakout THEN feed.pullback ELSE feed.breakout

evaluateLLMEligibility(feed) ==
  /\ feed.score >= MinScore
  /\ feed.book \notin {"wide", "slippery", "shallow"}
  /\ Chosen(feed) >= MinRR
  /\ feed.worth

\* Without an order book the candidate is as eligible as its score makes it,
\* where docs/architecture.md:991 wants every check of every eligible one.
Eligible(feed) ==
  /\ feed.book # "none" => evaluateLLMEligibility(feed)
  /\ feed.score >= ReduceSize

Judged(sc, s, feed) ==
  LET candidate == Gathered(feed) /\ Chosen(feed) > 0 IN
  CASE ~candidate                    -> [sc EXCEPT !.rejected = @ \cup {s}]
    [] candidate /\ Eligible(feed)  -> [sc EXCEPT !.eligible = @ \cup {s}]
    [] candidate /\ ~Eligible(feed) -> [sc EXCEPT !.nonEligible = @ \cup {s}]

evaluateSymbol ==
  /\ bot = "screen" /\ screen.left # <<>>
  /\ \E feed \in Feeds :
       screen' = Judged([screen EXCEPT !.left = Tail(@)], Head(screen.left), feed)
  /\ UNCHANGED <<market, rows, refresh, command, bot, wish, budget>>

ScreenDone ==
  /\ bot = "screen" /\ screen.left = <<>>
  /\ bot' = "refresh" /\ screen' = NoScreen
  /\ UNCHANGED <<market, rows, refresh, command, wish, budget>>

-----------------------------------------------------------------------------
(* The exchange lists, halts and reprices instruments. A crash drops what    *)
(* the bot had in hand, and its next process starts with the preflight.      *)
Move ==
  /\ budget.moves < MaxMoves
  /\ \E s \in Symbols, l \in Listings, dt \in {0, 1} :
       market' = [market EXCEPT ![s] = [listing |-> l, terms |-> @.terms + dt]]
  /\ budget' = [budget EXCEPT !.moves = @ + 1]
  /\ UNCHANGED <<rows, refresh, command, bot, screen, wish>>

Crash ==
  /\ bot # "preflight" \/ refresh["bot"] # Idle
  /\ Fault
  /\ bot' = "preflight" /\ screen' = NoScreen
  /\ refresh' = [refresh EXCEPT !["bot"] = Idle]
  /\ UNCHANGED <<market, rows, command, wish>>

Init ==
  /\ market \in [Symbols -> [listing : Listings, terms : {1}]]
  /\ rows = [s \in Symbols |-> NoRow]
  /\ refresh = [p \in Processes |-> Idle]
  /\ command = NoCommand
  /\ bot = "preflight" /\ screen = NoScreen
  /\ wish = [s \in Symbols |-> "none"]
  /\ budget = [edits |-> 0, moves |-> 0, faults |-> 0]

RefreshUniverse(p) == Scan(p) \/ GetAll(p) \/ InsertOrUpdate(p) \/ RefreshDone(p)
Screen == GetUniverse \/ evaluateSymbol \/ ScreenDone

Next ==
  \/ \E p \in Processes : RefreshUniverse(p)
  \/ ScanFails \/ Screen
  \/ \E kind \in {"add", "remove"}, s \in Symbols : GetBySymbol(kind, s)
  \/ AddForceInclude \/ RemoveSymbol \/ CommandFails
  \/ Move \/ Crash

\* The bot's loop goes on for as long as its process lives. Nothing makes the
\* operator, the exchange or a fault take a step.
Spec == Init /\ [][Next]_vars /\ WF_vars(RefreshUniverse("bot")) /\ WF_vars(Screen)

-----------------------------------------------------------------------------
\* The type invariant.
UniverseTypeOK ==
  LET Entries == [sym : Symbols, row : Row] IN
  /\ market \in [Symbols -> [listing : Listings, terms : 1 .. MaxMoves + 1]]
  /\ rows \in [Symbols -> Row \cup {NoRow}]
  /\ \A p \in Processes : /\ refresh[p].at \in {"idle", "load", "write"}
                          /\ ToSet(refresh[p].todo) \subseteq Entries
  /\ bot \in {"preflight", "refresh", "read", "screen"}
  /\ wish \in [Symbols -> {"none", "in", "out"}]
  /\ ToSet(screen.left) \cup screen.in \cup screen.out \subseteq Symbols

\* A symbol the operator added by force is judged by every screen that reads
\* the table afterwards, whatever became of the other symbols' evaluations; a
\* symbol the operator removed is judged by none, until a scan returns it or
\* unless a refresh had it in hand (scanner.go AddForceInclude, RemoveSymbol
\* and RefreshUniverse, screener.go Screen).
JudgedSymbols == screen.eligible \cup screen.nonEligible \cup screen.rejected
OrdersHonoured ==
  /\ screen.out \cap JudgedSymbols = {}
  /\ screen.in \subseteq JudgedSymbols \cup ToSet(screen.left)

\* Once the exchange, the operator and the faults are quiet, a symbol that the
\* scan returns has, for good, the exchange's current terms in its row: no lost
\* update, failed upsert, blank record or crash leaves the sizing of orders with
\* stale tick and lot sizes (scanner.go RefreshUniverse, postgres_impl.go:135).
TermsHeal ==
  \A s \in Symbols : <>[](s \in Scanned => rows[s].terms = market[s].terms)

\* "bot universe remove SYMBOL - blacklist symbol" (docs/architecture.md:978):
\* only the operator's add takes a symbol off the blacklist.
RemovalStands ==
  [][\A s \in Symbols : rows[s].black /\ ~rows'[s].black =>
        command.kind = "add" /\ command.sym = s]_vars

=============================================================================
