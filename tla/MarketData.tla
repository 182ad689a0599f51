----------------------------- MODULE MarketData -----------------------------
(***************************************************************************)
(* internal/marketdata, for one symbol and one timeframe: the lifecycle of *)
(* the service (Start, Stop, the goroutine of each Start, its WebSocket    *)
(* loop), the frames it reads, the caches they fill, and the REST backfill.*)
(* Time is the number of the bar the exchange is building and whether its  *)
(* last half second has begun; clocks, prices and the parsing of frames    *)
(* are left out.                                                           *)
(***************************************************************************)
EXTENDS Integers, Sequences, FiniteSets

CONSTANTS MaxStarts,   \* bound: calls of Start
          MaxBars,     \* bound: bars of the exchange
          MaxUpdates,  \* bound: changes of the exchange's order book
          MaxDrops,    \* bound: connections lost, backfills missed, Starts timed out
          MaxWire,     \* bound: frames under way on a connection
          MaxRetries,  \* maxBackfillRetries
          Faults       \* what may go wrong in this instance

Starts == 1 .. MaxStarts
Bars == 1 .. MaxBars
NoBook == [u |-> 0, n |-> 0]

ASSUME MarketDataAssumption ==
  /\ MaxStarts \in Nat \ {0} /\ MaxBars \in Nat \ {0, 1} /\ MaxUpdates \in Nat \ {0}
  /\ MaxDrops \in Nat /\ MaxWire \in Nat \ {0, 1} /\ MaxRetries \in Nat
  /\ Faults \subseteq {"rest", "partial", "timeout", "insert", "replay", "restart", "drop"}

VARIABLES
  exchange,  \* the exchange: its open bar, whether that bar is within slackMillis
             \* of its end, its book's update id and contents
  service,   \* the fields under s.mu
  cancelled, \* the Starts whose context is cancelled
  runner,    \* the goroutine of each Start
  wire,      \* the frames each goroutine's connection has not read yet
  caller,    \* the goroutine that calls Start and Stop
  candles,   \* candleCache
  stored,    \* the candles table
  book,      \* orderBookStore
  cycle,     \* a GetCandles of the trading cycle
  drops      \* how many of these so far

vars == <<exchange, service, cancelled, runner, wire, caller, candles, stored,
          book, cycle, drops>>

market == <<candles, stored, book>>

\* "early": marked as confirmed from a reply made before the bar closed.
Candle == {"none", "open", "final", "early"}
Confirmed == {"final", "early"}

Frame ==
  [kind : {"kline"}, bar : Bars, confirm : BOOLEAN]
    \cup [kind : {"snapshot", "delta"}, u : Nat, n : 0 .. MaxUpdates]

Kline(b, confirm) == [kind |-> "kline", bar |-> b, confirm |-> confirm]
Snapshot(x) == [kind |-> "snapshot", u |-> x.u, n |-> x.n]
Delta(x) == [kind |-> "delta", u |-> x.u, n |-> x.n]

NoRows == [b \in Bars |-> "none"]

Asleep == [at |-> "none", seen |-> 0, tries |-> 0, ok |-> FALSE, rows |-> NoRows]

Init ==
  /\ exchange = [bar |-> 2, ending |-> FALSE, u |-> 1, n |-> 1]
  /\ service = [running |-> FALSE, failed |-> FALSE, current |-> 0, ready |-> 0]
  /\ cancelled = {}
  /\ runner = [g \in Starts |-> Asleep]
  /\ wire = [g \in Starts |-> <<>>]
  /\ caller = [at |-> "idle", starts |-> 0, up |-> FALSE, stopped |-> "no",
               gaveUp |-> FALSE]
  /\ candles = [b \in Bars |-> "none"]
  /\ stored \in {[b \in Bars |-> "none"], [b \in Bars |-> IF b = 1 THEN "final" ELSE "none"]}
  /\ book = NoBook
  /\ cycle = [at |-> "idle", seen |-> 0]
  /\ drops = 0

Fails(fault) == fault \in Faults

Goes(g, step) == runner' = [runner EXCEPT ![g].at = step]

\* The same, past the calls that used the other fields.
Comes(g, step, ok) == runner' = [runner EXCEPT ![g] = [Asleep EXCEPT !.at = step, !.ok = ok]]
-----------------------------------------------------------------------------
(* The exchange. A connection gets its frames in order; they are lost with it. *)
Listening == {g \in Starts : runner[g].at = "read"}

Sends(frames) ==
  /\ \A g \in Listening : Len(wire[g]) + Len(frames) <= MaxWire
  /\ wire' = [g \in Starts |-> IF g \in Listening THEN wire[g] \o frames ELSE wire[g]]

BarEnds ==
  /\ ~exchange.ending
  /\ exchange' = [exchange EXCEPT !.ending = TRUE]
  /\ UNCHANGED <<service, cancelled, runner, wire, caller, market, cycle, drops>>

BarCloses ==
  /\ exchange.ending /\ exchange.bar < MaxBars
  /\ exchange' = [exchange EXCEPT !.bar = @ + 1, !.ending = FALSE]
  /\ Sends(<<Kline(exchange.bar, TRUE), Kline(exchange.bar + 1, FALSE)>>)
  /\ UNCHANGED <<service, cancelled, runner, caller, market, cycle, drops>>

BookMoves ==
  /\ exchange.n < MaxUpdates
  /\ exchange' = [exchange EXCEPT !.u = @ + 1, !.n = @ + 1]
  /\ Sends(<<Delta(exchange')>>)
  /\ UNCHANGED <<service, cancelled, runner, caller, market, cycle, drops>>

\* A service restart of the exchange numbers the updates from 1 again and
\* sends a snapshot.
BookRestarts ==
  /\ Fails("restart") /\ exchange.u > 1
  /\ exchange' = [exchange EXCEPT !.u = 1]
  /\ Sends(<<Snapshot(exchange')>>)
  /\ UNCHANGED <<service, cancelled, runner, caller, market, cycle, drops>>

\* The exchange repeats the last delta a reader has applied.
OldDelta(g) ==
  /\ Fails("replay") /\ runner[g].at = "read" /\ Len(wire[g]) < MaxWire
  /\ book # NoBook
  /\ wire' = [wire EXCEPT ![g] = <<Delta(book)>> \o @]
  /\ UNCHANGED <<exchange, service, cancelled, runner, caller, market, cycle, drops>>
-----------------------------------------------------------------------------
(* Start and Stop *)
BeginStart ==
  /\ caller.at = "idle" /\ caller.starts < MaxStarts
  /\ ~service.running
  /\ LET g == caller.starts + 1
     IN  /\ service' = [running |-> TRUE, failed |-> FALSE, current |-> g, ready |-> g]
         /\ runner' = [runner EXCEPT ![g] = [@ EXCEPT !.at = "backfill"]]
         /\ caller' = [caller EXCEPT !.at = "starting", !.starts = g, !.up = FALSE, !.stopped = "no"]
  /\ UNCHANGED <<exchange, cancelled, wire, market, cycle, drops>>

\* Mutant of FailStartIfCurrent: an older Start marks a newer one as stopped.
FailStart(g) ==
  /\ service' = [service EXCEPT !.failed = TRUE, !.running = FALSE]
  /\ cancelled' = cancelled \cup {g}

FailStartIfCurrent(g) ==
  /\ service' = IF service.ready = g
                THEN [service EXCEPT !.failed = TRUE, !.running = FALSE] ELSE service
  /\ cancelled' = cancelled \cup {g}

Ready(g) == runner[g].at \in {"ready", "loop", "dial", "read", "pause", "done"}

StartReturns ==
  /\ caller.at = "starting" /\ Ready(caller.starts)
  /\ caller' = [caller EXCEPT !.at = "idle", !.up = ~service.failed]
  /\ UNCHANGED <<exchange, service, cancelled, runner, wire, market, cycle, drops>>

\* The timer may be chosen although the backfill has just finished as well.
StartTimesOut ==
  /\ Fails("timeout") /\ caller.at = "starting"
  /\ drops < MaxDrops /\ drops' = drops + 1
  /\ FailStartIfCurrent(caller.starts)
  /\ caller' = [caller EXCEPT !.at = "idle", !.gaveUp = TRUE]
  /\ UNCHANGED <<exchange, runner, wire, market, cycle>>

\* A service that is not running, as after a Start that failed or timed out,
\* is left as it is: Stop waits for no goroutine.
StopAtOnce ==
  /\ caller.at = "idle" /\ ~service.running /\ cycle.at = "idle"
  /\ caller' = [caller EXCEPT !.up = FALSE, !.stopped = "at once"]
  /\ UNCHANGED <<exchange, service, cancelled, runner, wire, market, cycle, drops>>

BeginStop ==
  /\ caller.at = "idle" /\ service.running /\ cycle.at = "idle"
  /\ service' = [service EXCEPT !.running = FALSE, !.failed = FALSE, !.ready = 0]
  /\ cancelled' = cancelled \cup {service.current}
  /\ caller' = [caller EXCEPT !.at = "stopping", !.up = FALSE]
  /\ UNCHANGED <<exchange, runner, wire, market, cycle, drops>>

AllDone == \A g \in Starts : runner[g].at \in {"none", "done"}

StopReturns ==
  /\ caller.at = "stopping" /\ AllDone
  /\ caller' = [caller EXCEPT !.at = "idle", !.stopped = "waited"]
  /\ UNCHANGED <<exchange, service, cancelled, runner, wire, market, cycle, drops>>
-----------------------------------------------------------------------------
(* backfillAndWarm: ask, retry, insert the bars that are over now or within  *)
(* slackMillis of it, then warm the cache with them. A reply says of its last *)
(* bar what was known when it was made.                                       *)

\* Mutant of Closed: the open bar is kept, as confirmed.
ClosedOrOpen(seen, b) == b <= seen

Closed(seen, b) ==
  b <= seen /\ (b < exchange.bar \/ (b = exchange.bar /\ exchange.ending))

Backfilled(seen) ==
  [b \in Bars |-> IF ~Closed(seen, b) THEN "none" ELSE IF b < seen THEN "final" ELSE "early"]

Warm(cache, rows) == [b \in Bars |-> IF rows[b] = "none" THEN cache[b] ELSE rows[b]]

Ask(g) ==
  /\ runner[g].at = "backfill"
  /\ runner' = [runner EXCEPT ![g].at = "reply", ![g].seen = exchange.bar]
  /\ UNCHANGED <<exchange, service, cancelled, wire, caller, market, cycle, drops>>

\* Mutant of Allows: the rows are inserted under a context of their own.
AllowsAlways(g) == TRUE

Allows(g) == g \notin cancelled

Reply(g) ==
  /\ runner[g].at = "reply" /\ Allows(g)
  /\ stored' = Warm(stored, Backfilled(runner[g].seen))
  /\ runner' = [runner EXCEPT ![g].at = "warm", ![g].rows = Backfilled(runner[g].seen)]
  /\ UNCHANGED <<exchange, service, cancelled, wire, caller, candles, book, cycle, drops>>

\* The cache is filled without a look at the context.
WarmCache(g) ==
  /\ runner[g].at = "warm"
  /\ candles' = Warm(candles, runner[g].rows)
  /\ Comes(g, "report", TRUE)
  /\ UNCHANGED <<exchange, service, cancelled, wire, caller, stored, book, cycle, drops>>

\* Mutant of TriesLeft: one attempt too many.
OneTooMany(g) == runner[g].tries <= MaxRetries

TriesLeft(g) == runner[g].tries < MaxRetries

\* A rate limit or a network error is asked again.
AskAgain(g) ==
  /\ Fails("rest") /\ runner[g].at = "reply" /\ g \notin cancelled
  /\ TriesLeft(g)
  /\ runner' = [runner EXCEPT ![g].at = "backfill", ![g].tries = @ + 1]
  /\ UNCHANGED <<exchange, service, cancelled, wire, caller, market, cycle, drops>>

\* The last error, another one and a cancelled context end the backfill.
BackfillFails(g) ==
  /\ runner[g].at = "reply" /\ (Fails("rest") \/ g \in cancelled)
  /\ Comes(g, "report", FALSE)
  /\ UNCHANGED <<exchange, service, cancelled, wire, caller, market, cycle, drops>>

\* So does an INSERT that fails, or a context cancelled between two of them: the
\* rows before it are in, the cache has none.
InsertFails(g) ==
  /\ Fails("insert") /\ runner[g].at = "reply" /\ Allows(g)
  /\ \E last \in Bars :
       stored' = [b \in Bars |-> IF b < last THEN Warm(stored, Backfilled(runner[g].seen))[b]
                                ELSE stored[b]]
  /\ Comes(g, "report", FALSE)
  /\ UNCHANGED <<exchange, service, cancelled, wire, caller, candles, book, cycle, drops>>

\* A Start fails only when every symbol and timeframe did: "partial" is
\* another one that did not.
Report(g) ==
  /\ runner[g].at = "report"
  /\ \/ /\ \/ runner[g].ok /\ UNCHANGED drops
           \/ ~runner[g].ok /\ Fails("partial") /\ drops < MaxDrops /\ drops' = drops + 1
        /\ Comes(g, "ready", FALSE)
        /\ UNCHANGED <<service, cancelled>>
     \/ ~runner[g].ok /\ FailStartIfCurrent(g) /\ Goes(g, "done") /\ UNCHANGED drops
  /\ UNCHANGED <<exchange, wire, caller, market, cycle>>

Entering(g) == Goes(g, IF g \in cancelled THEN "done" ELSE "loop")

EnterLoop(g) ==
  /\ runner[g].at = "ready" /\ Entering(g)
  /\ UNCHANGED <<exchange, service, cancelled, wire, caller, market, cycle, drops>>
-----------------------------------------------------------------------------
(* runWSLoop and connectAndServe. They look at s.ctx, which is the context of *)
(* the latest Start, not at the one their goroutine was started with.         *)

\* Mutant of ContextDone: Stop has to wait for a loop that never looks.
NeverDone == FALSE

ContextDone == service.current \in cancelled

Dial(g) ==
  /\ runner[g].at \in {"loop", "pause"}
  /\ Goes(g, IF ContextDone THEN "done" ELSE "dial")
  /\ UNCHANGED <<exchange, service, cancelled, wire, caller, market, cycle, drops>>

\* Dial, subscribe, wait for the ack: the exchange starts with a snapshot of
\* the book and the open bar.
Subscribe(g) ==
  /\ runner[g].at = "dial" /\ ~ContextDone
  /\ Goes(g, "read")
  /\ wire' = [wire EXCEPT ![g] = <<Snapshot(exchange), Kline(exchange.bar, FALSE)>>]
  /\ UNCHANGED <<exchange, service, cancelled, caller, market, cycle, drops>>

\* Refused, rejected or never acknowledged; or lost. Frames not read are lost.
Disconnect(g) ==
  /\ runner[g].at \in {"dial", "read"}
  /\ \/ ContextDone /\ UNCHANGED drops
     \/ Fails("drop") /\ drops < MaxDrops /\ drops' = drops + 1
  /\ Goes(g, "pause")
  /\ wire' = [wire EXCEPT ![g] = <<>>]
  /\ UNCHANGED <<exchange, service, cancelled, caller, market, cycle>>

\* Mutant of Reset: a snapshot with a lower update id is taken for an old one.
ResetIfNewer(f) == IF f.u < book.u THEN book ELSE [u |-> f.u, n |-> f.n]

Reset(f) == [u |-> f.u, n |-> f.n]

\* Levels that are not those of any one moment of the exchange.
Mixture == 0

\* The update ids need not be consecutive, and a delta is applied as it comes.
ApplyDelta(f) ==
  IF book = NoBook \/ f.u <= book.u THEN book
  ELSE [u |-> f.u, n |-> IF book.n # Mixture /\ f.n = book.n + 1 THEN f.n ELSE Mixture]

OnKline(f) ==
  /\ candles' = [candles EXCEPT ![f.bar] = IF f.confirm THEN "final" ELSE "open"]
  /\ \/ f.confirm /\ stored' = [stored EXCEPT ![f.bar] = "final"]
     \/ (~f.confirm \/ Fails("insert")) /\ UNCHANGED stored
  /\ UNCHANGED book

OnOrderBook(f) ==
  /\ book' = IF f.kind = "snapshot" THEN Reset(f) ELSE ApplyDelta(f)
  /\ UNCHANGED <<candles, stored>>

\* The handlers do nothing once running is false.
Dispatch(g) ==
  /\ runner[g].at = "read" /\ wire[g] # <<>>
  /\ LET f == Head(wire[g])
     IN  IF ~service.running \/ (f.kind = "kline" /\ ContextDone)
         THEN UNCHANGED market
         ELSE IF f.kind = "kline" THEN OnKline(f) ELSE OnOrderBook(f)
  /\ wire' = [wire EXCEPT ![g] = Tail(@)]
  /\ UNCHANGED <<exchange, service, cancelled, runner, caller, cycle, drops>>
-----------------------------------------------------------------------------
(* GetCandles: the cache, else the table, else a backfill on demand. *)
Empty(cache) == \A b \in Bars : cache[b] = "none"

GetCandles ==
  /\ caller.up /\ cycle.at = "idle" /\ Empty(candles)
  /\ IF Empty(stored)
     THEN cycle' = [at |-> "reply", seen |-> exchange.bar] /\ UNCHANGED candles
     ELSE candles' = Warm(candles, stored) /\ UNCHANGED cycle
  /\ UNCHANGED <<exchange, service, cancelled, runner, wire, caller, stored, book, drops>>

GetCandlesReply ==
  /\ cycle.at = "reply"
  /\ cycle' = [cycle EXCEPT !.at = "idle"]
  /\ \/ /\ candles' = Warm(candles, Backfilled(cycle.seen))
        /\ stored' = Warm(stored, Backfilled(cycle.seen))
     \/ Fails("rest") /\ UNCHANGED <<candles, stored>>
  /\ UNCHANGED <<exchange, service, cancelled, runner, wire, caller, book, drops>>

Run(g) ==
  \/ Ask(g) \/ Reply(g) \/ WarmCache(g) \/ AskAgain(g) \/ BackfillFails(g) \/ InsertFails(g)
  \/ Report(g) \/ EnterLoop(g)
  \/ Dial(g) \/ Subscribe(g) \/ Disconnect(g) \/ Dispatch(g)

Next ==
  \/ BarEnds \/ BarCloses \/ BookMoves \/ BookRestarts
  \/ BeginStart \/ StartReturns \/ StartTimesOut
  \/ StopAtOnce \/ BeginStop \/ StopReturns
  \/ \E g \in Starts : Run(g) \/ OldDelta(g)
  \/ GetCandles \/ GetCandlesReply

Spec == Init /\ [][Next]_vars

\* The calls and the goroutines go on: an HTTP request has a timeout, a read a
\* deadline, the backoff an end, and select looks at a cancelled context.
Fairness ==
  /\ WF_vars(StartReturns) /\ WF_vars(StopReturns) /\ WF_vars(GetCandlesReply)
  /\ \A g \in Starts :
       /\ WF_vars(Ask(g)) /\ WF_vars(Reply(g) \/ BackfillFails(g))
       /\ WF_vars(WarmCache(g)) /\ WF_vars(Report(g))
       /\ WF_vars(EnterLoop(g)) /\ WF_vars(Dial(g)) /\ WF_vars(Dispatch(g))
       /\ WF_vars(Subscribe(g) \/ (ContextDone /\ Disconnect(g)))

FairSpec == Spec /\ Fairness
-----------------------------------------------------------------------------
(* Properties. *)

TypeOK ==
  /\ exchange \in [bar : Bars, ending : BOOLEAN, u : Nat, n : 1 .. MaxUpdates]
  /\ service \in [running : BOOLEAN, failed : BOOLEAN, current : 0 .. MaxStarts,
                  ready : 0 .. MaxStarts]
  /\ cancelled \subseteq Starts
  /\ runner \in [Starts -> [at : {"none", "backfill", "reply", "warm", "report", "ready", "loop",
                                "dial", "read", "pause", "done"},
                          seen : 0 .. MaxBars, tries : 0 .. MaxRetries, ok : BOOLEAN,
                          rows : [Bars -> Candle]]]
  /\ wire \in [Starts -> Seq(Frame)] /\ \A g \in Starts : Len(wire[g]) <= MaxWire
  /\ caller \in [at : {"idle", "starting", "stopping"}, starts : 0 .. MaxStarts,
                 up : BOOLEAN, stopped : {"no", "at once", "waited"}, gaveUp : BOOLEAN]
  /\ candles \in [Bars -> Candle] /\ stored \in [Bars -> Candle]
  /\ book \in [u : Nat, n : 0 .. MaxUpdates]
  /\ cycle \in [at : {"idle", "reply"}, seen : 0 .. MaxBars]
  /\ drops \in 0 .. MaxDrops

\* B1: across lost connections, repeated deltas and update ids that start again,
\* the levels are always those of one moment of the exchange; and of the
\* present, once the reader has caught up. A Start that gave up just when its
\* backfill ended leaves a loop that goes on under the next one's context: two
\* readers then write one book, and nothing is said of it.
CaughtUp == service.running /\ \E g \in Listening : wire[g] = <<>>

BookAgrees ==
  ~caller.gaveUp =>
  /\ book # NoBook => book.n # Mixture /\ book.n <= exchange.n
  /\ CaughtUp => book = [u |-> exchange.u, n |-> exchange.n]

\* A candle marked as confirmed, in the cache or the table, is of a bar that is
\* over, or in the last half second that the backfill's slack allows; whichever
\* of the three ways it came, and however late the reply.
ConfirmedIsOver ==
  \A b \in Bars : candles[b] \in Confirmed \/ stored[b] \in Confirmed =>
    b < exchange.bar \/ (b = exchange.bar /\ exchange.ending)

\* When Stop has waited, no goroutine of any Start is left. When it returned at
\* once, because the service was not running, those left are of Starts that
\* failed, with their contexts cancelled: never one that reads the stream. So a
\* Start that fails late must not mark a newer one as stopped.
Alive == {g \in Starts : runner[g].at \notin {"none", "done"}}

StopMeansStopped ==
  /\ caller.stopped = "waited" => Alive = {}
  /\ caller.stopped = "at once" => Alive \subseteq cancelled

\* From the return of Stop to the next Start no candle is written to the
\* database, which the caller closes, even if Stop did not wait and a backfill
\* goes on.
NothingSavedAfterStop ==
  [][caller.stopped # "no" /\ caller'.stopped # "no" => stored' = stored]_vars

\* Every call of Start and Stop returns, whatever the connection does.
CallsReturn == caller.at # "idle" ~> caller.at = "idle"

\* "Backfill missing candles after reconnect": of a history that was whole, the
\* bars missed while the connection was down are there and confirmed at last.
NoHole ==
  \A b \in Bars : b < exchange.bar /\ (\E first \in Bars : first < b /\ candles[first] # "none")
     => candles[b] \in Confirmed

HistoryHeals == [](CaughtUp /\ NoHole => (<>[]CaughtUp => <>[]NoHole))
=============================================================================
