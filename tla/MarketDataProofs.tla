-------------------------- MODULE MarketDataProofs --------------------------
(***************************************************************************)
(* The market data service, for every number of Starts, bars, updates and  *)
(* retries, every length of a connection's backlog, and every combination  *)
(* of what may go wrong.                                                   *)
(***************************************************************************)
EXTENDS MarketData, SequenceTheorems, TLAPS

(* Frames *)

Sent(w) == {w[i] : i \in 1 .. Len(w)}

LEMMA FrameFields ==
  ASSUME NEW f \in Frame
  PROVE  /\ f.kind \in {"kline", "snapshot", "delta"}
         /\ f.kind = "kline" => f.bar \in Bars /\ f.confirm \in BOOLEAN
         /\ f.kind # "kline" => f.u \in Nat /\ f.n \in 0 .. MaxUpdates
  BY DEF Frame

LEMMA KlineType ==
  ASSUME NEW b \in Bars, NEW confirm \in BOOLEAN
  PROVE  LET f == Kline(b, confirm)
         IN  f \in Frame /\ f.kind = "kline" /\ f.bar = b /\ f.confirm = confirm
  BY DEF Kline, Frame

LEMMA BookFrameType ==
  ASSUME NEW x, x.u \in Nat, x.n \in 0 .. MaxUpdates
  PROVE  /\ Snapshot(x) \in Frame /\ Snapshot(x).kind = "snapshot"
         /\ Snapshot(x).u = x.u /\ Snapshot(x).n = x.n
         /\ Delta(x) \in Frame /\ Delta(x).kind = "delta"
         /\ Delta(x).u = x.u /\ Delta(x).n = x.n
  BY DEF Snapshot, Delta, Frame

LEMMA TailSent ==
  ASSUME NEW w \in Seq(Frame), w # <<>>
  PROVE  /\ Tail(w) \in Seq(Frame) /\ Len(Tail(w)) = Len(w) - 1
         /\ Head(w) \in Sent(w) /\ Head(w) = w[1] /\ Sent(Tail(w)) \subseteq Sent(w)
         /\ Len(w) \in Nat \ {0} /\ \A i \in 1 .. Len(w) - 1 : Tail(w)[i] = w[i + 1]
<1>1. /\ Tail(w) \in Seq(Frame) /\ Len(Tail(w)) = Len(w) - 1
      /\ \A i \in 1 .. Len(Tail(w)) : Tail(w)[i] = w[i + 1]
  BY HeadTailProperties
<1>2. Len(w) \in Nat \ {0}
  BY EmptySeq
<1>3. Head(w) = w[1]
  BY <1>2
<1> HIDE DEF Sent
<1>4. Head(w) \in Sent(w)
  BY <1>2, <1>3 DEF Sent
<1>5. Sent(Tail(w)) \subseteq Sent(w)
  BY <1>1, <1>2 DEF Sent
<1> QED BY <1>1, <1>2, <1>3, <1>4, <1>5

LEMMA ConcatSent ==
  ASSUME NEW v \in Seq(Frame), NEW w \in Seq(Frame)
  PROVE  /\ v \o w \in Seq(Frame) /\ Len(v \o w) = Len(v) + Len(w)
         /\ Sent(v \o w) \subseteq Sent(v) \cup Sent(w)
         /\ Len(v) \in Nat /\ Len(w) \in Nat
<1>1. /\ v \o w \in Seq(Frame) /\ Len(v \o w) = Len(v) + Len(w)
      /\ \A i \in 1 .. Len(v) + Len(w) :
           (v \o w)[i] = IF i <= Len(v) THEN v[i] ELSE w[i - Len(v)]
  BY ConcatProperties
<1>2. Len(v) \in Nat /\ Len(w) \in Nat
  BY LenProperties
<1>3. Sent(v \o w) \subseteq Sent(v) \cup Sent(w)
  <2> SUFFICES ASSUME NEW i \in 1 .. Len(v) + Len(w)
               PROVE  (v \o w)[i] \in Sent(v) \cup Sent(w)
    BY <1>1 DEF Sent
  <2>1. CASE i <= Len(v)
    BY <1>1, <1>2, <2>1 DEF Sent
  <2>2. CASE ~(i <= Len(v))
    <3>1. i - Len(v) \in 1 .. Len(w)
      BY <1>2, <2>2
    <3> QED BY <1>1, <2>2, <3>1 DEF Sent
  <2> QED BY <2>1, <2>2
<1> QED BY <1>1, <1>2, <1>3

LEMMA SentType ==
  ASSUME NEW w \in Seq(Frame)
  PROVE  \A f \in Sent(w) : f \in Frame
  BY ElementOfSeq DEF Sent

\* Short sequences, and what they hold.
LEMMA ShortSeqs ==
  ASSUME NEW f \in Frame, NEW g \in Frame
  PROVE  /\ <<f>> \in Seq(Frame) /\ Len(<<f>>) = 1 /\ Sent(<<f>>) = {f}
         /\ <<f, g>> \in Seq(Frame) /\ Len(<<f, g>>) = 2 /\ Sent(<<f, g>>) = {f, g}
         /\ <<>> \in Seq(Frame) /\ Len(<<>>) = 0 /\ Sent(<<>>) = {}
<1>1. 1 .. 1 = {1} /\ 1 .. 2 = {1, 2} /\ 1 .. 0 = {}
  OBVIOUS
<1>2. /\ <<f>> \in Seq(Frame) /\ Len(<<f>>) = 1 /\ <<f>>[1] = f
      /\ <<f, g>> \in Seq(Frame) /\ Len(<<f, g>>) = 2
      /\ <<f, g>>[1] = f /\ <<f, g>>[2] = g
      /\ <<>> \in Seq(Frame) /\ Len(<<>>) = 0
  OBVIOUS
<1>3. Sent(<<f>>) = {f}
  BY <1>1, <1>2 DEF Sent
<1>4. Sent(<<f, g>>) = {f, g}
  BY <1>1, <1>2 DEF Sent
<1>5. Sent(<<>>) = {}
  BY <1>1, <1>2 DEF Sent
<1> QED BY <1>2, <1>3, <1>4, <1>5
-----------------------------------------------------------------------------
(* Type correctness *)

RunnerSteps == {"none", "backfill", "reply", "warm", "report", "ready", "loop",
                "dial", "read", "pause", "done"}

RunnerState ==
  [at : RunnerSteps, seen : 0 .. MaxBars, tries : 0 .. MaxRetries, ok : BOOLEAN,
   rows : [Bars -> Candle]]

\* The parts of the state, and their ranges.
LEMMA Shape ==
  ASSUME TypeOK
  PROVE  /\ exchange \in [bar : Bars, ending : BOOLEAN, u : Nat, n : 1 .. MaxUpdates]
         /\ exchange.bar \in Bars /\ exchange.bar \in 0 .. MaxBars /\ exchange.bar \in Int
         /\ exchange.u \in Nat /\ exchange.n \in 1 .. MaxUpdates /\ exchange.n \in 0 .. MaxUpdates
         /\ runner \in [Starts -> RunnerState] /\ DOMAIN runner = Starts
         /\ caller \in [at : {"idle", "starting", "stopping"}, starts : 0 .. MaxStarts,
                        up : BOOLEAN, stopped : {"no", "at once", "waited"}, gaveUp : BOOLEAN]
         /\ caller.starts \in 0 .. MaxStarts /\ caller.starts \in Int
         /\ service \in [running : BOOLEAN, failed : BOOLEAN, current : 0 .. MaxStarts,
                         ready : 0 .. MaxStarts]
         /\ service.current \in 0 .. MaxStarts
         /\ candles \in [Bars -> Candle] /\ stored \in [Bars -> Candle]
         /\ cycle \in [at : {"idle", "reply"}, seen : 0 .. MaxBars]
<1>1. runner \in [Starts -> RunnerState]
  BY DEF TypeOK, RunnerState, RunnerSteps
<1>2. exchange \in [bar : Bars, ending : BOOLEAN, u : Nat, n : 1 .. MaxUpdates]
  BY DEF TypeOK
<1>3. exchange.bar \in 1 .. MaxBars /\ exchange.n \in 1 .. MaxUpdates
  BY <1>2 DEF Bars
<1>4. caller.starts \in 0 .. MaxStarts
  BY DEF TypeOK
<1>5. /\ caller \in [at : {"idle", "starting", "stopping"}, starts : 0 .. MaxStarts,
                     up : BOOLEAN, stopped : {"no", "at once", "waited"}, gaveUp : BOOLEAN]
      /\ service \in [running : BOOLEAN, failed : BOOLEAN, current : 0 .. MaxStarts,
                      ready : 0 .. MaxStarts]
      /\ candles \in [Bars -> Candle] /\ stored \in [Bars -> Candle]
      /\ cycle \in [at : {"idle", "reply"}, seen : 0 .. MaxBars]
  BY DEF TypeOK
<1>6. exchange.bar \in 0 .. MaxBars /\ exchange.bar \in Int /\ exchange.n \in 0 .. MaxUpdates
  BY <1>3, MarketDataAssumption
<1>7. exchange.bar \in Bars /\ exchange.u \in Nat
  BY <1>2
<1>8. caller.starts \in Int
  BY <1>4
<1>9. DOMAIN runner = Starts /\ service.current \in 0 .. MaxStarts
  BY <1>1, <1>5
<1> HIDE DEF RunnerState
<1> QED BY <1>1, <1>2, <1>3, <1>4, <1>5, <1>6, <1>7, <1>8, <1>9

\* The bar is over, or within the backfill's slack of it.
Over(b) == b < exchange.bar \/ (b = exchange.bar /\ exchange.ending)

\* The exchange goes on only.
Ahead ==
  /\ exchange'.bar >= exchange.bar
  /\ exchange'.bar = exchange.bar /\ exchange.ending => exchange'.ending

\* The wires of a step that sends frames keep their type and their bound, and
\* hold what they held or what was sent.
LEMMA SendsType ==
  ASSUME TypeOK, NEW frames \in Seq(Frame), Sends(frames)
  PROVE  /\ wire' \in [Starts -> Seq(Frame)]
         /\ \A g \in Starts : Len(wire'[g]) <= MaxWire
         /\ \A g \in Starts : Sent(wire'[g]) \subseteq Sent(wire[g]) \cup Sent(frames)
<1> SUFFICES ASSUME NEW g \in Starts
             PROVE  /\ wire'[g] \in Seq(Frame) /\ Len(wire'[g]) <= MaxWire
                    /\ Sent(wire'[g]) \subseteq Sent(wire[g]) \cup Sent(frames)
  <2>1. wire' = [g \in Starts |-> wire'[g]]
    BY DEF Sends
  <2> QED BY <2>1
<1>1. wire[g] \in Seq(Frame) /\ Len(wire[g]) <= MaxWire
  BY DEF TypeOK
<1>2. CASE g \in Listening
  <2>1. wire'[g] = wire[g] \o frames /\ Len(wire[g]) + Len(frames) <= MaxWire
    BY <1>2 DEF Sends
  <2> QED BY <1>1, <2>1, ConcatSent
<1>3. CASE g \notin Listening
  BY <1>1, <1>3 DEF Sends
<1> QED BY <1>2, <1>3

\* The rest of the state, in a step of the exchange, of a call or of a reader.
LEMMA RunnerType ==
  ASSUME TypeOK, NEW g \in Starts, NEW r \in RunnerState, runner' = [runner EXCEPT ![g] = r]
  PROVE  runner' \in [Starts -> RunnerState]
  BY DEF TypeOK, RunnerState, RunnerSteps

LEMMA GoesType ==
  ASSUME TypeOK, NEW g \in Starts,
         NEW step \in RunnerSteps, Goes(g, step)
  PROVE  runner' \in [Starts -> RunnerState]
<1> DEFINE r == [runner[g] EXCEPT !.at = step]
<1>0. runner[g] \in RunnerState
  BY DEF TypeOK, RunnerState, RunnerSteps
<1>1. r \in RunnerState
  BY <1>0 DEF RunnerState
<1>2. runner' = [runner EXCEPT ![g] = r]
  BY DEF Goes
<1> HIDE DEF r
<1> QED BY <1>1, <1>2, RunnerType

LEMMA ComesType ==
  ASSUME TypeOK, NEW g \in Starts, NEW step \in RunnerSteps, NEW ok \in BOOLEAN,
         Comes(g, step, ok)
  PROVE  runner' \in [Starts -> RunnerState]
<1> DEFINE r == [Asleep EXCEPT !.at = step, !.ok = ok]
<1>1. NoRows \in [Bars -> Candle] /\ 0 \in 0 .. MaxBars /\ 0 \in 0 .. MaxRetries
  BY MarketDataAssumption DEF NoRows, Candle
<1>2. Asleep \in RunnerState
  <2> HIDE DEF NoRows
  <2> QED BY <1>1 DEF Asleep, RunnerState, RunnerSteps
<1>3. \A z \in RunnerState : [z EXCEPT !.at = step, !.ok = ok] \in RunnerState
  BY DEF RunnerState
<1>4. runner' = [runner EXCEPT ![g] = r]
  BY DEF Comes
<1>5. r \in RunnerState
  BY <1>2, <1>3
<1> HIDE DEF r
<1> QED BY <1>4, <1>5, RunnerType

LEMMA WarmType ==
  ASSUME NEW cache \in [Bars -> Candle], NEW seen
  PROVE  /\ Warm(cache, Backfilled(seen)) \in [Bars -> Candle]
         /\ \A b \in Bars : Warm(cache, Backfilled(seen))[b] \in Confirmed
                              => cache[b] \in Confirmed \/ Over(b)
         /\ Backfilled(seen) \in [Bars -> Candle]
         /\ \A b \in Bars : Backfilled(seen)[b] \in Confirmed => Over(b)
<1> SUFFICES ASSUME NEW b \in Bars
             PROVE  /\ Warm(cache, Backfilled(seen))[b] \in Candle
                    /\ Warm(cache, Backfilled(seen))[b] \in Confirmed
                         => cache[b] \in Confirmed \/ Over(b)
                    /\ Backfilled(seen)[b] \in Confirmed => Over(b)
  BY DEF Warm, Backfilled, Candle
<1>1. /\ Backfilled(seen)[b] \in {"none", "final", "early"}
      /\ Backfilled(seen)[b] # "none" => Over(b)
  BY DEF Backfilled, Closed, Over
<1> QED BY <1>1 DEF Warm, Candle, Confirmed

LEMMA InitType == Init => TypeOK
<1> SUFFICES ASSUME Init PROVE TypeOK
  OBVIOUS
<1>1. exchange \in [bar : Bars, ending : BOOLEAN, u : Nat, n : 1 .. MaxUpdates]
  BY MarketDataAssumption DEF Init, Bars
<1>2. /\ service \in [running : BOOLEAN, failed : BOOLEAN, current : 0 .. MaxStarts,
                      ready : 0 .. MaxStarts]
      /\ caller \in [at : {"idle", "starting", "stopping"}, starts : 0 .. MaxStarts,
                     up : BOOLEAN, stopped : {"no", "at once", "waited"}, gaveUp : BOOLEAN]
      /\ cycle \in [at : {"idle", "reply"}, seen : 0 .. MaxBars]
  BY MarketDataAssumption DEF Init
<1>3. runner \in [Starts -> RunnerState]
  BY MarketDataAssumption DEF Init, Asleep, RunnerState, RunnerSteps, NoRows, Candle
<1>4. wire \in [Starts -> Seq(Frame)] /\ \A g \in Starts : Len(wire[g]) <= MaxWire
  BY MarketDataAssumption DEF Init
<1>5. candles \in [Bars -> Candle] /\ stored \in [Bars -> Candle]
  BY DEF Init, Candle
<1>6. book \in [u : Nat, n : 0 .. MaxUpdates] /\ drops \in 0 .. MaxDrops
  BY MarketDataAssumption DEF Init, NoBook
<1>7. cancelled \subseteq Starts
  BY DEF Init
<1> QED BY <1>1, <1>2, <1>3, <1>4, <1>5, <1>6, <1>7
  DEF TypeOK, RunnerState, RunnerSteps

LEMMA ExchangeType ==
  ASSUME TypeOK, BarEnds \/ BarCloses \/ BookMoves \/ BookRestarts \/ \E g \in Starts : OldDelta(g)
  PROVE  /\ TypeOK'
         /\ \A g \in Starts : \A f \in Sent(wire'[g]) :
              f \in Sent(wire[g]) \/ (f.kind = "kline" /\ f.confirm => f.bar < exchange'.bar)
         /\ Ahead
<1> USE MarketDataAssumption
<1>0. /\ exchange.bar \in Bars /\ exchange.u \in Nat /\ exchange.n \in 1 .. MaxUpdates
      /\ Bars = 1 .. MaxBars /\ book.u \in Nat /\ book.n \in 0 .. MaxUpdates
  BY DEF TypeOK, Bars
<1>1. ASSUME NEW frames \in Seq(Frame), Sends(frames),
             \A f \in Sent(frames) : f.kind = "kline" /\ f.confirm => f.bar < exchange'.bar
      PROVE  /\ wire' \in [Starts -> Seq(Frame)]
             /\ \A g \in Starts : Len(wire'[g]) <= MaxWire
             /\ \A g \in Starts : \A f \in Sent(wire'[g]) :
                  f \in Sent(wire[g]) \/ (f.kind = "kline" /\ f.confirm => f.bar < exchange'.bar)
  BY <1>1, SendsType
<1>6. CASE BarEnds
  <2>1. /\ exchange' = [exchange EXCEPT !.ending = TRUE]
        /\ UNCHANGED <<service, cancelled, runner, wire, caller, market, cycle, drops>>
    BY <1>6 DEF BarEnds
  <2>2. /\ exchange' \in [bar : Bars, ending : BOOLEAN, u : Nat, n : 1 .. MaxUpdates]
        /\ exchange'.bar = exchange.bar /\ exchange'.ending
        /\ exchange'.n = exchange.n /\ exchange'.u = exchange.u
    BY <2>1 DEF TypeOK
  <2>3. Ahead
    BY <1>0, <2>2 DEF Ahead
  <2> QED BY <2>1, <2>2, <2>3 DEF TypeOK, market
<1>2. CASE BarCloses
  <2> DEFINE f == Kline(exchange.bar, TRUE)
             h == Kline(exchange.bar + 1, FALSE)
             bar == exchange.bar + 1
  <2>1. bar \in Bars /\ exchange' = [exchange EXCEPT !.bar = bar, !.ending = FALSE]
    <3>1. exchange.bar < MaxBars /\ exchange' = [exchange EXCEPT !.bar = bar, !.ending = FALSE]
      BY <1>2 DEF BarCloses
    <3>2. exchange.bar \in 1 .. MaxBars /\ MaxBars \in Nat
      BY MarketDataAssumption DEF TypeOK, Bars
    <3>3. bar \in 1 .. MaxBars
      BY <3>1, <3>2
    <3> QED BY <3>1, <3>3 DEF Bars
  <2>2. exchange' \in [bar : Bars, ending : BOOLEAN, u : Nat, n : 1 .. MaxUpdates] /\ exchange'.bar = bar
    BY <1>0, <2>1 DEF TypeOK
  <2>3. /\ f \in Frame /\ h \in Frame /\ f.kind = "kline" /\ f.bar = exchange.bar
        /\ h.kind = "kline" /\ h.confirm = FALSE
    BY <1>0, <2>1, KlineType
  <2>4. exchange.bar < bar /\ exchange.bar \in Int
    BY <1>0
  <2>5. Sends(<<f, h>>)
    BY <1>2 DEF BarCloses
  <2> HIDE DEF f, h, bar
  <2>6. <<f, h>> \in Seq(Frame) /\ Sent(<<f, h>>) = {f, h}
    BY <2>3, ShortSeqs
  <2>7. \A x \in Sent(<<f, h>>) : x.kind = "kline" /\ x.confirm => x.bar < exchange'.bar
    BY <2>2, <2>3, <2>4, <2>6
  <2>8. Ahead
    BY <2>2, <2>4 DEF bar, Ahead
  <2> QED BY <1>1, <1>2, <2>2, <2>5, <2>6, <2>7, <2>8 DEF BarCloses, TypeOK, market
<1>3. CASE BookMoves
  <2> DEFINE u == exchange.u + 1
             n == exchange.n + 1
             f == Delta(exchange')
  <2>1. u \in Nat /\ n \in 1 .. MaxUpdates /\ exchange' = [exchange EXCEPT !.u = u, !.n = n]
    <3>1. exchange.u \in Nat /\ exchange.n \in 1 .. MaxUpdates
      BY DEF TypeOK
    <3>2. exchange.n < MaxUpdates /\ exchange' = [exchange EXCEPT !.u = u, !.n = n]
      BY <1>3 DEF BookMoves
    <3>3. MaxUpdates \in Nat
      BY MarketDataAssumption
    <3>4. u \in Nat
      BY <3>1
    <3>5. n \in 1 .. MaxUpdates
      BY <3>1, <3>2, <3>3
    <3> QED BY <3>2, <3>4, <3>5
  <2> HIDE DEF u, n
  <2>2. /\ exchange' \in [bar : Bars, ending : BOOLEAN, u : Nat, n : 1 .. MaxUpdates]
        /\ exchange'.bar = exchange.bar /\ exchange'.ending = exchange.ending
    BY <1>0, <2>1 DEF TypeOK
  <2>3. f \in Frame /\ f.kind = "delta"
    <3>1. exchange'.u \in Nat /\ exchange'.n \in 0 .. MaxUpdates
      BY <2>2
    <3> QED BY <3>1, BookFrameType
  <2>4. Sends(<<f>>)
    BY <1>3 DEF BookMoves
  <2> HIDE DEF f
  <2>5. <<f>> \in Seq(Frame) /\ Sent(<<f>>) = {f}
    BY <2>3, ShortSeqs
  <2>6. \A x \in Sent(<<f>>) : x.kind = "kline" /\ x.confirm => x.bar < exchange'.bar
    BY <2>3, <2>5
  <2>7. Ahead
    BY <1>0, <2>2 DEF Ahead
  <2> QED BY <1>1, <1>3, <2>2, <2>4, <2>5, <2>6, <2>7 DEF BookMoves, TypeOK, market
<1>4. CASE BookRestarts
  <2> DEFINE f == Snapshot(exchange')
  <2>1. exchange' = [exchange EXCEPT !.u = 1]
    BY <1>4 DEF BookRestarts
  <2>2. /\ exchange' \in [bar : Bars, ending : BOOLEAN, u : Nat, n : 1 .. MaxUpdates]
        /\ exchange'.bar = exchange.bar /\ exchange'.ending = exchange.ending
    BY <1>0, <2>1 DEF TypeOK
  <2>3. f \in Frame /\ f.kind = "snapshot"
    <3>1. exchange'.u \in Nat /\ exchange'.n \in 0 .. MaxUpdates
      BY <2>2
    <3> QED BY <3>1, BookFrameType
  <2>4. Sends(<<f>>)
    BY <1>4 DEF BookRestarts
  <2> HIDE DEF f
  <2>5. <<f>> \in Seq(Frame) /\ Sent(<<f>>) = {f}
    BY <2>3, ShortSeqs
  <2>6. \A x \in Sent(<<f>>) : x.kind = "kline" /\ x.confirm => x.bar < exchange'.bar
    BY <2>3, <2>5
  <2>7. Ahead
    BY <1>0, <2>2 DEF Ahead
  <2> QED BY <1>1, <1>4, <2>2, <2>4, <2>5, <2>6, <2>7 DEF BookRestarts, TypeOK, market
<1>5. ASSUME NEW g \in Starts, OldDelta(g)
      PROVE  /\ TypeOK'
             /\ \A q \in Starts : \A f \in Sent(wire'[q]) :
                  f \in Sent(wire[q]) \/ (f.kind = "kline" /\ f.confirm => f.bar < exchange'.bar)
             /\ Ahead
  <2> DEFINE f == Delta(book)
             w == <<f>> \o wire[g]
  <2>1. f \in Frame /\ f.kind = "delta"
    BY <1>0, BookFrameType
  <2>2. wire' = [wire EXCEPT ![g] = w] /\ Len(wire[g]) < MaxWire /\ exchange' = exchange
    BY <1>5 DEF OldDelta
  <2> HIDE DEF f
  <2>3. /\ <<f>> \in Seq(Frame) /\ Len(<<f>>) = 1 /\ Sent(<<f>>) = {f}
        /\ wire[g] \in Seq(Frame)
    BY <2>1, ShortSeqs DEF TypeOK
  <2>4. /\ w \in Seq(Frame) /\ Len(w) = 1 + Len(wire[g]) /\ Len(wire[g]) \in Nat
        /\ Sent(w) \subseteq {f} \cup Sent(wire[g])
    BY <2>3, ConcatSent
  <2> HIDE DEF w
  <2>5. wire' \in [Starts -> Seq(Frame)] /\ \A q \in Starts : Len(wire'[q]) <= MaxWire
    <3>1. Len(w) <= MaxWire
      BY <2>2, <2>4
    <3> QED BY <2>2, <2>4, <3>1 DEF TypeOK
  <2>6. ASSUME NEW q \in Starts, NEW x \in Sent(wire'[q])
        PROVE  x \in Sent(wire[q]) \/ (x.kind = "kline" /\ x.confirm => x.bar < exchange'.bar)
    <3>1. DOMAIN wire = Starts
      BY DEF TypeOK
    <3>2. CASE q = g
      <4>1. wire'[q] = w
        BY <2>2, <3>1, <3>2
      <4> QED BY <2>1, <2>4, <2>6, <3>2, <4>1
    <3>3. CASE q # g
      <4>1. wire'[q] = wire[q]
        BY <2>2, <3>1, <3>3
      <4> QED BY <2>6, <4>1
    <3> QED BY <3>2, <3>3
  <2>7. Ahead
    BY <1>0, <2>2 DEF Ahead
  <2> QED BY <1>5, <2>5, <2>6, <2>7, ZenonT(60) DEF OldDelta, TypeOK, market
<1> QED BY <1>2, <1>3, <1>4, <1>5, <1>6

\* The Start under way, and the one that runs, have been called.
Called ==
  /\ caller.at = "starting" => caller.starts \in Starts
  /\ service.running => service.current \in Starts

LEMMA StartNumber ==
  ASSUME TypeOK, BeginStart
  PROVE  caller.starts + 1 \in Starts /\ caller.starts + 1 \in 0 .. MaxStarts
<1>1. caller.starts < MaxStarts
  BY DEF BeginStart
<1>2. caller.starts \in 0 .. MaxStarts
  BY Shape
<1> QED BY <1>1, <1>2, MarketDataAssumption DEF Starts

LEMMA CallType ==
  ASSUME TypeOK, Called, \/ BeginStart \/ StartReturns \/ StartTimesOut
                         \/ StopAtOnce \/ BeginStop \/ StopReturns
  PROVE  TypeOK' /\ Called'
<1> USE MarketDataAssumption
<1> DEFINE ServiceState == [running : BOOLEAN, failed : BOOLEAN, current : 0 .. MaxStarts,
                            ready : 0 .. MaxStarts]
           CallerState == [at : {"idle", "starting", "stopping"}, starts : 0 .. MaxStarts,
                           up : BOOLEAN, stopped : {"no", "at once", "waited"}, gaveUp : BOOLEAN]
<1>0. service \in ServiceState /\ caller \in CallerState /\ Starts = 1 .. MaxStarts
  BY DEF TypeOK, Starts
<1>1. CASE BeginStart
  <2> DEFINE g == caller.starts + 1
             r == [runner[g] EXCEPT !.at = "backfill"]
  <2>1. g \in Starts /\ g \in 0 .. MaxStarts
    BY <1>1, StartNumber
  <2>2. /\ service' = [running |-> TRUE, failed |-> FALSE, current |-> g, ready |-> g]
        /\ runner' = [runner EXCEPT ![g] = r]
        /\ caller' = [caller EXCEPT !.at = "starting", !.starts = g, !.up = FALSE,
                                    !.stopped = "no"]
    BY <1>1 DEF BeginStart
  <2> HIDE DEF g
  <2>3. service' \in ServiceState /\ caller' \in CallerState
    BY <1>0, <2>1, <2>2
  <2>4. runner' \in [Starts -> RunnerState]
    <3>1. runner[g] \in RunnerState /\ "backfill" \in RunnerSteps
      BY <2>1 DEF TypeOK, RunnerState, RunnerSteps
    <3>2. r \in RunnerState
      BY <3>1 DEF RunnerState
    <3> HIDE DEF r
    <3> QED BY <2>1, <2>2, <3>2, RunnerType
  <2>5. Called'
    BY <2>1, <2>2 DEF Called, TypeOK
  <2> QED BY <1>1, <2>3, <2>4, <2>5 DEF BeginStart, TypeOK, RunnerState, RunnerSteps, market
<1>2. CASE StartReturns
  <2>1. PICK up \in BOOLEAN : caller' = [caller EXCEPT !.at = "idle", !.up = up]
    BY <1>2, Zenon DEF StartReturns
  <2>2. caller' \in CallerState /\ caller'.at = "idle"
    BY <1>0, <2>1
  <2> QED BY <1>2, <2>2 DEF StartReturns, TypeOK, market, Called
<1>3. CASE StartTimesOut
  <2>1. cancelled' \subseteq Starts
    BY <1>3 DEF StartTimesOut, FailStartIfCurrent, TypeOK, Called
  <2>2. service' \in ServiceState
    BY <1>0, <1>3 DEF StartTimesOut, FailStartIfCurrent
  <2>3. caller' \in CallerState
    BY <1>0, <1>3 DEF StartTimesOut
  <2>4. drops' \in 0 .. MaxDrops
    <3>1. drops < MaxDrops /\ drops' = drops + 1
      BY <1>3 DEF StartTimesOut
    <3>2. drops \in 0 .. MaxDrops /\ MaxDrops \in Nat
      BY MarketDataAssumption DEF TypeOK
    <3> QED BY <3>1, <3>2
  <2>5. Called'
    <3>1. caller'.at = "idle"
      BY <1>0, <1>3 DEF StartTimesOut
    <3>2. service'.running => service.running /\ service'.current = service.current
      BY <1>0, <1>3 DEF StartTimesOut, FailStartIfCurrent
    <3> QED BY <3>1, <3>2 DEF Called
  <2> QED BY <1>3, <2>1, <2>2, <2>3, <2>4, <2>5 DEF StartTimesOut, TypeOK, market
<1>4. CASE BeginStop
  <2>1. /\ service' = [service EXCEPT !.running = FALSE, !.failed = FALSE, !.ready = 0]
        /\ caller' = [caller EXCEPT !.at = "stopping", !.up = FALSE]
        /\ cancelled' = cancelled \cup {service.current} /\ service.running
    BY <1>4 DEF BeginStop
  <2>2. service' \in ServiceState /\ service'.running = FALSE
    <3>1. service' = [running |-> FALSE, failed |-> FALSE, current |-> service.current,
                      ready |-> 0]
      BY <1>0, <2>1
    <3>2. service.current \in 0 .. MaxStarts /\ 0 \in 0 .. MaxStarts
      <4>1. service.current \in 0 .. MaxStarts
        BY Shape
      <4>2. 0 \in 0 .. MaxStarts
        BY MarketDataAssumption
      <4> QED BY <4>1, <4>2
    <3> QED BY <3>1, <3>2
  <2>3. caller' \in CallerState /\ caller'.at = "stopping"
    BY <1>0, <2>1
  <2>4. cancelled' \subseteq Starts
    BY <2>1 DEF TypeOK, Called
  <2>5. Called'
    BY <2>2, <2>3 DEF Called
  <2> QED BY <1>4, <2>2, <2>3, <2>4, <2>5 DEF BeginStop, TypeOK, market
<1>5. CASE StopReturns
  <2>1. caller' \in CallerState /\ caller'.at = "idle"
    BY <1>0, <1>5 DEF StopReturns
  <2> QED BY <1>5, <2>1 DEF StopReturns, TypeOK, market, Called
<1>6. CASE StopAtOnce
  <2>1. caller' \in CallerState /\ caller'.at = "idle"
    BY <1>0, <1>6 DEF StopAtOnce
  <2> QED BY <1>6, <2>1 DEF StopAtOnce, TypeOK, market, Called
<1> QED BY <1>1, <1>2, <1>3, <1>4, <1>5, <1>6

LEMMA RunnerWith ==
  ASSUME NEW r \in RunnerState, NEW step \in RunnerSteps, NEW seen \in 0 .. MaxBars,
         NEW tries \in 0 .. MaxRetries, NEW ok \in BOOLEAN
  PROVE  /\ [r EXCEPT !.at = step, !.seen = seen] \in RunnerState
         /\ [r EXCEPT !.at = step, !.tries = tries] \in RunnerState
         /\ \A rows \in [Bars -> Candle] : [r EXCEPT !.at = step, !.rows = rows] \in RunnerState
  BY DEF RunnerState

\* A runner's own step, and what it may do to the calls.
LEMMA RunType ==
  ASSUME TypeOK, Called, NEW g \in Starts, Run(g)
  PROVE  TypeOK' /\ Called'
<1> USE MarketDataAssumption
<1> DEFINE ServiceState == [running : BOOLEAN, failed : BOOLEAN, current : 0 .. MaxStarts,
                            ready : 0 .. MaxStarts]
<1>0. /\ runner[g] \in RunnerState /\ service \in ServiceState
      /\ wire[g] \in Seq(Frame) /\ Len(wire[g]) <= MaxWire
      /\ candles \in [Bars -> Candle] /\ stored \in [Bars -> Candle]
  BY DEF TypeOK, RunnerState, RunnerSteps
<1>1. CASE Ask(g)
  <2> DEFINE r == [runner[g] EXCEPT !.at = "reply", !.seen = exchange.bar]
  <2>1. exchange.bar \in 0 .. MaxBars /\ "reply" \in RunnerSteps
    <3>1. exchange.bar \in 1 .. MaxBars
      BY DEF TypeOK, Bars
    <3> QED BY <3>1 DEF RunnerSteps
  <2>2. r \in RunnerState
    BY <1>0, <2>1, RunnerWith DEF RunnerState
  <2>3. runner' = [runner EXCEPT ![g] = r]
    BY <1>1 DEF Ask
  <2> HIDE DEF r
  <2>4. runner' \in [Starts -> RunnerState]
    BY <2>2, <2>3, RunnerType
  <2>u. UNCHANGED <<exchange, service, cancelled, wire, caller, market, cycle, drops>>
    BY <1>1 DEF Ask
  <2>c. Called'
    BY <2>u DEF Called
  <2>t. TypeOK'
    BY <2>4, <2>u, ZenonT(60) DEF TypeOK, RunnerState, RunnerSteps, market
  <2> QED BY <2>c, <2>t
<1>2. CASE Reply(g)
  <2> DEFINE rows == Backfilled(runner[g].seen)
             r == [runner[g] EXCEPT !.at = "warm", !.rows = rows]
  <2>1. "warm" \in RunnerSteps /\ rows \in [Bars -> Candle]
    BY <1>0, WarmType DEF RunnerSteps
  <2>2. r \in RunnerState
    BY <1>0, <2>1, RunnerWith DEF RunnerState
  <2>3. runner' = [runner EXCEPT ![g] = r]
    BY <1>2 DEF Reply
  <2> HIDE DEF r, rows
  <2>4. runner' \in [Starts -> RunnerState]
    BY <2>2, <2>3, RunnerType
  <2>5. stored' \in [Bars -> Candle]
    BY <1>0, <1>2, WarmType DEF Reply
  <2>u. UNCHANGED <<exchange, service, cancelled, wire, caller, candles, book, cycle, drops>>
    BY <1>2 DEF Reply
  <2>c. Called'
    BY <2>u DEF Called
  <2>t. TypeOK'
    BY <2>4, <2>5, <2>u, ZenonT(60) DEF TypeOK, RunnerState, RunnerSteps
  <2> QED BY <2>c, <2>t
<1>11. CASE WarmCache(g)
  <2>1. runner' \in [Starts -> RunnerState]
    BY <1>11, ComesType DEF WarmCache, RunnerSteps
  <2>2. candles' \in [Bars -> Candle]
    <3>1. runner[g].rows \in [Bars -> Candle] /\ candles' = Warm(candles, runner[g].rows)
      BY <1>0, <1>11 DEF WarmCache, RunnerState
    <3> QED BY <1>0, <3>1 DEF Warm
  <2>u. UNCHANGED <<exchange, service, cancelled, wire, caller, stored, book, cycle, drops>>
    BY <1>11 DEF WarmCache
  <2>c. Called'
    BY <2>u DEF Called
  <2>t. TypeOK'
    BY <2>1, <2>2, <2>u, ZenonT(60) DEF TypeOK, RunnerState, RunnerSteps
  <2> QED BY <2>c, <2>t
<1>3. CASE AskAgain(g)
  <2> DEFINE t == runner[g].tries + 1
             r == [runner[g] EXCEPT !.at = "backfill", !.tries = t]
  <2>1. t \in 0 .. MaxRetries /\ "backfill" \in RunnerSteps
    <3>1. runner[g].tries \in 0 .. MaxRetries
      BY <1>0 DEF RunnerState
    <3>2. runner[g].tries < MaxRetries
      BY <1>3 DEF AskAgain, TriesLeft
    <3>3. MaxRetries \in Nat
      BY MarketDataAssumption
    <3>4. t \in 0 .. MaxRetries
      BY <3>1, <3>2, <3>3
    <3> QED BY <3>4 DEF RunnerSteps
  <2>2. runner' = [runner EXCEPT ![g] = r]
    BY <1>3 DEF AskAgain
  <2> HIDE DEF t
  <2>3. r \in RunnerState
    BY <1>0, <2>1, RunnerWith DEF RunnerState
  <2> HIDE DEF r
  <2>4. runner' \in [Starts -> RunnerState]
    BY <2>2, <2>3, RunnerType
  <2>u. UNCHANGED <<exchange, service, cancelled, wire, caller, market, cycle, drops>>
    BY <1>3 DEF AskAgain
  <2>c. Called'
    BY <2>u DEF Called
  <2>t. TypeOK'
    BY <2>4, <2>u, ZenonT(60) DEF TypeOK, RunnerState, RunnerSteps, market
  <2> QED BY <2>c, <2>t
<1>4. CASE BackfillFails(g)
  <2>1. runner' \in [Starts -> RunnerState]
    BY <1>4, ComesType DEF BackfillFails, RunnerSteps
  <2>u. UNCHANGED <<exchange, service, cancelled, wire, caller, market, cycle, drops>>
    BY <1>4 DEF BackfillFails
  <2>c. Called'
    BY <2>u DEF Called
  <2>t. TypeOK'
    BY <2>1, <2>u, ZenonT(60) DEF TypeOK, RunnerState, RunnerSteps, market
  <2> QED BY <2>c, <2>t
<1>5. CASE InsertFails(g)
  <2>1. runner' \in [Starts -> RunnerState]
    BY <1>5, ComesType DEF InsertFails, RunnerSteps
  <2>2. stored' \in [Bars -> Candle]
    <3> DEFINE w == Warm(stored, Backfilled(runner[g].seen))
    <3>1. w \in [Bars -> Candle]
      BY <1>0, WarmType
    <3>2. \E last \in Bars : stored' = [b \in Bars |-> IF b < last THEN w[b] ELSE stored[b]]
      BY <1>5 DEF InsertFails
    <3> HIDE DEF w
    <3> QED BY <1>0, <3>1, <3>2
  <2>u. UNCHANGED <<exchange, service, cancelled, wire, caller, candles, book, cycle, drops>>
    BY <1>5 DEF InsertFails
  <2>c. Called'
    BY <2>u DEF Called
  <2>t. TypeOK'
    BY <2>1, <2>2, <2>u, ZenonT(60) DEF TypeOK, RunnerState, RunnerSteps
  <2> QED BY <2>c, <2>t
<1>6. CASE Report(g)
  <2>1. runner' \in [Starts -> RunnerState]
    <3>1. Comes(g, "ready", FALSE) \/ Goes(g, "done")
      BY <1>6 DEF Report
    <3> QED BY <3>1, GoesType, ComesType DEF RunnerSteps
  <2>2. drops' \in 0 .. MaxDrops
    <3>1. drops' = drops \/ (drops < MaxDrops /\ drops' = drops + 1)
      BY <1>6 DEF Report
    <3>2. drops \in 0 .. MaxDrops /\ MaxDrops \in Nat
      BY MarketDataAssumption DEF TypeOK
    <3> QED BY <3>1, <3>2
  <2>3. /\ service' \in ServiceState /\ cancelled' \subseteq Starts
        /\ service'.running => service.running /\ service'.current = service.current
    <3>1. \/ UNCHANGED <<service, cancelled>>
          \/ service' = service /\ cancelled' = cancelled \cup {g}
          \/ /\ service' = [service EXCEPT !.failed = TRUE, !.running = FALSE]
             /\ cancelled' = cancelled \cup {g}
      BY <1>6 DEF Report, FailStartIfCurrent
    <3>2. cancelled' \subseteq Starts
      <4>1. cancelled \subseteq Starts
        BY DEF TypeOK
      <4> QED BY <3>1, <4>1
    <3>3. CASE service' = service
      BY <1>0, <3>2, <3>3
    <3>4. CASE service' = [service EXCEPT !.failed = TRUE, !.running = FALSE]
      BY <1>0, <3>2, <3>4
    <3> QED BY <3>1, <3>3, <3>4
  <2>4. Called'
    BY <1>6, <2>3 DEF Report, Called
  <2> QED BY <1>6, <2>1, <2>2, <2>3, <2>4
      DEF Report, TypeOK, RunnerState, RunnerSteps, market
<1>7. CASE EnterLoop(g) \/ Dial(g)
  <2>1. \E step \in RunnerSteps : Goes(g, step)
    BY <1>7 DEF EnterLoop, Entering, Dial, RunnerSteps
  <2>2. runner' \in [Starts -> RunnerState]
    BY <2>1, GoesType
  <2>3. UNCHANGED <<exchange, service, cancelled, wire, caller, market, cycle, drops>>
    BY <1>7 DEF EnterLoop, Dial
  <2>4. Called'
    BY <2>3 DEF Called
  <2>5. TypeOK'
    BY <2>2, <2>3, ZenonT(60) DEF TypeOK, RunnerState, RunnerSteps, market
  <2> QED BY <2>4, <2>5
<1>8. CASE Subscribe(g)
  <2> DEFINE f == Snapshot(exchange)
             h == Kline(exchange.bar, FALSE)
             w == <<f, h>>
  <2>1. runner' \in [Starts -> RunnerState]
    BY <1>8, GoesType DEF Subscribe, RunnerSteps
  <2>2. f \in Frame /\ h \in Frame
    <3>1. exchange.bar \in Bars /\ exchange.u \in Nat /\ exchange.n \in 0 .. MaxUpdates
      BY Shape
    <3> QED BY <3>1, KlineType, BookFrameType
  <2>3. wire' = [wire EXCEPT ![g] = w]
    BY <1>8 DEF Subscribe
  <2> HIDE DEF f, h
  <2>4. w \in Seq(Frame) /\ Len(w) <= MaxWire
    BY <2>2, ShortSeqs
  <2> HIDE DEF w
  <2>5. wire' \in [Starts -> Seq(Frame)] /\ \A q \in Starts : Len(wire'[q]) <= MaxWire
    BY <2>3, <2>4 DEF TypeOK
  <2>u. UNCHANGED <<exchange, service, cancelled, caller, market, cycle, drops>>
    BY <1>8 DEF Subscribe
  <2>c. Called'
    BY <2>u DEF Called
  <2>t. TypeOK'
    BY <2>1, <2>5, <2>u DEF TypeOK, RunnerState, RunnerSteps, market
  <2> QED BY <2>c, <2>t
<1>9. CASE Disconnect(g)
  <2>1. runner' \in [Starts -> RunnerState]
    BY <1>9, GoesType DEF Disconnect, RunnerSteps
  <2>2. wire' \in [Starts -> Seq(Frame)] /\ \A q \in Starts : Len(wire'[q]) <= MaxWire
    <3>1. <<>> \in Seq(Frame) /\ Len(<<>>) <= MaxWire
      OBVIOUS
    <3> QED BY <1>9, <3>1 DEF Disconnect, TypeOK
  <2>3. drops' \in 0 .. MaxDrops
    <3>1. drops' = drops \/ (drops < MaxDrops /\ drops' = drops + 1)
      BY <1>9 DEF Disconnect
    <3>2. drops \in 0 .. MaxDrops /\ MaxDrops \in Nat
      BY MarketDataAssumption DEF TypeOK
    <3> QED BY <3>1, <3>2
  <2>4. UNCHANGED <<exchange, service, cancelled, caller, market, cycle>>
    BY <1>9 DEF Disconnect
  <2>5. Called'
    BY <2>4 DEF Called
  <2>6. TypeOK'
    BY <2>1, <2>2, <2>3, <2>4 DEF TypeOK, RunnerState, RunnerSteps, market
  <2> QED BY <2>5, <2>6
<1>10. CASE Dispatch(g)
  <2> DEFINE f == Head(wire[g])
             w == Tail(wire[g])
  <2>1. wire[g] # <<>> /\ wire' = [wire EXCEPT ![g] = w]
    BY <1>10 DEF Dispatch
  <2>2. w \in Seq(Frame) /\ Len(w) <= MaxWire /\ f \in Frame
    BY <1>0, <2>1, TailSent, SentType
  <2>3. \/ UNCHANGED market
        \/ f.kind = "kline" /\ OnKline(f)
        \/ f.kind # "kline" /\ OnOrderBook(f)
    BY <1>10 DEF Dispatch
  <2> HIDE DEF f, w
  <2>4. wire' \in [Starts -> Seq(Frame)] /\ \A q \in Starts : Len(wire'[q]) <= MaxWire
    BY <2>1, <2>2 DEF TypeOK
  <2>5. /\ candles' \in [Bars -> Candle] /\ stored' \in [Bars -> Candle]
        /\ book' \in [u : Nat, n : 0 .. MaxUpdates]
    <3>1. CASE UNCHANGED market
      BY <3>1 DEF market, TypeOK
    <3>2. CASE f.kind = "kline" /\ OnKline(f)
      <4>1. candles \in [Bars -> Candle] /\ stored \in [Bars -> Candle]
            /\ book \in [u : Nat, n : 0 .. MaxUpdates]
        BY DEF TypeOK
      <4>2. /\ candles' = [candles EXCEPT ![f.bar] = IF f.confirm THEN "final" ELSE "open"]
            /\ \/ stored' = [stored EXCEPT ![f.bar] = "final"]
               \/ stored' = stored
            /\ book' = book
        BY <3>2 DEF OnKline
      <4>3. candles' \in [Bars -> Candle]
        BY <4>1, <4>2 DEF Candle
      <4>4. stored' \in [Bars -> Candle]
        BY <4>1, <4>2 DEF Candle
      <4> QED BY <4>1, <4>2, <4>3, <4>4
    <3>3. CASE f.kind # "kline" /\ OnOrderBook(f)
      <4>1. f.u \in Nat /\ f.n \in 0 .. MaxUpdates /\ 0 \in 0 .. MaxUpdates
        BY <2>2, <3>3, FrameFields
      <4>2. Reset(f) \in [u : Nat, n : 0 .. MaxUpdates]
        BY <4>1 DEF Reset
      <4>3. ApplyDelta(f) \in [u : Nat, n : 0 .. MaxUpdates]
        BY <4>1 DEF ApplyDelta, Mixture, TypeOK
      <4> QED BY <3>3, <4>2, <4>3 DEF OnOrderBook, TypeOK
    <3> QED BY <2>3, <3>1, <3>2, <3>3
  <2>u. UNCHANGED <<exchange, service, cancelled, runner, caller, cycle, drops>>
    BY <1>10 DEF Dispatch
  <2>c. Called'
    BY <2>u DEF Called
  <2>t. TypeOK'
    BY <2>4, <2>5, <2>u DEF TypeOK
  <2> QED BY <2>c, <2>t
<1> QED BY <1>1, <1>2, <1>3, <1>4, <1>5, <1>6, <1>7, <1>8, <1>9, <1>10, <1>11 DEF Run

LEMMA CycleType ==
  ASSUME TypeOK, Called, GetCandles \/ GetCandlesReply
  PROVE  TypeOK' /\ Called'
<1>1. CASE GetCandles
  <2>1. CASE UNCHANGED candles /\ cycle' = [at |-> "reply", seen |-> exchange.bar]
    <3>1. exchange.bar \in 0 .. MaxBars
      BY Shape
    <3> QED BY <1>1, <2>1, <3>1 DEF GetCandles, TypeOK, Called
  <2>2. CASE candles' = Warm(candles, stored) /\ UNCHANGED cycle
    <3>1. candles' \in [Bars -> Candle]
      BY <2>2 DEF Warm, TypeOK
    <3> QED BY <1>1, <2>2, <3>1 DEF GetCandles, TypeOK, Called
  <2> QED BY <1>1, <2>1, <2>2 DEF GetCandles
<1>2. CASE GetCandlesReply
  <2>1. candles' \in [Bars -> Candle] /\ stored' \in [Bars -> Candle]
    <3>1. /\ candles' \in {candles, Warm(candles, Backfilled(cycle.seen))}
          /\ stored' \in {stored, Warm(stored, Backfilled(cycle.seen))}
      BY <1>2 DEF GetCandlesReply
    <3>2. candles \in [Bars -> Candle] /\ stored \in [Bars -> Candle]
      BY Shape
    <3>3. Warm(candles, Backfilled(cycle.seen)) \in [Bars -> Candle]
      BY <3>2, WarmType
    <3>4. Warm(stored, Backfilled(cycle.seen)) \in [Bars -> Candle]
      BY <3>2, WarmType
    <3> QED BY <3>1, <3>2, <3>3, <3>4
  <2>2. cycle' \in [at : {"idle", "reply"}, seen : 0 .. MaxBars]
    BY <1>2 DEF GetCandlesReply, TypeOK
  <2> QED BY <1>2, <2>1, <2>2, ZenonT(60) DEF GetCandlesReply, TypeOK, Called
<1> QED BY <1>1, <1>2

LEMMA NextType ==
  ASSUME TypeOK, Called, [Next]_vars
  PROVE  TypeOK' /\ Called'
<1>1. CASE UNCHANGED vars
  BY <1>1, ZenonT(60) DEF vars, market, TypeOK, Called
<1>2. CASE BarEnds \/ BarCloses \/ BookMoves \/ BookRestarts \/ \E g \in Starts : OldDelta(g)
  <2>1. UNCHANGED <<caller, service>>
    BY <1>2 DEF BarEnds, BarCloses, BookMoves, BookRestarts, OldDelta
  <2> QED BY <1>2, <2>1, ExchangeType DEF Called
<1> QED BY <1>1, <1>2, CallType, RunType, CycleType DEF Next

LEMMA InitCalled == Init => Called
  BY DEF Init, Called

\* The market data's state stays well typed, whatever goes wrong.
THEOREM TypeCorrect == Spec => []TypeOK
<1> QED BY InitType, InitCalled, NextType, PTL DEF Spec
-----------------------------------------------------------------------------
(* Stop *)

\* The goroutines at work are those of Starts that failed, and the one of the
\* service that runs; a Start that fails marks only its own service as stopped.
Failing ==
  /\ Alive \subseteq cancelled \cup {service.current}
  /\ ~service.running => Alive \subseteq cancelled
  /\ service.ready # 0 => service.ready = service.current

\* No step but a Start adds a goroutine, and no context is taken back.
LEMMA AliveShrinks ==
  ASSUME TypeOK, [Next]_vars, ~BeginStart
  PROVE  Alive' \subseteq Alive /\ cancelled \subseteq cancelled'
<1>1. ASSUME NEW g \in Starts, Run(g)
      PROVE  Alive' \subseteq Alive /\ cancelled \subseteq cancelled'
  <2>1. /\ runner[g].at \notin {"none", "done"}
        /\ \E r : runner' = [runner EXCEPT ![g] = r]
    <3>1. CASE Dispatch(g)
      <4>1. runner' = [runner EXCEPT ![g] = runner[g]] /\ runner[g].at = "read"
        BY <3>1 DEF Dispatch, TypeOK
      <4> QED BY <4>1
    <3>2. CASE Ask(g) \/ Reply(g) \/ AskAgain(g)
      BY <3>2 DEF Ask, Reply, AskAgain
    <3>3. CASE WarmCache(g) \/ BackfillFails(g) \/ InsertFails(g) \/ Report(g)
      BY <3>3 DEF WarmCache, BackfillFails, InsertFails, Report, Goes, Comes
    <3>4. CASE EnterLoop(g) \/ Dial(g) \/ Subscribe(g) \/ Disconnect(g)
      BY <3>4 DEF EnterLoop, Entering, Dial, Subscribe, Disconnect, Goes
    <3> QED BY <1>1, <3>1, <3>2, <3>3, <3>4 DEF Run
  <2>2. \A q \in Starts : q # g => runner'[q] = runner[q]
    BY <2>1 DEF TypeOK
  <2>3. cancelled \subseteq cancelled'
    BY <1>1 DEF Run, Ask, Reply, WarmCache, AskAgain, BackfillFails, InsertFails, Report,
                FailStartIfCurrent, EnterLoop, Dial, Subscribe, Disconnect, Dispatch
  <2> QED BY <2>1, <2>2, <2>3 DEF Alive
<1>2. CASE StartReturns \/ StartTimesOut \/ StopAtOnce \/ BeginStop \/ StopReturns
  <2>1. UNCHANGED runner /\ cancelled \subseteq cancelled'
    BY <1>2 DEF StartReturns, StartTimesOut, FailStartIfCurrent, StopAtOnce, BeginStop, StopReturns
  <2> QED BY <2>1 DEF Alive
<1>3. CASE \/ BarEnds \/ BarCloses \/ BookMoves \/ BookRestarts \/ UNCHANGED vars
           \/ (\E g \in Starts : OldDelta(g)) \/ GetCandles \/ GetCandlesReply
  <2>1. UNCHANGED <<cancelled, runner>>
    BY <1>3
    DEF BarEnds, BarCloses, BookMoves, BookRestarts, vars, OldDelta, GetCandles, GetCandlesReply
  <2> QED BY <2>1 DEF Alive
<1> QED BY <1>1, <1>2, <1>3 DEF Next

\* What a step does to the service, other than a Start.
LEMMA ServiceMoves ==
  ASSUME TypeOK, Called, [Next]_vars, ~BeginStart
  PROVE  \/ service' = service
         \/ /\ service'.current = service.current /\ service'.running = FALSE
            /\ service'.ready = 0 /\ service.current \in cancelled'
         \/ /\ service'.current = service.current /\ service'.running = FALSE
            /\ service'.ready = service.ready /\ service.ready \in cancelled' \cap Starts
<1>1. ASSUME NEW g \in Starts, FailStartIfCurrent(g)
      PROVE  \/ service' = service
             \/ /\ service'.current = service.current /\ service'.running = FALSE
                /\ service'.ready = service.ready /\ service.ready \in cancelled' \cap Starts
  <2>1. CASE service.ready = g
    <3>1. service' = [service EXCEPT !.failed = TRUE, !.running = FALSE] /\ g \in cancelled'
      BY <1>1, <2>1 DEF FailStartIfCurrent
    <3> QED BY <2>1, <3>1 DEF TypeOK
  <2> QED BY <1>1, <2>1 DEF FailStartIfCurrent
<1>2. ASSUME NEW g \in Starts, Run(g) PROVE service' = service \/ FailStartIfCurrent(g)
  BY <1>2 DEF Run, Ask, Reply, WarmCache, AskAgain, BackfillFails, InsertFails, Report,
              EnterLoop, Dial, Subscribe, Disconnect, Dispatch
<1>3. CASE StartTimesOut
  <2>1. FailStartIfCurrent(caller.starts)
    BY <1>3 DEF StartTimesOut
  <2>2. CASE caller.starts \in Starts
    BY <1>1, <2>1, <2>2
  <2>3. CASE caller.starts \notin Starts
    <3>1. caller.at = "starting"
      BY <1>3 DEF StartTimesOut
    <3> QED BY <2>3, <3>1 DEF Called
  <2> QED BY <2>2, <2>3
<1>4. CASE BeginStop
  BY <1>4 DEF BeginStop, TypeOK
<1>5. CASE StartReturns \/ StopAtOnce \/ StopReturns
  BY <1>5 DEF StartReturns, StopAtOnce, StopReturns
<1>6. CASE \/ BarEnds \/ BarCloses \/ BookMoves \/ BookRestarts \/ UNCHANGED vars
           \/ (\E g \in Starts : OldDelta(g)) \/ GetCandles \/ GetCandlesReply
  BY <1>6
  DEF BarEnds, BarCloses, BookMoves, BookRestarts, vars, OldDelta, GetCandles, GetCandlesReply
<1> QED BY <1>1, <1>2, <1>3, <1>4, <1>5, <1>6 DEF Next

LEMMA FailingKept ==
  ASSUME TypeOK, Called, Failing, [Next]_vars
  PROVE  Failing'
<1>1. CASE BeginStart
  <2> DEFINE h == caller.starts + 1
  <2>1. /\ service' = [running |-> TRUE, failed |-> FALSE, current |-> h, ready |-> h]
        /\ \E r : runner' = [runner EXCEPT ![h] = r]
        /\ UNCHANGED cancelled /\ ~service.running
    BY <1>1 DEF BeginStart
  <2> HIDE DEF h
  <2>2. \A q \in Starts : q # h => runner'[q] = runner[q]
    BY <2>1 DEF TypeOK
  <2>3. Alive' \subseteq Alive \cup {h}
    BY <2>2 DEF Alive
  <2> QED BY <2>1, <2>3 DEF Failing
<1>2. CASE ~BeginStart
  <2>1. Alive' \subseteq Alive /\ cancelled \subseteq cancelled'
    BY <1>2, AliveShrinks
  <2>2. CASE service' = service
    BY <2>1, <2>2 DEF Failing
  <2>3. CASE /\ service'.current = service.current /\ service'.running = FALSE
             /\ service'.ready = 0 /\ service.current \in cancelled'
    BY <2>1, <2>3 DEF Failing
  <2>4. CASE /\ service'.current = service.current /\ service'.running = FALSE
             /\ service'.ready = service.ready /\ service.ready \in cancelled' \cap Starts
    <3>1. service.ready # 0
      BY <2>4 DEF Starts
    <3>2. service.current \in cancelled'
      BY <2>4, <3>1 DEF Failing
    <3> QED BY <2>1, <2>4, <3>2 DEF Failing
  <2> QED BY <1>2, <2>2, <2>3, <2>4, ServiceMoves
<1> QED BY <1>1, <1>2

\* When Stop has waited, no goroutine of any Start is left; when it returned at
\* once, those left are of Starts that failed, with their contexts cancelled.
THEOREM StopIsFinal == Spec => []StopMeansStopped
<1> DEFINE Inv == TypeOK /\ Called /\ Failing /\ StopMeansStopped
<1>1. Init => Inv
  <2> SUFFICES ASSUME Init PROVE Failing /\ StopMeansStopped
    BY InitType, InitCalled
  <2>1. Alive = {}
    BY DEF Init, Alive, Asleep
  <2> QED BY <2>1 DEF Init, Failing, StopMeansStopped
<1>2. Inv /\ [Next]_vars => Inv'
  <2> SUFFICES ASSUME Inv, [Next]_vars PROVE StopMeansStopped'
    BY NextType, FailingKept
  <2>1. CASE BeginStart
    BY <2>1 DEF BeginStart, StopMeansStopped, TypeOK
  <2>2. CASE StopReturns
    <3>1. Alive = {}
      BY <2>2 DEF StopReturns, AllDone, Alive
    <3>2. Alive' = {} /\ caller'.stopped = "waited"
      BY <2>2, <3>1 DEF StopReturns, Alive, TypeOK
    <3> QED BY <3>2 DEF StopMeansStopped
  <2>3. CASE StopAtOnce
    <3>1. Alive \subseteq cancelled /\ UNCHANGED <<runner, cancelled>>
      BY <2>3 DEF StopAtOnce, Failing
    <3>2. caller'.stopped = "at once"
      BY <2>3 DEF StopAtOnce, TypeOK
    <3> QED BY <3>1, <3>2 DEF StopMeansStopped, Alive
  <2>4. CASE ~BeginStart /\ ~StopReturns /\ ~StopAtOnce
    <3>1. caller'.stopped = caller.stopped
      <4>1. CASE StartReturns \/ StartTimesOut \/ BeginStop
        BY <4>1 DEF StartReturns, StartTimesOut, BeginStop, TypeOK
      <4>2. ASSUME NEW g \in Starts, Run(g) PROVE UNCHANGED caller
        BY <4>2 DEF Run, Ask, Reply, WarmCache, AskAgain, BackfillFails, InsertFails, Report,
                    EnterLoop, Dial, Subscribe, Disconnect, Dispatch
      <4>3. CASE \/ BarEnds \/ BarCloses \/ BookMoves \/ BookRestarts \/ UNCHANGED vars
                 \/ (\E g \in Starts : OldDelta(g)) \/ GetCandles \/ GetCandlesReply
        BY <4>3
        DEF BarEnds, BarCloses, BookMoves, BookRestarts, vars, OldDelta, GetCandles, GetCandlesReply
      <4> QED BY <2>4, <4>1, <4>2, <4>3 DEF Next
    <3> QED BY <2>4, <3>1, AliveShrinks DEF StopMeansStopped
  <2> QED BY <2>1, <2>2, <2>3, <2>4
<1> QED BY <1>1, <1>2, PTL DEF Spec

\* Once Stop has returned, the service is down and the trading cycle is over.
Down ==
  /\ caller.at = "stopping" \/ caller.stopped # "no"
       => ~service.running /\ ~caller.up /\ cycle.at = "idle"
  /\ caller.at = "starting" => caller.stopped = "no"

LEMMA DownKept ==
  ASSUME TypeOK, Called, Down, [Next]_vars
  PROVE  Down'
<1>0. caller \in [at : {"idle", "starting", "stopping"}, starts : 0 .. MaxStarts,
                 up : BOOLEAN, stopped : {"no", "at once", "waited"}, gaveUp : BOOLEAN]
  BY DEF TypeOK
<1>s. ~BeginStart => (service'.running => service.running)
  BY ServiceMoves
<1>1. CASE BeginStart
  BY <1>0, <1>1 DEF BeginStart, Down
<1>2. CASE StartReturns
  BY <1>0, <1>2 DEF StartReturns, Down
<1>3. CASE StartTimesOut
  <2>1. ~BeginStart
    BY <1>3 DEF StartTimesOut, BeginStart
  <2> QED BY <1>0, <1>3, <1>s, <2>1 DEF StartTimesOut, Down
<1>4. CASE StopAtOnce
  BY <1>0, <1>4 DEF StopAtOnce, Down
<1>5. CASE BeginStop
  <2>1. ~service'.running
    BY <1>5 DEF BeginStop, TypeOK
  <2> QED BY <1>0, <1>5, <2>1 DEF BeginStop, Down
<1>6. CASE StopReturns
  BY <1>0, <1>6 DEF StopReturns, Down
<1>7. ASSUME NEW g \in Starts, Run(g) PROVE Down'
  <2>1. UNCHANGED <<caller, cycle>>
    BY <1>7 DEF Run, Ask, Reply, WarmCache, AskAgain, BackfillFails, InsertFails, Report,
                EnterLoop, Dial, Subscribe, Disconnect, Dispatch
  <2>2. BeginStart \/ (service'.running => service.running)
    BY <1>s
  <2> QED BY <1>1, <2>1, <2>2 DEF Down
<1>8. CASE \/ BarEnds \/ BarCloses \/ BookMoves \/ BookRestarts \/ UNCHANGED vars
           \/ \E g \in Starts : OldDelta(g)
  <2>1. UNCHANGED <<caller, service, cycle>>
    BY <1>8 DEF BarEnds, BarCloses, BookMoves, BookRestarts, vars, OldDelta
  <2> QED BY <2>1 DEF Down
<1>9. CASE GetCandles
  BY <1>9 DEF GetCandles, Down
<1>10. CASE GetCandlesReply
  BY <1>10 DEF GetCandlesReply, Down, TypeOK
<1> QED BY <1>1, <1>2, <1>3, <1>4, <1>5, <1>6, <1>7, <1>8, <1>9, <1>10 DEF Next

\* From the return of Stop, whether it waited or not, to the next Start, no
\* candle is written to the database that the caller closes.
THEOREM StoppedSavesNothing == Spec => NothingSavedAfterStop
<1> DEFINE Inv == TypeOK /\ Called /\ Failing /\ StopMeansStopped /\ Down
<1>1. Spec => [](TypeOK /\ Called /\ Failing)
  <2>1. Init => Failing
    <3> SUFFICES ASSUME Init PROVE Failing
      OBVIOUS
    <3>1. Alive = {}
      BY DEF Init, Alive, Asleep
    <3> QED BY <3>1 DEF Init, Failing
  <2> QED BY <2>1, InitType, InitCalled, NextType, FailingKept, PTL DEF Spec
<1>2. Spec => []Down
  <2>1. Init => Down
    BY DEF Init, Down
  <2> QED BY <1>1, <2>1, DownKept, PTL DEF Spec
<1>3. TypeOK /\ Down /\ StopMeansStopped /\ [Next]_vars
        => [caller.stopped # "no" /\ caller'.stopped # "no" => stored' = stored]_vars
  <2> SUFFICES ASSUME TypeOK, Down, StopMeansStopped, Next,
                      caller.stopped # "no", caller'.stopped # "no"
               PROVE  stored' = stored
    BY DEF vars
  <2>1. /\ ~service.running /\ ~caller.up /\ cycle.at = "idle"
        /\ Alive \subseteq cancelled
    BY DEF Down, StopMeansStopped, TypeOK
  <2>2. ASSUME NEW g \in Starts, Run(g) PROVE stored' = stored
    <3>1. CASE Reply(g) \/ InsertFails(g)
      <4>1. g \in Alive /\ g \notin cancelled
        BY <3>1 DEF Reply, InsertFails, Allows, Alive
      <4> QED BY <2>1, <4>1
    <3>2. CASE Dispatch(g)
      BY <2>1, <3>2 DEF Dispatch, market
    <3>3. CASE \/ Ask(g) \/ WarmCache(g) \/ AskAgain(g) \/ BackfillFails(g) \/ Report(g)
               \/ EnterLoop(g) \/ Dial(g) \/ Subscribe(g) \/ Disconnect(g)
      BY <3>3 DEF Ask, WarmCache, AskAgain, BackfillFails, Report, EnterLoop, Dial, Subscribe,
                  Disconnect, market
    <3> QED BY <2>2, <3>1, <3>2, <3>3 DEF Run
  <2>3. CASE GetCandles \/ GetCandlesReply
    BY <2>1, <2>3 DEF GetCandles, GetCandlesReply
  <2>4. CASE \/ BarEnds \/ BarCloses \/ BookMoves \/ BookRestarts
             \/ BeginStart \/ StartReturns \/ StartTimesOut
             \/ StopAtOnce \/ BeginStop \/ StopReturns \/ \E g \in Starts : OldDelta(g)
    BY <2>4 DEF BarEnds, BarCloses, BookMoves, BookRestarts, BeginStart, StartReturns,
                StartTimesOut, StopAtOnce, BeginStop, StopReturns, OldDelta, market
  <2> QED BY <2>2, <2>3, <2>4 DEF Next
<1> QED BY <1>1, <1>2, <1>3, StopIsFinal, PTL DEF Spec, NothingSavedAfterStop
-----------------------------------------------------------------------------
(* Confirmed candles *)

\* A frame that says its bar is confirmed was sent when that bar was over.
WireOver ==
  \A g \in Starts : \A f \in Sent(wire[g]) : f.kind = "kline" /\ f.confirm => f.bar < exchange.bar

\* The rows a backfill has in hand are of bars that are over, or nearly.
RowsOver ==
  \A g \in Starts : \A b \in Bars : runner[g].rows[b] \in Confirmed => Over(b)

LEMMA Ranges ==
  ASSUME TypeOK
  PROVE  /\ exchange.bar \in Bars /\ exchange.u \in Nat /\ exchange.n \in 0 .. MaxUpdates
         /\ exchange.bar \in Int /\ \A g \in Starts : wire[g] \in Seq(Frame)
         /\ candles \in [Bars -> Candle] /\ stored \in [Bars -> Candle]
<1>1. /\ exchange.bar \in Bars /\ exchange.u \in Nat /\ exchange.n \in 1 .. MaxUpdates
      /\ \A g \in Starts : wire[g] \in Seq(Frame)
      /\ candles \in [Bars -> Candle] /\ stored \in [Bars -> Candle]
  BY DEF TypeOK
<1> QED BY <1>1, MarketDataAssumption DEF Bars

\* A step that adds no bar that is not over.
LEMMA OverKept ==
  ASSUME TypeOK, TypeOK', ConfirmedIsOver, WireOver, Ahead,
         \A g \in Starts : \A f \in Sent(wire'[g]) :
           \/ \E q \in Starts : f \in Sent(wire[q])
           \/ (f.kind = "kline" /\ f.confirm => f.bar < exchange'.bar),
         \A b \in Bars : candles'[b] \in Confirmed =>
           candles[b] \in Confirmed \/ stored[b] \in Confirmed \/ Over(b),
         \A b \in Bars : stored'[b] \in Confirmed =>
           candles[b] \in Confirmed \/ stored[b] \in Confirmed \/ Over(b)
  PROVE  ConfirmedIsOver' /\ WireOver'
<1>0. exchange.bar \in Int /\ exchange'.bar \in Int /\ Bars \subseteq Int
  <2>1. exchange.bar \in Bars /\ exchange'.bar \in Bars
    BY DEF TypeOK
  <2> QED BY <2>1, MarketDataAssumption DEF Bars
<1>1. /\ \A x \in Int : x < exchange.bar => x < exchange'.bar
      /\ \A x \in Int : Over(x) => Over(x)'
  BY <1>0 DEF Ahead, Over
<1>2. ConfirmedIsOver'
  <2> SUFFICES ASSUME NEW b \in Bars, candles'[b] \in Confirmed \/ stored'[b] \in Confirmed
               PROVE  Over(b)'
    BY DEF ConfirmedIsOver, Over
  <2>1. Over(b)
    BY DEF ConfirmedIsOver, Over
  <2> QED BY <1>0, <1>1, <2>1
<1>3. WireOver'
  <2> SUFFICES ASSUME NEW g \in Starts, NEW f \in Sent(wire'[g]), f.kind = "kline", f.confirm
               PROVE  f.bar < exchange'.bar
    BY DEF WireOver
  <2>1. f.bar \in Int
    BY <1>0, SentType, FrameFields DEF TypeOK
  <2> QED BY <1>1, <2>1 DEF WireOver
<1> QED BY <1>2, <1>3

\* The rows in hand were kept by a reply, and are dropped with the call.
LEMMA RowsKept ==
  ASSUME TypeOK, TypeOK', RowsOver, [Next]_vars, Ahead
  PROVE  RowsOver'
<1>0. exchange.bar \in Int /\ exchange'.bar \in Int /\ Bars \subseteq Int
  <2>1. exchange.bar \in Bars /\ exchange'.bar \in Bars
    BY DEF TypeOK
  <2> QED BY <2>1, MarketDataAssumption DEF Bars
<1>1. \A x \in Bars : Over(x) => Over(x)'
  BY <1>0 DEF Ahead, Over
<1>2. ASSUME NEW g \in Starts, NEW r, runner' = [runner EXCEPT ![g] = r],
             r.rows = runner[g].rows \/ r.rows = NoRows
      PROVE  RowsOver'
  <2> SUFFICES ASSUME NEW q \in Starts, NEW b \in Bars, runner'[q].rows[b] \in Confirmed
               PROVE  Over(b)'
    BY DEF RowsOver
  <2>1. NoRows[b] \notin Confirmed
    BY DEF NoRows, Confirmed
  <2>2. runner'[q] = IF q = g THEN r ELSE runner[q]
    BY <1>2 DEF TypeOK
  <2>3. runner[q].rows[b] \in Confirmed
    BY <1>2, <2>1, <2>2
  <2> QED BY <1>1, <2>3 DEF RowsOver
<1>3. ASSUME NEW g \in Starts, Run(g) PROVE RowsOver'
  <2>1. CASE Reply(g)
    <3> DEFINE rows == Backfilled(runner[g].seen)
               r == [runner[g] EXCEPT !.at = "warm", !.rows = rows]
    <3>1. runner' = [runner EXCEPT ![g] = r] /\ UNCHANGED exchange
      BY <2>1 DEF Reply
    <3>2. \A b \in Bars : rows[b] \in Confirmed => Over(b)
      BY WarmType DEF TypeOK
    <3>3. r.rows = rows
      BY Shape DEF RunnerState
    <3> HIDE DEF rows, r
    <3>4. \A q \in Starts : runner'[q] = IF q = g THEN r ELSE runner[q]
      BY <3>1 DEF TypeOK
    <3> QED BY <1>1, <3>2, <3>3, <3>4 DEF RowsOver
  <2>2. CASE Ask(g) \/ AskAgain(g)
    <3>1. \/ runner' = [runner EXCEPT ![g] = [runner[g] EXCEPT !.at = "reply", !.seen = exchange.bar]]
          \/ runner' = [runner EXCEPT ![g] =
                          [runner[g] EXCEPT !.at = "backfill", !.tries = runner[g].tries + 1]]
      BY <2>2 DEF Ask, AskAgain
    <3>2. /\ [runner[g] EXCEPT !.at = "reply", !.seen = exchange.bar].rows = runner[g].rows
          /\ [runner[g] EXCEPT !.at = "backfill", !.tries = runner[g].tries + 1].rows = runner[g].rows
      BY Shape DEF RunnerState
    <3> QED BY <1>2, <3>1, <3>2
  <2>3. CASE \/ EnterLoop(g) \/ Dial(g) \/ Subscribe(g) \/ Disconnect(g)
             \/ (Report(g) /\ Goes(g, "done"))
    <3>1. PICK step : runner' = [runner EXCEPT ![g] = [runner[g] EXCEPT !.at = step]]
      BY <2>3 DEF EnterLoop, Entering, Dial, Subscribe, Disconnect, Goes
    <3>2. [runner[g] EXCEPT !.at = step].rows = runner[g].rows
      BY Shape DEF RunnerState
    <3> QED BY <1>2, <3>1, <3>2
  <2>4. CASE \/ WarmCache(g) \/ BackfillFails(g) \/ InsertFails(g)
             \/ (Report(g) /\ Comes(g, "ready", FALSE))
    <3>1. PICK step, ok : runner' = [runner EXCEPT ![g] = [Asleep EXCEPT !.at = step, !.ok = ok]]
      BY <2>4 DEF WarmCache, BackfillFails, InsertFails, Comes
    <3>2. [Asleep EXCEPT !.at = step, !.ok = ok].rows = NoRows
      BY DEF Asleep
    <3> QED BY <1>2, <3>1, <3>2
  <2>5. CASE Dispatch(g)
    <3>1. UNCHANGED <<runner, exchange>>
      BY <2>5 DEF Dispatch
    <3> QED BY <1>1, <3>1 DEF RowsOver
  <2>6. Report(g) => Goes(g, "done") \/ Comes(g, "ready", FALSE)
    BY DEF Report
  <2> QED BY <1>3, <2>1, <2>2, <2>3, <2>4, <2>5, <2>6 DEF Run
<1>4. CASE BeginStart
  <2> DEFINE g == caller.starts + 1
  <2>1. g \in Starts
    BY <1>4, StartNumber
  <2>2. runner' = [runner EXCEPT ![g] = [runner[g] EXCEPT !.at = "backfill"]]
    BY <1>4 DEF BeginStart
  <2> HIDE DEF g
  <2>3. [runner[g] EXCEPT !.at = "backfill"].rows = runner[g].rows
    BY <2>1, Shape DEF RunnerState
  <2> QED BY <1>2, <2>1, <2>2, <2>3
<1>5. CASE \/ BarEnds \/ BarCloses \/ BookMoves \/ BookRestarts \/ UNCHANGED vars
           \/ StartReturns \/ StartTimesOut \/ StopAtOnce \/ BeginStop \/ StopReturns
           \/ (\E g \in Starts : OldDelta(g)) \/ GetCandles \/ GetCandlesReply
  <2>1. UNCHANGED runner
    BY <1>5
    DEF BarEnds, BarCloses, BookMoves, BookRestarts, vars, StartReturns, StartTimesOut,
        StopAtOnce, BeginStop, StopReturns, OldDelta, GetCandles, GetCandlesReply
  <2> QED BY <1>1, <2>1 DEF RowsOver
<1> QED BY <1>3, <1>4, <1>5 DEF Next

LEMMA RunOver ==
  ASSUME TypeOK, TypeOK', ConfirmedIsOver, WireOver, RowsOver, NEW g \in Starts, Run(g)
  PROVE  ConfirmedIsOver' /\ WireOver' /\ UNCHANGED exchange
<1>0. /\ exchange.bar \in Bars /\ exchange.u \in Nat /\ exchange.n \in 0 .. MaxUpdates
      /\ exchange.bar \in Int /\ wire[g] \in Seq(Frame)
      /\ candles \in [Bars -> Candle] /\ stored \in [Bars -> Candle]
  BY Ranges
<1>a. UNCHANGED exchange
  BY DEF Run, Ask, Reply, WarmCache, AskAgain, BackfillFails, InsertFails, Report,
         EnterLoop, Dial, Subscribe, Disconnect, Dispatch
<1>b. Ahead
  BY <1>0, <1>a DEF Ahead
<1>1. CASE Ask(g) \/ AskAgain(g) \/ BackfillFails(g) \/ Report(g) \/ EnterLoop(g) \/ Dial(g)
  <2>1. UNCHANGED <<exchange, wire, candles, stored>>
    BY <1>1 DEF Ask, AskAgain, BackfillFails, Report, EnterLoop, Dial, market
  <2> QED BY <2>1 DEF ConfirmedIsOver, WireOver
<1>2. CASE Reply(g)
  <2>1. /\ stored' = Warm(stored, Backfilled(runner[g].seen))
        /\ UNCHANGED <<exchange, wire, candles>>
    BY <1>2 DEF Reply
  <2>2. \A b \in Bars : stored'[b] \in Confirmed => stored[b] \in Confirmed \/ Over(b)
    BY <1>0, <2>1, WarmType
  <2> QED BY <1>0, <2>1, <2>2, <1>b, OverKept
<1>7. CASE WarmCache(g)
  <2>1. /\ candles' = Warm(candles, runner[g].rows)
        /\ UNCHANGED <<exchange, wire, stored>>
    BY <1>7 DEF WarmCache
  <2>2. \A b \in Bars : candles'[b] \in Confirmed => candles[b] \in Confirmed \/ Over(b)
    BY <2>1 DEF Warm, RowsOver
  <2> QED BY <1>0, <2>1, <2>2, <1>b, OverKept
<1>3. CASE InsertFails(g)
  <2> DEFINE w == Warm(stored, Backfilled(runner[g].seen))
  <2>1. /\ \E last \in Bars : stored' = [b \in Bars |-> IF b < last THEN w[b] ELSE stored[b]]
        /\ UNCHANGED <<exchange, wire, candles>>
    BY <1>3 DEF InsertFails
  <2>2. \A b \in Bars : w[b] \in Confirmed => stored[b] \in Confirmed \/ Over(b)
    BY <1>0, WarmType
  <2> HIDE DEF w
  <2>3. \A b \in Bars : stored'[b] \in Confirmed => stored[b] \in Confirmed \/ Over(b)
    BY <2>1, <2>2
  <2> QED BY <1>0, <2>1, <2>3, <1>b, OverKept
<1>4. CASE Subscribe(g)
  <2> DEFINE f == Snapshot(exchange)
             h == Kline(exchange.bar, FALSE)
             w == <<f, h>>
  <2>1. f \in Frame /\ h \in Frame /\ f.kind = "snapshot" /\ h.confirm = FALSE
    BY <1>0, KlineType, BookFrameType
  <2>2. wire' = [wire EXCEPT ![g] = w] /\ UNCHANGED <<exchange, candles, stored>>
    BY <1>4 DEF Subscribe, market
  <2> HIDE DEF f, h
  <2>3. Sent(w) = {f, h}
    BY <2>1, ShortSeqs
  <2> HIDE DEF w
  <2>4. \A q \in Starts : \A x \in Sent(wire'[q]) :
          x \in Sent(wire[q]) \/ ~(x.kind = "kline" /\ x.confirm)
    <3>1. DOMAIN wire = Starts
      BY DEF TypeOK
    <3>2. \A q \in Starts : wire'[q] = IF q = g THEN w ELSE wire[q]
      BY <2>2, <3>1
    <3> QED BY <2>1, <2>3, <3>2
  <2> QED BY <1>0, <2>2, <2>4, <1>b, OverKept
<1>5. CASE Disconnect(g)
  <2>1. wire' = [wire EXCEPT ![g] = <<>>] /\ UNCHANGED <<exchange, candles, stored>>
    BY <1>5 DEF Disconnect, market
  <2>2. Sent(<<>>) = {}
    BY DEF Sent
  <2>3. \A q \in Starts : \A x \in Sent(wire'[q]) : x \in Sent(wire[q])
    BY <2>1, <2>2 DEF TypeOK
  <2> QED BY <1>0, <2>1, <2>3, <1>b, OverKept
<1>6. CASE Dispatch(g)
  <2> DEFINE f == Head(wire[g])
             w == Tail(wire[g])
  <2>1. wire[g] # <<>> /\ wire' = [wire EXCEPT ![g] = w] /\ exchange' = exchange
    BY <1>6 DEF Dispatch
  <2>2. f \in Sent(wire[g]) /\ f \in Frame /\ Sent(w) \subseteq Sent(wire[g])
    BY <1>0, <2>1, TailSent, SentType
  <2>3. \/ UNCHANGED <<candles, stored>>
        \/ f.kind = "kline" /\ OnKline(f)
    BY <1>6 DEF Dispatch, market, OnOrderBook
  <2> HIDE DEF f, w
  <2>4. \A q \in Starts : \A x \in Sent(wire'[q]) : x \in Sent(wire[q])
    BY <2>1, <2>2 DEF TypeOK
  <2>5. CASE UNCHANGED <<candles, stored>>
    BY <1>0, <2>1, <2>4, <2>5, <1>b, OverKept
  <2>6. CASE f.kind = "kline" /\ OnKline(f)
    <3>1. f.confirm => f.bar < exchange.bar
      BY <2>2, <2>6 DEF WireOver
    <3>2. \A b \in Bars : candles'[b] \in Confirmed => candles[b] \in Confirmed \/ Over(b)
      BY <1>0, <2>6, <3>1 DEF OnKline, Confirmed, Over
    <3>3. \A b \in Bars : stored'[b] \in Confirmed => stored[b] \in Confirmed \/ Over(b)
      BY <1>0, <2>6, <3>1 DEF OnKline, Confirmed, Over
    <3> QED BY <1>0, <2>1, <2>4, <3>2, <3>3, <1>b, OverKept
  <2> QED BY <2>3, <2>5, <2>6
<1> QED BY <1>1, <1>2, <1>3, <1>4, <1>5, <1>6, <1>7, <1>a DEF Run

\* A candle marked as confirmed, in the cache or in the table, is of a bar that
\* is over or in its last half second: a frame was sent when its bar closed, and
\* a backfill, however old its reply and however late its rows reach the cache,
\* keeps only bars that were so when it was read.
THEOREM ConfirmedIsFinal == Spec => []ConfirmedIsOver
<1> DEFINE Inv == TypeOK /\ Called /\ ConfirmedIsOver /\ WireOver /\ RowsOver
<1>1. Init => Inv
  <2> SUFFICES ASSUME Init PROVE ConfirmedIsOver /\ WireOver /\ RowsOver
    BY InitType, InitCalled
  <2>1. ConfirmedIsOver
    BY DEF Init, ConfirmedIsOver, Confirmed
  <2>2. WireOver
    <3>1. Sent(<<>>) = {}
      BY DEF Sent
    <3> QED BY <3>1 DEF Init, WireOver
  <2>3. RowsOver
    BY DEF Init, RowsOver, Asleep, NoRows, Confirmed
  <2> QED BY <2>1, <2>2, <2>3
<1>2. Inv /\ [Next]_vars => Inv'
  <2> SUFFICES ASSUME Inv, [Next]_vars PROVE ConfirmedIsOver' /\ WireOver' /\ Ahead
    BY NextType, RowsKept
  <2>0. /\ TypeOK' /\ exchange.bar \in Int
        /\ candles \in [Bars -> Candle] /\ stored \in [Bars -> Candle]
    BY NextType, Ranges
  <2>a. UNCHANGED exchange => Ahead
    BY <2>0 DEF Ahead
  <2>1. CASE BarEnds \/ BarCloses \/ BookMoves \/ BookRestarts \/ \E g \in Starts : OldDelta(g)
    <3>1. /\ \A g \in Starts : \A f \in Sent(wire'[g]) :
               f \in Sent(wire[g]) \/ (f.kind = "kline" /\ f.confirm => f.bar < exchange'.bar)
          /\ Ahead
      BY <2>1, ExchangeType
    <3>2. UNCHANGED <<candles, stored>>
      BY <2>1 DEF BarEnds, BarCloses, BookMoves, BookRestarts, OldDelta, market
    <3> QED BY <2>0, <3>1, <3>2, <2>a, OverKept
  <2>2. ASSUME NEW g \in Starts, Run(g) PROVE ConfirmedIsOver' /\ WireOver' /\ Ahead
    BY <2>0, <2>a, <2>2, RunOver
  <2>3. CASE \/ BeginStart \/ StartReturns \/ StartTimesOut
             \/ StopAtOnce \/ BeginStop \/ StopReturns \/ UNCHANGED vars
    <3>1. UNCHANGED <<exchange, wire, candles, stored>>
      BY <2>3 DEF BeginStart, StartReturns, StartTimesOut, StopAtOnce, BeginStop, StopReturns,
                  vars, market
    <3> QED BY <2>a, <3>1 DEF ConfirmedIsOver, WireOver
  <2>4. CASE GetCandles
    <3>1. UNCHANGED <<exchange, wire, stored>> /\ candles' \in {candles, Warm(candles, stored)}
      BY <2>4 DEF GetCandles
    <3>2. \A b \in Bars : candles'[b] \in Confirmed => candles[b] \in Confirmed \/ stored[b] \in Confirmed
      BY <3>1 DEF Warm
    <3> QED BY <2>0, <3>1, <3>2, <2>a, OverKept
  <2>5. CASE GetCandlesReply
    <3>1. /\ UNCHANGED <<exchange, wire>>
          /\ candles' \in {candles, Warm(candles, Backfilled(cycle.seen))}
          /\ stored' \in {stored, Warm(stored, Backfilled(cycle.seen))}
      BY <2>5 DEF GetCandlesReply
    <3>2. \A b \in Bars : candles'[b] \in Confirmed => candles[b] \in Confirmed \/ Over(b)
      BY <2>0, <3>1, WarmType
    <3>3. \A b \in Bars : stored'[b] \in Confirmed => stored[b] \in Confirmed \/ Over(b)
      BY <2>0, <3>1, WarmType
    <3> QED BY <2>0, <3>1, <3>2, <3>3, <2>a, OverKept
  <2> QED BY <2>1, <2>2, <2>3, <2>4, <2>5 DEF Next
<1> QED BY <1>1, <1>2, PTL DEF Spec
-----------------------------------------------------------------------------
(* The order book. A reader whose service runs will hold, frame by frame, a *)
(* book that the exchange has had, and in the end the one it has now.       *)

Book == [u : Nat, n : 0 .. MaxUpdates]

Present == [u |-> exchange.u, n |-> exchange.n]

\* The book after a frame, as OnOrderBook leaves it.
Read(x, f) ==
  IF f.kind = "kline" THEN x
  ELSE IF f.kind = "snapshot" THEN [u |-> f.u, n |-> f.n]
  ELSE IF x = NoBook \/ f.u <= x.u THEN x
  ELSE [u |-> f.u, n |-> IF x.n # Mixture /\ f.n = x.n + 1 THEN f.n ELSE Mixture]

Clean(x, n) == x = NoBook \/ (x.n # Mixture /\ x.n <= n)

\* S: from x, through the frames of w, to y, and clean at every step.
Through(S, w, x, y, n) ==
  /\ S \in [0 .. Len(w) -> Book] /\ S[0] = x /\ S[Len(w)] = y
  /\ \A i \in 1 .. Len(w) : S[i] = Read(S[i - 1], w[i])
  /\ \A i \in 0 .. Len(w) : Clean(S[i], n)

Leads(w, x, y, n) == \E S : Through(S, w, x, y, n)

\* What is sent follows what is under way.
LEMMA LeadsConcat ==
  ASSUME NEW w \in Seq(Frame), NEW v \in Seq(Frame), NEW x, NEW y, NEW z \in Book,
         NEW m \in Nat, NEW n \in Nat, m <= n, Len(v) >= 1, Leads(w, x, y, m),
         Read(y, v[1]) = z, \A j \in 2 .. Len(v) : Read(z, v[j]) = z, Clean(z, n)
  PROVE  Leads(w \o v, x, z, n)
<1>1. PICK S : Through(S, w, x, y, m)
  BY DEF Leads
<1> DEFINE k == Len(w)
           l == Len(v)
           T == [i \in 0 .. k + l |-> IF i <= k THEN S[i] ELSE z]
<1>2. /\ k \in Nat /\ l \in Nat /\ Len(w \o v) = k + l
      /\ \A i \in 1 .. k + l : (w \o v)[i] = IF i <= k THEN w[i] ELSE v[i - k]
  BY ConcatProperties, LenProperties
<1>3. /\ S \in [0 .. k -> Book] /\ S[0] = x /\ S[k] = y
      /\ \A i \in 1 .. k : S[i] = Read(S[i - 1], w[i])
      /\ \A i \in 0 .. k : Clean(S[i], m)
  BY <1>1 DEF Through
<1> HIDE DEF k, l
<1>4. T \in [0 .. k + l -> Book] /\ T[0] = x /\ T[k + l] = z
  BY <1>2, <1>3 DEF l
<1>5. ASSUME NEW i \in 1 .. k + l PROVE T[i] = Read(T[i - 1], (w \o v)[i])
  <2>1. CASE i <= k
    <3>1. i \in 1 .. k /\ i \in 0 .. k + l /\ i - 1 \in 0 .. k + l /\ i - 1 <= k
      BY <1>2, <2>1
    <3>2. T[i] = S[i] /\ T[i - 1] = S[i - 1]
      BY <2>1, <3>1
    <3>3. (w \o v)[i] = w[i]
      BY <1>2, <2>1
    <3> HIDE DEF T
    <3> QED BY <1>3, <3>1, <3>2, <3>3
  <2>2. CASE i = k + 1
    <3>1. i \in 0 .. k + l /\ i - 1 \in 0 .. k + l /\ ~(i <= k) /\ i - 1 = k /\ i - k = 1
      BY <1>2, <2>2
    <3>2. T[i] = z /\ T[i - 1] = S[k]
      BY <1>2, <3>1
    <3>3. (w \o v)[i] = v[1]
      BY <1>2, <3>1
    <3> HIDE DEF T
    <3> QED BY <1>3, <3>2, <3>3
  <2>3. CASE i > k + 1
    <3>1. /\ i \in 0 .. k + l /\ i - 1 \in 0 .. k + l /\ ~(i <= k) /\ ~(i - 1 <= k)
          /\ i - k \in 2 .. l
      BY <1>2, <2>3
    <3>2. T[i] = z /\ T[i - 1] = z
      BY <3>1
    <3>3. (w \o v)[i] = v[i - k]
      BY <1>2, <3>1
    <3> HIDE DEF T
    <3> QED BY <3>1, <3>2, <3>3 DEF l
  <2>4. i <= k \/ i = k + 1 \/ i > k + 1
    BY <1>2
  <2> HIDE DEF T
  <2> QED BY <2>1, <2>2, <2>3, <2>4
<1>6. ASSUME NEW i \in 0 .. k + l PROVE Clean(T[i], n)
  <2>1. CASE i <= k
    <3>0. i \in 0 .. k
      BY <1>2, <2>1
    <3>1. Clean(S[i], m) /\ T[i] = S[i] /\ S[i].n \in Int
      <4>1. Clean(S[i], m) /\ S[i] \in Book
        BY <1>3, <3>0
      <4> QED BY <2>1, <4>1 DEF Book
    <3> QED BY <3>1 DEF Clean
  <2>2. CASE ~(i <= k)
    BY <1>2, <2>2
  <2> QED BY <2>1, <2>2
<1> HIDE DEF T
<1>7. Through(T, w \o v, x, z, n)
  BY <1>2, <1>4, <1>5, <1>6 DEF Through
<1> QED BY <1>7 DEF Leads

\* A frame that is read takes the reader one step on.
LEMMA LeadsTail ==
  ASSUME NEW w \in Seq(Frame), w # <<>>, NEW x, NEW y, NEW n, Leads(w, x, y, n)
  PROVE  Leads(Tail(w), Read(x, Head(w)), y, n)
<1>1. PICK S : Through(S, w, x, y, n)
  BY DEF Leads
<1> DEFINE k == Len(w)
           T == [i \in 0 .. k - 1 |-> S[i + 1]]
<1>2. /\ k \in Nat \ {0} /\ Len(Tail(w)) = k - 1 /\ Head(w) = w[1]
      /\ \A i \in 1 .. k - 1 : Tail(w)[i] = w[i + 1]
  BY TailSent
<1>3. /\ S \in [0 .. k -> Book] /\ S[0] = x /\ S[k] = y
      /\ \A i \in 1 .. k : S[i] = Read(S[i - 1], w[i])
      /\ \A i \in 0 .. k : Clean(S[i], n)
  BY <1>1 DEF Through
<1> HIDE DEF k
<1>4. T \in [0 .. k - 1 -> Book] /\ T[0] = Read(x, Head(w)) /\ T[k - 1] = y
  BY <1>2, <1>3
<1>5. ASSUME NEW i \in 1 .. k - 1 PROVE T[i] = Read(T[i - 1], Tail(w)[i])
  <2>1. T[i] = S[i + 1] /\ T[i - 1] = S[i] /\ Tail(w)[i] = w[i + 1] /\ i + 1 \in 1 .. k
    BY <1>2
  <2>2. S[i + 1] = Read(S[i + 1 - 1], w[i + 1]) /\ i + 1 - 1 = i
    BY <1>3, <2>1
  <2> QED BY <2>1, <2>2
<1>6. \A i \in 0 .. k - 1 : Clean(T[i], n)
  BY <1>2, <1>3
<1> HIDE DEF T
<1>7. Through(T, Tail(w), Read(x, Head(w)), y, n)
  BY <1>2, <1>4, <1>5, <1>6 DEF Through
<1> QED BY <1>7 DEF Leads

\* A frame that changes nothing may come first.
LEMMA LeadsReplay ==
  ASSUME NEW w \in Seq(Frame), NEW f \in Frame, NEW x, NEW y, NEW n, Leads(w, x, y, n),
         Read(x, f) = x
  PROVE  Leads(<<f>> \o w, x, y, n)
<1>1. PICK S : Through(S, w, x, y, n)
  BY DEF Leads
<1> DEFINE k == Len(w)
           v == <<f>> \o w
           T == [i \in 0 .. k + 1 |-> IF i = 0 THEN x ELSE S[i - 1]]
<1>2. /\ k \in Nat /\ Len(v) = k + 1 /\ v[1] = f
      /\ \A i \in 2 .. k + 1 : v[i] = w[i - 1]
  <2>1. <<f>> \in Seq(Frame) /\ Len(<<f>>) = 1 /\ <<f>>[1] = f
    OBVIOUS
  <2>2. /\ k \in Nat /\ Len(v) = 1 + k
        /\ \A i \in 1 .. 1 + k : v[i] = IF i <= 1 THEN <<f>>[i] ELSE w[i - 1]
    BY <2>1, ConcatProperties, LenProperties
  <2> QED BY <2>1, <2>2
<1>3. /\ S \in [0 .. k -> Book] /\ S[0] = x /\ S[k] = y
      /\ \A i \in 1 .. k : S[i] = Read(S[i - 1], w[i])
      /\ \A i \in 0 .. k : Clean(S[i], n)
  BY <1>1 DEF Through
<1> HIDE DEF k, v
<1>4. T \in [0 .. k + 1 -> Book] /\ T[0] = x /\ T[k + 1] = y
  BY <1>2, <1>3
<1>5. ASSUME NEW i \in 1 .. k + 1 PROVE T[i] = Read(T[i - 1], v[i])
  <2>1. CASE i = 1
    BY <1>2, <1>3, <2>1
  <2>2. CASE i # 1
    <3>1. T[i] = S[i - 1] /\ T[i - 1] = S[i - 1 - 1] /\ v[i] = w[i - 1] /\ i - 1 \in 1 .. k
      BY <1>2, <2>2
    <3> QED BY <1>3, <3>1
  <2> QED BY <2>1, <2>2
<1>6. \A i \in 0 .. k + 1 : Clean(T[i], n)
  <2> TAKE i \in 0 .. k + 1
  <2>1. CASE i = 0
    BY <1>2, <1>3, <2>1
  <2>2. CASE i # 0
    <3>1. i - 1 \in 0 .. k /\ T[i] = S[i - 1]
      BY <1>2, <2>2
    <3> QED BY <1>3, <3>1
  <2> QED BY <2>1, <2>2
<1> HIDE DEF T
<1>7. Through(T, v, x, y, n)
  BY <1>2, <1>4, <1>5, <1>6 DEF Through
<1> QED BY <1>7 DEF Leads, v

\* A new connection starts with the present.
LEMMA LeadsNew ==
  ASSUME NEW f \in Frame, NEW h \in Frame, NEW x \in Book, NEW y \in Book, NEW n,
         Read(x, f) = y, Read(y, h) = y, Clean(x, n), Clean(y, n)
  PROVE  Leads(<<f, h>>, x, y, n)
<1> DEFINE w == <<f, h>>
           T == [i \in 0 .. 2 |-> IF i = 0 THEN x ELSE y]
<1>1. Len(w) = 2 /\ w[1] = f /\ w[2] = h
  OBVIOUS
<1> HIDE DEF w
<1>2. T \in [0 .. 2 -> Book] /\ T[0] = x /\ T[1] = y /\ T[2] = y
  OBVIOUS
<1>3. \A i \in 1 .. 2 : T[i] = Read(T[i - 1], w[i])
  <2> TAKE i \in 1 .. 2
  <2>1. CASE i = 1
    BY <1>1, <1>2, <2>1
  <2>2. CASE i = 2
    BY <1>1, <1>2, <2>2
  <2> QED BY <2>1, <2>2
<1>4. \A i \in 0 .. 2 : Clean(T[i], n)
  OBVIOUS
<1> HIDE DEF T
<1>5. Through(T, w, x, y, n)
  BY <1>1, <1>2, <1>3, <1>4 DEF Through
<1> QED BY <1>5 DEF Leads, w

LEMMA LeadsEnds ==
  ASSUME NEW w, NEW x, NEW y, NEW n, Leads(w, x, y, n), Len(w) \in Nat
  PROVE  Clean(x, n) /\ (w = <<>> => x = y)
<1>1. PICK S : Through(S, w, x, y, n)
  BY DEF Leads
<1>2. S[0] = x /\ S[Len(w)] = y /\ Clean(S[0], n)
  BY <1>1 DEF Through
<1>3. w = <<>> => Len(w) = 0
  OBVIOUS
<1> QED BY <1>2, <1>3

Active(g) == runner[g].at \notin {"none", "done"}

\* While no Start has given up, one goroutine is at work at most, that of the
\* latest Start; it backfills while that Start waits, and is over before the
\* service can be started again.
OneReader ==
  /\ \A g \in Starts : Active(g) => g = caller.starts
  /\ caller.at \in {"idle", "starting"} /\ ~service.running => \A g \in Starts : ~Active(g)
  /\ \A g \in Starts : runner[g].at \in {"backfill", "reply", "warm", "report"} => caller.at = "starting"

BookInv ==
  /\ Clean(book, exchange.n)
  /\ service.running => \A g \in Listening : Leads(wire[g], book, Present, exchange.n)

ReaderInv == ~caller.gaveUp => OneReader /\ BookInv

\* What a goroutine's step does to itself, and to the others.
LEMMA RunMoves ==
  ASSUME TypeOK, NEW g \in Starts, Run(g)
  PROVE  /\ Active(g) /\ UNCHANGED <<caller, exchange>>
         /\ \A q \in Starts : q # g => runner'[q] = runner[q]
         /\ runner'[g].at \in {"backfill", "reply", "warm", "report"}
              => runner[g].at \in {"backfill", "reply", "warm", "report"}
         /\ \/ service' = service
            \/ service'.running = FALSE /\ runner'[g].at = "done"
<1>1. CASE Ask(g)
  BY <1>1 DEF Ask, Active, TypeOK, Goes
<1>2. CASE Reply(g)
  BY <1>2 DEF Reply, Active, TypeOK
<1>3. CASE AskAgain(g)
  BY <1>3 DEF AskAgain, Active, TypeOK
<1>4. CASE BackfillFails(g)
  BY <1>4 DEF BackfillFails, Active, TypeOK, Comes, Asleep
<1>5. CASE InsertFails(g)
  BY <1>5 DEF InsertFails, Active, TypeOK, Comes, Asleep
<1>12. CASE WarmCache(g)
  BY <1>12 DEF WarmCache, Active, TypeOK, Comes, Asleep
<1>6. CASE Report(g)
  <2>1. /\ runner[g].at = "report" /\ UNCHANGED <<caller, exchange>>
        /\ \/ Comes(g, "ready", FALSE) /\ service' = service
           \/ FailStartIfCurrent(g) /\ Goes(g, "done")
    BY <1>6 DEF Report
  <2>2. CASE Comes(g, "ready", FALSE) /\ service' = service
    BY <2>1, <2>2 DEF Comes, Asleep, Active, TypeOK
  <2>3. CASE FailStartIfCurrent(g) /\ Goes(g, "done")
    <3>1. service' = service \/ service' = [service EXCEPT !.failed = TRUE, !.running = FALSE]
      BY <2>3 DEF FailStartIfCurrent
    <3>2. service' = service \/ service'.running = FALSE
      BY <3>1 DEF TypeOK
    <3>3. /\ runner'[g].at = "done" /\ \A q \in Starts : q # g => runner'[q] = runner[q]
      BY <2>3, ZenonT(60) DEF Goes, TypeOK
    <3> QED BY <2>1, <3>2, <3>3 DEF Active
  <2> QED BY <2>1, <2>2, <2>3
<1>7. CASE EnterLoop(g)
  BY <1>7, ZenonT(60) DEF EnterLoop, Entering, Active, TypeOK, Goes
<1>8. CASE Dial(g)
  BY <1>8, ZenonT(60) DEF Dial, Active, TypeOK, Goes
<1>9. CASE Subscribe(g)
  BY <1>9, ZenonT(60) DEF Subscribe, Active, TypeOK, Goes
<1>10. CASE Disconnect(g)
  BY <1>10, ZenonT(60) DEF Disconnect, Active, TypeOK, Goes
<1>11. CASE Dispatch(g)
  BY <1>11 DEF Dispatch, Active
<1> QED BY <1>1, <1>2, <1>3, <1>4, <1>5, <1>6, <1>7, <1>8, <1>9, <1>10, <1>11, <1>12 DEF Run

LEMMA OneReaderKept ==
  ASSUME TypeOK, OneReader, ~caller.gaveUp, ~caller'.gaveUp, [Next]_vars
  PROVE  OneReader'
<1>1. ASSUME NEW g \in Starts, Run(g) PROVE OneReader'
  <2>1. /\ Active(g) /\ UNCHANGED caller
        /\ \A q \in Starts : q # g => runner'[q] = runner[q]
        /\ runner'[g].at \in {"backfill", "reply", "warm", "report"}
             => runner[g].at \in {"backfill", "reply", "warm", "report"}
        /\ service' = service \/ (service'.running = FALSE /\ runner'[g].at = "done")
    BY <1>1, RunMoves
  <2>2. \A q \in Starts : Active(q) => q = g
    BY <2>1 DEF OneReader
  <2>3. \A q \in Starts : Active(q)' => q = caller'.starts
    BY <2>1, <2>2 DEF OneReader, Active
  <2>4. caller'.at \in {"idle", "starting"} /\ ~service'.running
          => \A q \in Starts : ~Active(q)'
    BY <2>1, <2>2 DEF OneReader, Active
  <2>5. \A q \in Starts : runner'[q].at \in {"backfill", "reply", "warm", "report"}
                            => caller'.at = "starting"
    BY <2>1 DEF OneReader
  <2> QED BY <2>3, <2>4, <2>5 DEF OneReader, Active
<1>2. CASE BeginStart
  <2> DEFINE h == caller.starts + 1
  <2>1. \A g \in Starts : ~Active(g)
    BY <1>2 DEF BeginStart, OneReader
  <2>2. /\ service'.running = TRUE
        /\ runner' = [runner EXCEPT ![h] = [@ EXCEPT !.at = "backfill"]]
        /\ caller' = [caller EXCEPT !.at = "starting", !.starts = h, !.up = FALSE,
                                    !.stopped = "no"]
    BY <1>2 DEF BeginStart
  <2> HIDE DEF h
  <2>3. caller'.at = "starting" /\ caller'.starts = h
    BY <2>2 DEF TypeOK
  <2>4. \A q \in Starts : q # h => runner'[q] = runner[q]
    BY <2>2 DEF TypeOK
  <2>5. \A q \in Starts : Active(q)' => q = caller'.starts
    BY <2>1, <2>3, <2>4 DEF Active
  <2> QED BY <2>2, <2>3, <2>5 DEF OneReader, Active
<1>3. CASE StartReturns
  <2>1. /\ UNCHANGED <<runner, service>> /\ caller.at = "starting" /\ Ready(caller.starts)
        /\ caller'.at = "idle" /\ caller'.starts = caller.starts
    BY <1>3 DEF StartReturns, TypeOK
  <2>2. \A g \in Starts : runner[g].at \notin {"backfill", "reply", "warm", "report"}
    BY <2>1 DEF Ready, OneReader, Active
  <2> QED BY <2>1, <2>2 DEF OneReader, Active
<1>4. CASE StartTimesOut
  <2>1. caller'.gaveUp
    BY <1>4 DEF StartTimesOut, TypeOK
  <2> QED BY <2>1
<1>5. CASE BeginStop
  <2>1. /\ UNCHANGED runner /\ caller.at = "idle"
        /\ caller'.at = "stopping" /\ caller'.starts = caller.starts
    BY <1>5 DEF BeginStop, TypeOK
  <2> QED BY <2>1 DEF OneReader, Active
<1>6. CASE StopReturns
  <2>1. UNCHANGED <<runner, service>> /\ AllDone /\ caller'.at = "idle"
        /\ caller'.starts = caller.starts
    BY <1>6 DEF StopReturns, TypeOK
  <2> QED BY <2>1 DEF OneReader, Active, AllDone
<1>8. CASE StopAtOnce
  <2>1. UNCHANGED <<runner, service>> /\ caller.at = "idle" /\ caller'.at = "idle"
        /\ caller'.starts = caller.starts
    BY <1>8 DEF StopAtOnce, TypeOK
  <2> QED BY <2>1 DEF OneReader, Active
<1>7. CASE \/ BarEnds \/ BarCloses \/ BookMoves \/ BookRestarts \/ UNCHANGED vars
           \/ (\E g \in Starts : OldDelta(g)) \/ GetCandles \/ GetCandlesReply
  <2>1. UNCHANGED <<runner, service, caller>>
    BY <1>7
    DEF BarEnds, BarCloses, BookMoves, BookRestarts, vars, OldDelta, GetCandles, GetCandlesReply
  <2> QED BY <2>1 DEF OneReader, Active
<1> QED BY <1>1, <1>2, <1>3, <1>4, <1>5, <1>6, <1>7, <1>8 DEF Next

LEMMA PresentType ==
  ASSUME TypeOK
  PROVE  /\ Present \in Book /\ book \in Book /\ exchange.n \in Nat /\ exchange.n >= 1
         /\ Clean(Present, exchange.n)
<1>1. exchange.u \in Nat /\ exchange.n \in 1 .. MaxUpdates /\ book \in Book
  BY DEF TypeOK, Book
<1>2. exchange.n \in 0 .. MaxUpdates /\ exchange.n \in Nat /\ exchange.n >= 1
  BY <1>1, MarketDataAssumption
<1> QED BY <1>1, <1>2 DEF Present, Book, Clean, Mixture

LEMMA PresentTypeNext ==
  ASSUME TypeOK'
  PROVE  /\ Present' \in Book /\ exchange'.n \in 0 .. MaxUpdates /\ exchange'.n \in Nat
         /\ exchange'.u \in Nat /\ exchange'.bar \in Bars
         /\ Clean(Present', exchange'.n)
<1>1. exchange'.u \in Nat /\ exchange'.n \in 1 .. MaxUpdates /\ exchange'.bar \in Bars
  BY DEF TypeOK
<1>2. exchange'.n \in 0 .. MaxUpdates /\ exchange'.n \in Nat /\ exchange'.n >= 1
  BY <1>1, MarketDataAssumption
<1> QED BY <1>1, <1>2 DEF Present, Book, Clean, Mixture

\* What the exchange sends reaches every reader in order.
LEMMA SendsLead ==
  ASSUME TypeOK, TypeOK', BookInv, NEW v \in Seq(Frame), Len(v) >= 1, Sends(v),
         UNCHANGED <<book, service, runner>>, exchange'.n >= exchange.n,
         Read(Present, v[1]) = Present', \A j \in 2 .. Len(v) : Read(Present', v[j]) = Present'
  PROVE  BookInv'
<1>1. /\ exchange.n \in Nat /\ exchange'.n \in Nat /\ Present' \in Book
      /\ Clean(Present', exchange'.n) /\ book \in Book
  BY PresentType, PresentTypeNext
<1>2. Clean(book, exchange.n)'
  BY <1>1 DEF BookInv, Clean, Book
<1>3. ASSUME service'.running, NEW g \in Listening'
      PROVE  Leads(wire'[g], book', Present', exchange'.n)
  <2>1. g \in Listening /\ g \in Starts
    BY <1>3 DEF Listening
  <2>2. Leads(wire[g], book, Present, exchange.n) /\ wire'[g] = wire[g] \o v
    BY <1>3, <2>1 DEF BookInv, Sends
  <2>3. wire[g] \in Seq(Frame)
    BY <2>1, Ranges
  <2>4. Leads(wire[g] \o v, book, Present', exchange'.n)
    BY <1>1, <2>2, <2>3, LeadsConcat
  <2> QED BY <2>2, <2>4
<1> QED BY <1>2, <1>3 DEF BookInv

LEMMA ExchangeLeads ==
  ASSUME TypeOK, TypeOK', BookInv, BarEnds \/ BarCloses \/ BookMoves \/ BookRestarts
  PROVE  BookInv'
<1>0. /\ Present \in Book /\ Present' \in Book /\ exchange.n \in Nat /\ exchange'.n \in Nat
      /\ exchange.n >= 1 /\ exchange.u \in Nat /\ exchange'.u \in Nat
      /\ exchange'.n \in 0 .. MaxUpdates /\ exchange'.bar \in Bars /\ exchange.bar \in Bars
  BY PresentType, PresentTypeNext, Ranges
<1>1. CASE BarCloses
  <2> DEFINE f == Kline(exchange.bar, TRUE)
             h == Kline(exchange.bar + 1, FALSE)
             v == <<f, h>>
  <2>1. /\ exchange'.bar = exchange.bar + 1 /\ exchange'.u = exchange.u
        /\ exchange'.n = exchange.n /\ Sends(v) /\ UNCHANGED <<book, service, runner>>
    BY <1>1 DEF BarCloses, TypeOK, market
  <2>2. f \in Frame /\ h \in Frame /\ f.kind = "kline" /\ h.kind = "kline"
    BY <1>0, <2>1, KlineType
  <2>3. Present' = Present
    BY <2>1 DEF Present
  <2> HIDE DEF f, h
  <2>4. v \in Seq(Frame) /\ Len(v) = 2 /\ v[1] = f /\ v[2] = h
    BY <2>2
  <2> HIDE DEF v
  <2>5. Read(Present, v[1]) = Present' /\ \A j \in 2 .. Len(v) : Read(Present', v[j]) = Present'
    BY <2>2, <2>3, <2>4 DEF Read
  <2>6. exchange'.n >= exchange.n /\ Len(v) >= 1
    BY <1>0, <2>1, <2>4
  <2> QED BY <2>1, <2>4, <2>5, <2>6, SendsLead
<1>2. CASE BookMoves
  <2> DEFINE f == Delta(exchange')
             v == <<f>>
  <2>1. /\ exchange'.u = exchange.u + 1 /\ exchange'.n = exchange.n + 1
        /\ Sends(v) /\ UNCHANGED <<book, service, runner>>
    BY <1>2 DEF BookMoves, TypeOK, market
  <2>2. f \in Frame /\ f.kind = "delta" /\ f.u = exchange'.u /\ f.n = exchange'.n
    BY <1>0, BookFrameType
  <2> HIDE DEF f
  <2>3. v \in Seq(Frame) /\ Len(v) = 1 /\ v[1] = f
    BY <2>2
  <2> HIDE DEF v
  <2>4. Read(Present, f) = Present'
    <3>1. /\ Present.u = exchange.u /\ Present.n = exchange.n /\ Present.n # Mixture
          /\ Present # NoBook /\ ~(f.u <= Present.u)
      BY <1>0, <2>1, <2>2 DEF Present, NoBook, Mixture
    <3>2. Present' = [u |-> exchange'.u, n |-> exchange'.n]
      BY DEF Present
    <3> QED BY <2>1, <2>2, <3>1, <3>2 DEF Read
  <2>5. \A j \in 2 .. Len(v) : Read(Present', v[j]) = Present'
    BY <2>3
  <2>6. exchange'.n >= exchange.n /\ Len(v) >= 1
    BY <1>0, <2>1, <2>3
  <2> QED BY <2>1, <2>3, <2>4, <2>5, <2>6, SendsLead
<1>3. CASE BookRestarts
  <2> DEFINE f == Snapshot(exchange')
             v == <<f>>
  <2>1. /\ exchange'.n = exchange.n
        /\ Sends(v) /\ UNCHANGED <<book, service, runner>>
    BY <1>3 DEF BookRestarts, TypeOK, market
  <2>2. f \in Frame /\ f.kind = "snapshot" /\ f.u = exchange'.u /\ f.n = exchange'.n
    BY <1>0, BookFrameType
  <2> HIDE DEF f
  <2>3. v \in Seq(Frame) /\ Len(v) = 1 /\ v[1] = f
    BY <2>2
  <2> HIDE DEF v
  <2>4. Read(Present, f) = Present'
    BY <2>2 DEF Read, Present
  <2>5. \A j \in 2 .. Len(v) : Read(Present', v[j]) = Present'
    BY <2>3
  <2>6. exchange'.n >= exchange.n /\ Len(v) >= 1
    BY <1>0, <2>1, <2>3
  <2> QED BY <2>1, <2>3, <2>4, <2>5, <2>6, SendsLead
<1>4. CASE BarEnds
  <2>1. /\ exchange'.u = exchange.u /\ exchange'.n = exchange.n
        /\ UNCHANGED <<book, service, runner, wire>>
    BY <1>4 DEF BarEnds, TypeOK, market
  <2>2. Present' = Present
    BY <2>1 DEF Present
  <2> QED BY <2>1, <2>2 DEF BookInv, Listening
<1> QED BY <1>1, <1>2, <1>3, <1>4

LEMMA RunLeads ==
  ASSUME TypeOK, OneReader, BookInv, NEW g \in Starts, Run(g)
  PROVE  BookInv'
<1>0. /\ UNCHANGED exchange
      /\ service'.running => service.running
      /\ \A q \in Starts : q # g => runner'[q] = runner[q] /\ ~Active(q)
  BY RunMoves DEF OneReader
<1>0a. \A q \in Listening' : q = g
  BY <1>0 DEF Listening, Active
<1>0b. Present' = Present /\ exchange'.n = exchange.n
  BY <1>0 DEF Present
<1>1. CASE \/ Ask(g) \/ Reply(g) \/ WarmCache(g) \/ AskAgain(g) \/ BackfillFails(g) \/ InsertFails(g)
           \/ Report(g) \/ EnterLoop(g) \/ Dial(g) \/ Disconnect(g)
  <2>1. UNCHANGED book
    BY <1>1 DEF Ask, Reply, WarmCache, AskAgain, BackfillFails, InsertFails, Report, EnterLoop,
                Dial, Disconnect, market
  <2>2. runner'[g].at # "read"
    <3>0. runner \in [Starts -> RunnerState]
      BY Shape
    <3>1. CASE Ask(g) \/ Reply(g) \/ AskAgain(g)
      BY <3>0, <3>1 DEF Ask, Reply, AskAgain, RunnerState
    <3>2. CASE WarmCache(g) \/ BackfillFails(g) \/ InsertFails(g)
      BY <3>0, <3>2 DEF WarmCache, BackfillFails, InsertFails, Comes, Asleep
    <3>3. CASE Report(g) \/ EnterLoop(g) \/ Dial(g) \/ Disconnect(g)
      BY <3>0, <3>3 DEF Report, EnterLoop, Entering, Dial, Disconnect, Goes, Comes, Asleep,
                        RunnerState
    <3> QED BY <1>1, <3>1, <3>2, <3>3
  <2>3. Listening' = {}
    BY <1>0a, <2>2 DEF Listening
  <2>4. Clean(book', exchange'.n)
    BY <1>0b, <2>1 DEF BookInv
  <2> QED BY <2>3, <2>4 DEF BookInv
<1>2. CASE Subscribe(g)
  <2> DEFINE f == Snapshot(exchange)
             h == Kline(exchange.bar, FALSE)
  <2>1. /\ f \in Frame /\ f.kind = "snapshot" /\ f.u = exchange.u /\ f.n = exchange.n
        /\ h \in Frame /\ h.kind = "kline"
    BY Ranges, KlineType, BookFrameType
  <2>2. wire'[g] = <<f, h>> /\ UNCHANGED book
    BY <1>2 DEF Subscribe, TypeOK, market
  <2> HIDE DEF f, h
  <2>3. Read(book, f) = Present /\ Read(Present, h) = Present
    BY <2>1 DEF Read, Present
  <2>4. Leads(wire'[g], book, Present, exchange.n)
    BY <2>1, <2>2, <2>3, PresentType, LeadsNew DEF BookInv
  <2>5. Clean(book', exchange'.n) /\ Leads(wire'[g], book', Present', exchange'.n)
    BY <1>0b, <2>2, <2>4 DEF BookInv
  <2> QED BY <1>0a, <2>5 DEF BookInv
<1>3. CASE Dispatch(g)
  <2> DEFINE f == Head(wire[g])
  <2>1. /\ runner[g].at = "read" /\ wire[g] # <<>> /\ wire'[g] = Tail(wire[g])
        /\ UNCHANGED <<runner, service>>
    BY <1>3 DEF Dispatch, TypeOK
  <2>2. wire[g] \in Seq(Frame) /\ g \in Listening
    BY <2>1, Ranges DEF Listening
  <2>3. CASE ~service.running
    <3>1. UNCHANGED book
      BY <1>3, <2>3 DEF Dispatch, market
    <3>2. ~service'.running /\ Clean(book', exchange'.n)
      BY <1>0, <1>0b, <2>3, <3>1 DEF BookInv
    <3> QED BY <3>2 DEF BookInv
  <2>4. CASE service.running
    <3>1. book' = Read(book, f)
      <4>1. CASE f.kind = "kline"
        BY <1>3, <4>1 DEF Dispatch, market, OnKline, Read
      <4>2. CASE f.kind # "kline"
        <5>1. book' = IF f.kind = "snapshot" THEN Reset(f) ELSE ApplyDelta(f)
          BY <1>3, <2>4, <4>2 DEF Dispatch, OnOrderBook
        <5> QED BY <4>2, <5>1 DEF Reset, ApplyDelta, Read
      <4> QED BY <4>1, <4>2
    <3>2. Leads(wire[g], book, Present, exchange.n)
      BY <2>2, <2>4 DEF BookInv
    <3>3. Leads(wire'[g], book', Present, exchange.n)
      BY <2>1, <2>2, <3>1, <3>2, LeadsTail
    <3>4. Clean(book', exchange.n)
      <4>1. wire'[g] \in Seq(Frame)
        BY <2>1, <2>2, TailSent
      <4>2. Len(wire'[g]) \in Nat
        BY <4>1, LenProperties
      <4> QED BY <3>3, <4>2, LeadsEnds
    <3>5. Clean(book', exchange'.n) /\ Leads(wire'[g], book', Present', exchange'.n)
      BY <1>0b, <3>3, <3>4
    <3> QED BY <1>0a, <3>5 DEF BookInv
  <2> QED BY <2>3, <2>4
<1> QED BY <1>1, <1>2, <1>3 DEF Run

LEMMA ReaderInvKept ==
  ASSUME TypeOK, TypeOK', ReaderInv, [Next]_vars
  PROVE  ReaderInv'
<1> SUFFICES ASSUME ~caller'.gaveUp PROVE OneReader' /\ BookInv'
  BY DEF ReaderInv
<1>1. ~caller.gaveUp
  <2>1. ASSUME NEW g \in Starts, Run(g) PROVE UNCHANGED caller
    BY <2>1, RunMoves
  <2>2. CASE \/ BeginStart \/ StartReturns \/ StartTimesOut
             \/ StopAtOnce \/ BeginStop \/ StopReturns
    <3>1. caller'.gaveUp = caller.gaveUp \/ caller'.gaveUp
      <4>1. caller \in [at : {"idle", "starting", "stopping"}, starts : 0 .. MaxStarts,
                       up : BOOLEAN, stopped : {"no", "at once", "waited"}, gaveUp : BOOLEAN]
        BY DEF TypeOK
      <4>2. CASE BeginStart
        BY <4>1, <4>2 DEF BeginStart
      <4>3. CASE StartReturns
        BY <4>1, <4>3 DEF StartReturns
      <4>4. CASE StartTimesOut
        BY <4>1, <4>4 DEF StartTimesOut
      <4>5. CASE BeginStop
        BY <4>1, <4>5 DEF BeginStop
      <4>6. CASE StopReturns
        BY <4>1, <4>6 DEF StopReturns
      <4>7. CASE StopAtOnce
        BY <4>1, <4>7 DEF StopAtOnce
      <4> QED BY <2>2, <4>2, <4>3, <4>4, <4>5, <4>6, <4>7
    <3> QED BY <3>1
  <2>3. CASE ~(\/ BeginStart \/ StartReturns \/ StartTimesOut
               \/ StopAtOnce \/ BeginStop \/ StopReturns)
    BY <2>1, <2>3
    DEF Next, BarEnds, BarCloses, BookMoves, BookRestarts, vars, OldDelta, GetCandles, GetCandlesReply
  <2> QED BY <2>2, <2>3
<1>2. OneReader /\ BookInv
  BY <1>1 DEF ReaderInv
<1>3. OneReader'
  BY <1>1, <1>2, OneReaderKept
<1>4. BookInv'
  <2>1. CASE BarEnds \/ BarCloses \/ BookMoves \/ BookRestarts
    BY <1>2, <2>1, ExchangeLeads
  <2>2. ASSUME NEW g \in Starts, OldDelta(g) PROVE BookInv'
    <3> DEFINE f == Delta(book)
    <3>1. f \in Frame /\ f.kind = "delta" /\ f.u = book.u /\ book.u \in Nat
      BY BookFrameType DEF TypeOK
    <3>2. /\ wire' = [wire EXCEPT ![g] = <<f>> \o wire[g]]
          /\ UNCHANGED <<exchange, service, runner, book>>
      BY <2>2 DEF OldDelta, market
    <3> HIDE DEF f
    <3>3. Read(book, f) = book
      BY <3>1 DEF Read
    <3>4. ASSUME service.running, NEW q \in Listening
          PROVE  Leads(wire'[q], book, Present, exchange.n)
      <4>1. Leads(wire[q], book, Present, exchange.n) /\ wire[q] \in Seq(Frame) /\ q \in Starts
        BY <1>2, <3>4, Ranges DEF BookInv, Listening
      <4>2. CASE q = g
        <5>1. wire'[q] = <<f>> \o wire[q]
          BY <3>2, <4>1, <4>2 DEF TypeOK
        <5> QED BY <3>1, <3>3, <4>1, <5>1, LeadsReplay
      <4>3. CASE q # g
        BY <3>2, <4>1, <4>3 DEF TypeOK
      <4> QED BY <4>2, <4>3
    <3> QED BY <1>2, <3>2, <3>4 DEF BookInv, Listening, Present
  <2>3. ASSUME NEW g \in Starts, Run(g) PROVE BookInv'
    BY <1>2, <2>3, RunLeads
  <2>4. CASE BeginStart
    <3>1. UNCHANGED <<exchange, book>>
      BY <2>4 DEF BeginStart, market
    <3>2. \A g \in Starts : ~Active(g)
      BY <1>2, <2>4 DEF BeginStart, OneReader
    <3>3. Listening' = {}
      <4> DEFINE h == caller.starts + 1
                 r == [runner[h] EXCEPT !.at = "backfill"]
      <4>1. runner' = [runner EXCEPT ![h] = r]
        BY <2>4 DEF BeginStart
      <4>2. h \in Starts
        BY <2>4, StartNumber
      <4>3. r.at = "backfill" /\ runner \in [Starts -> RunnerState]
        BY <4>2, Shape DEF RunnerState
      <4> HIDE DEF h, r
      <4>4. \A q \in Starts : runner'[q].at # "read"
        BY <3>2, <4>1, <4>2, <4>3 DEF Active
      <4> QED BY <4>4 DEF Listening
    <3> QED BY <1>2, <3>1, <3>3 DEF BookInv
  <2>5. CASE StartReturns \/ StartTimesOut \/ StopAtOnce \/ BeginStop \/ StopReturns
    <3>1. UNCHANGED <<exchange, book, wire, runner>>
      BY <2>5 DEF StartReturns, StartTimesOut, StopAtOnce, BeginStop, StopReturns, market
    <3>2. service'.running => service.running
      <4>1. \/ service' = service
            \/ service' = [service EXCEPT !.failed = TRUE, !.running = FALSE]
            \/ service' = [service EXCEPT !.running = FALSE, !.failed = FALSE, !.ready = 0]
        BY <2>5 DEF StartReturns, StartTimesOut, StopAtOnce, BeginStop, StopReturns, FailStartIfCurrent
      <4> QED BY <4>1 DEF TypeOK
    <3> QED BY <1>2, <3>1, <3>2 DEF BookInv, Listening, Present
  <2>6. CASE UNCHANGED vars \/ GetCandles \/ GetCandlesReply
    <3>1. UNCHANGED <<exchange, book, wire, runner, service>>
      BY <2>6 DEF vars, GetCandles, GetCandlesReply
    <3> QED BY <1>2, <3>1 DEF BookInv, Listening, Present
  <2> QED BY <2>1, <2>2, <2>3, <2>4, <2>5, <2>6 DEF Next
<1> QED BY <1>3, <1>4

\* Across lost connections, repeated deltas and update ids that start again,
\* the order book is always that of one moment of the exchange, and of the
\* present once the reader has caught up: as long as no Start has given up
\* while its goroutine went on.
THEOREM BookIsTheExchanges == Spec => []BookAgrees
<1> DEFINE Inv == TypeOK /\ Called /\ ReaderInv
<1>1. Init => Inv
  <2> SUFFICES ASSUME Init PROVE ReaderInv
    BY InitType, InitCalled
  <2>1. OneReader
    BY DEF Init, OneReader, Active, Asleep
  <2>2. BookInv
    BY DEF Init, BookInv, Clean
  <2> QED BY <2>1, <2>2 DEF ReaderInv
<1>2. Inv /\ [Next]_vars => Inv'
  BY NextType, ReaderInvKept
<1>3. Inv => BookAgrees
  <2> SUFFICES ASSUME Inv, ~caller.gaveUp
               PROVE  /\ book # NoBook => book.n # Mixture /\ book.n <= exchange.n
                      /\ CaughtUp => book = Present
    BY DEF BookAgrees, Present
  <2>1. BookInv
    BY DEF ReaderInv
  <2>2. book # NoBook => book.n # Mixture /\ book.n <= exchange.n
    BY <2>1 DEF BookInv, Clean
  <2>3. ASSUME CaughtUp PROVE book = Present
    <3>1. PICK g \in Listening : wire[g] = <<>>
      BY <2>3 DEF CaughtUp
    <3>2. Leads(wire[g], book, Present, exchange.n)
      BY <2>1, <2>3 DEF BookInv, CaughtUp
    <3>3. Len(wire[g]) \in Nat
      BY <3>1
    <3> QED BY <3>1, <3>2, <3>3, LeadsEnds
  <2> QED BY <2>2, <2>3
<1> QED BY <1>1, <1>2, <1>3, PTL DEF Spec
=============================================================================
