--------------------------- MODULE SchedulerCycle ---------------------------
(***************************************************************************)
(* The trading cycle of internal/scheduler/scheduler.go in paper mode: the *)
(* screener's candidates pass the hard blocks, the routing, the vetoes     *)
(* asked in parallel, the risk engine, the reviewer, the ranking and the   *)
(* second validation before the simulator opens a trade. One cycle runs at *)
(* a time, but nothing else waits for it: trades close, cooldowns expire,  *)
(* midnight passes and the process crashes between any two of its steps.   *)
(* What each check computes is RiskEngine's and LLMAdvice's; here is which *)
(* state each step reads, and when.                                        *)
(*                                                                         *)
(* The simulator is what PaperSimulator models, reduced to the open trades *)
(* and the streak of losses; its five-second ticker and the cycle's own    *)
(* CheckOpenPositions are both Close. In paper mode the broker opens       *)
(* nothing. It may hold positions restored from its own table, but nothing *)
(* hands it a price and nothing evaluates its kill switch                  *)
(* (scheduler.go:309), and a start that would halt it fails: the positions *)
(* stay as they are and the scheduler never finds the bot halted.          *)
(***************************************************************************)
EXTENDS RiskEngine, LLMAdvice

CONSTANTS
  Offers,         \* the candidates the screener may return, one per symbol
  Markets,        \* what a reading of the order book, price and candles gives
  Account,        \* the account's figures, which this module does not move
  Restored,       \* the positions the broker holds, from its start on
  VetoReplies,    \* what a veto call may meet
  ReviewReplies,  \* what a review call may meet
  HardCap, MaxCallsPerCycle, MaxCallsPerDay,  \* llm_routing; 0 is no limit
  Critical,       \* btc_5m_staleness.critical_cycles
  MaxOffered, MaxCycles, MaxEvents  \* bounds: candidates screened in a cycle,
                                    \* cycles begun, events around them

Symbols == {c.symbol : c \in Offers}
Timers == {"none", "running", "over"}

ASSUME CycleAssumption ==
  /\ HardCap \in Nat /\ MaxCallsPerCycle \in Nat /\ MaxCallsPerDay \in Nat
  /\ Critical \in Nat \ {0}
  /\ IsFiniteSet(Offers)
  /\ \A c, d \in Offers : c.symbol = d.symbol => c = d
  /\ \A c \in Offers : c.score \in Int
  /\ \A r \in VetoReplies \cup ReviewReplies : r.cost \in Nat
  /\ \E dear \in VetoReplies : \A r \in VetoReplies : r.cost <= dear.cost
  \* Enforced when the configuration is loaded (config.go:787).
  /\ Cfg.max_new_positions_per_cycle \in Nat \ {0}

VARIABLES
  trades,    \* the simulator's open trades
  streak,    \* its consecutive losses, which it persists
  stops,     \* the symbols stopped out within the last hour
  stale,     \* the failed reads of BTC since the last good one, up to Critical
  losses,    \* the scheduler's copy of the streak
  cooldown,  \* cooldownUntil: none, ahead or past
  blackout,  \* perSymbolSLCooldown, likewise for each symbol
  usage,     \* llmCallsToday, whether it is of an earlier day, and the stored row
  spent,     \* the veto client's dailyCost
  reviewed,  \* the reviewer's
  resetDue,  \* the UTC day differs from lastDailyResetDay
  cyc,       \* the cycle in progress
  cycles, events,  \* the bounds' counters
  made,      \* history: veto calls sent today
  faulty,    \* history: a count of today's calls has been lost
  resting    \* history: the symbols a cycle has found stopped out within the
             \* hour and whose blackout has not run out since

simulator == <<trades, streak, stops>>
memory == <<losses, cooldown, blackout>>
llm == <<usage, spent, reviewed>>
history == <<made, faulty, resting>>
vars == <<simulator, stale, memory, llm, resetDue, cyc, cycles, events, history>>

Idle == [pc |-> "idle", todo |-> <<>>, tasks |-> <<>>, approved |-> <<>>,
         snap |-> {}, ranging |-> FALSE, btcStale |-> FALSE, executed |-> 0]

Init ==
  /\ trades = {} /\ streak = 0 /\ stops = {}
  /\ stale = 0
  /\ losses = 0 /\ cooldown = "none" /\ blackout = [s \in Symbols |-> "none"]
  /\ usage = [today |-> 0, old |-> FALSE, row |-> 0]
  /\ spent = 0 /\ reviewed = 0 /\ resetDue = TRUE
  /\ cyc = Idle /\ cycles = 0 /\ events = 0
  /\ made = 0 /\ faulty = FALSE /\ resting = {}

-----------------------------------------------------------------------------
\* The cycle, up to the snapshot.

\* RunOnce to checkDailyReset.
Begin ==
  /\ cyc.pc = "idle" /\ cycles < MaxCycles
  /\ cycles' = cycles + 1
  /\ cyc' = [Idle EXCEPT !.pc = "screen"]
  /\ resetDue' = FALSE
  /\ reviewed' = IF resetDue THEN 0 ELSE reviewed
  /\ UNCHANGED <<simulator, stale, memory, usage, spent, events, history>>

\* The screener fails or finds nothing, or BTC has been unreadable too long.
EndEarly ==
  /\ cyc.pc = "screen"
  /\ cyc' = Idle
  /\ UNCHANGED <<simulator, stale, memory, llm, resetDue, cycles, events, history>>

Screen ==
  /\ cyc.pc = "screen" /\ stale < Critical
  /\ \E offered \in UNION {kSubset(n, Offers) : n \in 1 .. MaxOffered}, ranging \in BOOLEAN :
       cyc' = [cyc EXCEPT !.pc = "books", !.ranging = ranging, !.btcStale = stale > 0,
                          !.todo = SetToSeq(offered)]
  /\ UNCHANGED <<simulator, stale, memory, llm, resetDue, cycles, events, history>>

\* The streak decides on the cooldown, the last hour's stops on the blackouts.
\* When they cannot be read the expired blackouts are not removed either.

\* The blackouts still ahead are the ones removed.
BlackoutReversed(s) == IF blackout[s] = "over" /\ s \notin stops THEN "over" ELSE "none"

BlackoutAfter(s) ==
  IF s \in stops /\ Cfg.sl_cooldown THEN "running"
  ELSE IF blackout[s] = "over" THEN "none" ELSE blackout[s]

updatePostTradeState ==
  /\ cyc.pc = "books"
  /\ losses' = streak
  /\ cooldown' = CASE streak = 0 -> "none"
                   [] Cfg.cooldown_losses > 0 /\ streak >= Cfg.cooldown_losses
                        /\ cooldown = "none" -> "running"
                   [] OTHER -> cooldown
  /\ \/ /\ blackout' = [s \in Symbols |-> BlackoutAfter(s)]
        /\ resting' = IF Cfg.sl_cooldown THEN resting \cup stops ELSE resting
     \/ Cfg.sl_cooldown /\ UNCHANGED <<blackout, resting>>
  /\ cyc' = [cyc EXCEPT !.pc = "caps"]
  /\ UNCHANGED <<simulator, stale, llm, resetDue, cycles, events, made, faulty>>

\* loadLLMUsage: the stored count replaces the one in memory when it can be read.
RemainingUsage(readable) ==
  [usage EXCEPT !.today = usage.row - MaxCallsPerDay, !.old = FALSE]

LoadedUsage(readable) ==
  [usage EXCEPT !.today = IF readable THEN usage.row ELSE IF usage.old THEN 0 ELSE usage.today,
                !.old = FALSE]

\* The orders applyLLMCaps may leave the candidates in: the best score first.
\* It exchanges elements that need not be neighbours, so equal scores may end up
\* either way round.
Sortings(offered) ==
  {[k \in DOMAIN offered |-> offered[place[k]]] :
     place \in {p \in [DOMAIN offered -> DOMAIN offered] :
                  /\ IsInjective(p)
                  /\ \A j, k \in DOMAIN offered :
                       j < k => offered[p[j]].score >= offered[p[k]].score}}

\* applyLLMCaps: sorted by score and cut to the strictest cap that is set.
applyLLMCaps(offered, sorted, callsToday) ==
  LET caps == {HardCap, MaxCallsPerCycle,
               IF MaxCallsPerDay = 0 THEN 0 ELSE MaxCallsPerDay - callsToday} \ {0}
  IN  IF MaxCallsPerDay > 0 /\ callsToday >= MaxCallsPerDay THEN <<>>
      ELSE IF caps = {} THEN offered
      ELSE SubSeq(sorted, 1, Min(caps \cup {Len(sorted)}))

CapCandidates ==
  /\ cyc.pc = "caps"
  /\ \E readable \in BOOLEAN, sorted \in Sortings(cyc.todo) :
       /\ usage' = LoadedUsage(readable)
       /\ cyc' = [cyc EXCEPT !.pc = "snapshot",
                    !.todo = applyLLMCaps(cyc.todo, sorted, LoadedUsage(readable).today)]
       /\ faulty' = (faulty \/ LoadedUsage(readable).today < usage.row)
  /\ UNCHANGED <<simulator, stale, memory, spent, reviewed, resetDue, cycles, events,
                 made, resting>>

\* The positions every later check of the cycle sees: the broker's and the
\* simulator's. A failed read of the latter ends the cycle.
PositionsByTradeId ==
  Restored \cup {[symbol |-> <<"paper", t.symbol>>, side |-> t.side, size |-> 1,
                  notional |-> t.notional] : t \in trades}

OpenPositions ==
  Restored \cup {[symbol |-> t.symbol, side |-> t.side, size |-> 1,
                  notional |-> t.notional] : t \in trades}

Snapshot ==
  /\ cyc.pc = "snapshot"
  /\ \/ cyc' = [cyc EXCEPT !.pc = "gate", !.snap = OpenPositions]
     \/ cyc' = Idle
  /\ UNCHANGED <<simulator, stale, memory, llm, resetDue, cycles, events, history>>

-----------------------------------------------------------------------------
\* One candidate at a time: the hard blocks and the routing.

cooling == {s \in Symbols : blackout[s] = "running"}

\* computeBTC5mReturn, called for every candidate, moves the staleness counter.
StaleAfter(btc) == IF btc = NotANumber THEN Min({stale + 1, Critical}) ELSE 0

Blocks(c, m, btc) == EvaluateHardBlocks(
  [symbol |-> c.symbol, price |-> m.price, spread |-> m.spread, funding |-> 0,
   age |-> m.dataAge, candles |-> m.candles, orders |-> {}, positions |-> cyc.snap,
   equity |-> Account.equity, pnl |-> -Account.dailyLoss, recent |-> <<>>,
   since |-> NotANumber, lastWasLoss |-> FALSE, halted |-> FALSE,
   btcReturn |-> IF btc = NotANumber THEN 0 ELSE btc,
   local |-> cyc.snap, exchange |-> cyc.snap, cooling |-> cooling])

\* LLMCalls is still zero while the candidates are routed.
Route(c) == RouteCandidate(c.score, 0, MaxCallsPerCycle, cyc.ranging, cyc.btcStale)

HighScoreDecision(c) ==
  [decision |-> "ALLOW_MARKET", confidence |-> 100, multiplier |-> 100, status |-> "skip"]

VetoTasks == {n \in DOMAIN cyc.tasks : cyc.tasks[n].route = "LLM_VETO_REQUIRED"}

Task(c, m) ==
  [c |-> c, m |-> m, route |-> Route(c), seen |-> 0,
   veto |-> IF Route(c) = "LLM_VETO_REQUIRED" THEN "due" ELSE "none",
   decision |-> HighScoreDecision(c)]

Admitted(c, m, btc) ==
  /\ Blocks(c, m, btc) = {}
  /\ \/ Route(c) = "SKIP_LLM_HIGH_SCORE"
     \/ /\ Route(c) = "LLM_VETO_REQUIRED"
        /\ MaxCallsPerCycle > 0 => Cardinality(VetoTasks) < MaxCallsPerCycle

Gated(c, m, btc) ==
  [cyc EXCEPT !.todo = Tail(cyc.todo),
              !.tasks = IF Admitted(c, m, btc) THEN Append(cyc.tasks, Task(c, m)) ELSE cyc.tasks]

Gate ==
  /\ cyc.pc = "gate" /\ cyc.todo # <<>>
  /\ \E m \in Markets, btc \in {NotANumber, 0, Cfg.btc_crash} :
       /\ cyc' = Gated(Head(cyc.todo), m, btc)
       /\ stale' = StaleAfter(btc)
  /\ UNCHANGED <<simulator, memory, llm, resetDue, cycles, events, history>>

-----------------------------------------------------------------------------
\* The vetoes, each in its own goroutine: the budget is read before the call,
\* the cost is added after it.

SendVeto(n) ==
  /\ cyc.pc = "gate" /\ cyc.todo = <<>> /\ n \in DOMAIN cyc.tasks
  /\ cyc.tasks[n].veto = "due"
  /\ cyc' = [cyc EXCEPT !.tasks[n] = [@ EXCEPT !.veto = "sent", !.seen = spent]]
  /\ made' = IF VetoBudget > 0 /\ spent >= VetoBudget THEN made ELSE made + 1
  /\ UNCHANGED <<simulator, stale, memory, llm, resetDue, cycles, events, faulty, resting>>

\* A cancelled call is the only one that returns an error with its decision.
Outcome(seen, reply) == IF VetoFailure(seen, reply) = "CANCELED" THEN "cancelled" ELSE "answered"

ReceiveVeto(n) ==
  /\ cyc.pc = "gate" /\ cyc.todo = <<>> /\ n \in DOMAIN cyc.tasks
  /\ cyc.tasks[n].veto = "sent"
  /\ \E reply \in VetoReplies :
       /\ cyc' = [cyc EXCEPT !.tasks[n] =
                   [@ EXCEPT !.veto = Outcome(cyc.tasks[n].seen, reply),
                             !.decision = VetoRequest(cyc.tasks[n].seen, reply)]]
       /\ spent' = spent + VetoCost(cyc.tasks[n].seen, reply)
  /\ UNCHANGED <<simulator, stale, memory, usage, reviewed, resetDue, cycles, events, history>>

AllAnswered ==
  \A n \in DOMAIN cyc.tasks : cyc.tasks[n].veto \in {"none", "answered", "cancelled"}

-----------------------------------------------------------------------------
\* The risk engine and the reviewer, then the ranking.

\* The account and the snapshot with the scheduler's own post-trade state; the
\* portfolio's daily loss is left at zero.
Books ==
  [equity |-> Account.equity, balance |-> Account.balance, available |-> Account.available,
   usedMargin |-> Account.usedMargin, dailyLoss |-> 0,
   positions |-> cyc.snap, orders |-> {}, losses |-> losses,
   cooldown |-> cooldown = "running", cooling |-> cooling, executed |-> cyc.executed]

CountedInMemory(written) ==
  [today |-> IF usage.old THEN 1 ELSE usage.today + 1, old |-> FALSE, row |-> usage.row]

\* trackLLMCall: in memory, and in the stored row when that can be written.
trackLLMCall(written) ==
  [today |-> IF usage.old THEN 1 ELSE usage.today + 1, old |-> FALSE,
   row |-> IF written THEN usage.row + 1 ELSE usage.row]

ToReview(task) ==
  /\ task.decision.decision # "BLOCK"
  /\ task.m.book /\ FinitePositive(task.m.price)
  /\ ValidateReasons(task.c, task.decision, task.m, Books) = {}

\* A cancelled veto is skipped and not counted. A reduced size and a retest-only
\* entry are logged and not acted on.
Judge ==
  /\ cyc.pc = "gate" /\ cyc.todo = <<>> /\ cyc.tasks # <<>> /\ AllAnswered
  /\ LET task == Head(cyc.tasks) IN
       \E written \in IF task.veto = "answered" THEN BOOLEAN ELSE {task.veto = "none"},
          reply \in IF ToReview(task) THEN ReviewReplies ELSE {CHOOSE r \in ReviewReplies : TRUE} :
         /\ usage' = IF task.veto = "answered" THEN trackLLMCall(written) ELSE usage
         /\ faulty' = (faulty \/ ~written)
         /\ reviewed' = IF ToReview(task)
                        THEN reviewed + ReviewCost(ReviewMode, reviewed, reply) ELSE reviewed
         /\ cyc' = [cyc EXCEPT
              !.tasks = Tail(cyc.tasks),
              !.approved = IF ToReview(task) /\ Review(ReviewMode, reviewed, reply) # "REJECT"
                           THEN Append(cyc.approved, task) ELSE cyc.approved]
  /\ UNCHANGED <<simulator, stale, memory, spent, resetDue, cycles, events, made, resting>>

\* The best so many: max_new_positions_per_cycle, one fewer in a ranging market.
MaxNewPositions ==
  ComputeReduceNewPositions(
    IF Cfg.max_new_positions_per_cycle <= 0 THEN Len(cyc.approved)
                                            ELSE Cfg.max_new_positions_per_cycle,
    1, cyc.ranging)

\* A stable sort, the best score first: where an element goes depends on how
\* many are ahead of it.
Ahead(scores, i) ==
  {j \in DOMAIN scores : scores[j] > scores[i] \/ (scores[j] = scores[i] /\ j < i)}

Ranked(seq, scores) ==
  [k \in DOMAIN seq |-> seq[CHOOSE i \in DOMAIN seq : Cardinality(Ahead(scores, i)) = k - 1]]

Rank ==
  /\ cyc.pc = "gate" /\ cyc.todo = <<>> /\ cyc.tasks = <<>>
  /\ LET ranked == Ranked(cyc.approved, [n \in DOMAIN cyc.approved |-> cyc.approved[n].c.score])
     IN  cyc' = [cyc EXCEPT !.pc = "place",
                   !.approved = SubSeq(ranked, 1, Min({MaxNewPositions, Len(ranked)}))]
  /\ UNCHANGED <<simulator, stale, memory, llm, resetDue, cycles, events, history>>

-----------------------------------------------------------------------------
\* The second validation, with the same snapshot, the safety checks, the fill.

Placeable(task) ==
  LET result == ValidateCandidate(task.c, task.c.info, Books)
  IN  /\ result.approved
      /\ EvaluateExecutionSafety(result.plan, task.m, Books) = {}

Place ==
  /\ cyc.pc = "place" /\ cyc.approved # <<>>
  /\ LET task == Head(cyc.approved)
         rest == [cyc EXCEPT !.approved = Tail(cyc.approved)]
         trade == [symbol |-> task.c.symbol, side |-> task.c.side, score |-> task.c.score,
                   opened |-> cycles, notional |-> FinalNotional(task.c, task.decision, Books)]
     IN  \/ /\ Placeable(task)
            /\ trades' = trades \cup {trade}
            /\ cyc' = [rest EXCEPT !.executed = cyc.executed + 1]
         \* Refused, or the simulator could not store the trade.
         \/ cyc' = rest /\ UNCHANGED trades
  /\ UNCHANGED <<streak, stops, stale, memory, llm, resetDue, cycles, events, history>>

Finish ==
  /\ cyc.pc = "place" /\ cyc.approved = <<>>
  /\ cyc' = Idle
  /\ UNCHANGED <<simulator, stale, memory, llm, resetDue, cycles, events, history>>

-----------------------------------------------------------------------------
\* What happens around the cycle.

Event == events < MaxEvents /\ events' = events + 1

\* CheckOpenPositions, by the ticker or in the cycle: a stop or a target is hit.
Close(t, reason) ==
  /\ Event
  /\ trades' = trades \ {t}
  /\ streak' = IF reason = "sl" THEN streak + 1 ELSE 0
  /\ stops' = IF reason = "sl" THEN stops \cup {t.symbol} ELSE stops
  /\ UNCHANGED <<stale, memory, llm, resetDue, cyc, cycles, history>>

\* Time: the cooldown or a blackout runs out, a stop is an hour old, midnight.
CooldownEnds ==
  /\ Event /\ cooldown = "running" /\ cooldown' = "over"
  /\ UNCHANGED <<simulator, stale, losses, blackout, llm, resetDue, cyc, cycles, history>>

BlackoutEnds(s) ==
  /\ Event /\ blackout[s] = "running" /\ blackout' = [blackout EXCEPT ![s] = "over"]
  /\ resting' = resting \ {s}
  /\ UNCHANGED <<simulator, stale, losses, cooldown, llm, resetDue, cyc, cycles, made, faulty>>

StopAges(s) ==
  /\ Event /\ s \in stops /\ stops' = stops \ {s}
  /\ UNCHANGED <<trades, streak, stale, memory, llm, resetDue, cyc, cycles, history>>

\* The day of the usage rows is the local one, that of the reset is UTC's.
LocalMidnight ==
  /\ Event
  /\ usage' = [usage EXCEPT !.old = TRUE, !.row = 0]
  /\ made' = 0 /\ faulty' = FALSE
  /\ UNCHANGED <<simulator, stale, memory, spent, reviewed, resetDue, cyc, cycles, resting>>

UTCMidnight ==
  /\ Event /\ ~resetDue /\ resetDue' = TRUE
  /\ UNCHANGED <<simulator, stale, memory, llm, cyc, cycles, history>>

\* Trades, streak and the usage row are stored, the rest is not. The calls not
\* yet counted are lost.
Crash ==
  /\ Event
  /\ stale' = 0 /\ losses' = 0 /\ cooldown' = "none"
  /\ blackout' = [s \in Symbols |-> "none"]
  /\ usage' = [today |-> 0, old |-> TRUE, row |-> usage.row]
  /\ spent' = 0 /\ reviewed' = 0 /\ resetDue' = TRUE /\ cyc' = Idle /\ resting' = {}
  /\ faulty' = (faulty \/ \E n \in DOMAIN cyc.tasks : cyc.tasks[n].veto \in {"sent", "answered", "cancelled"})
  /\ UNCHANGED <<simulator, cycles, made>>

-----------------------------------------------------------------------------
Veto == \E n \in DOMAIN cyc.tasks : SendVeto(n) \/ ReceiveVeto(n)

Cycle ==
  \/ EndEarly \/ Screen \/ updatePostTradeState \/ CapCandidates \/ Snapshot
  \/ Gate \/ Veto \/ Judge \/ Rank \/ Place \/ Finish

Environment ==
  \/ \E t \in trades, reason \in {"sl", "tp1"} : Close(t, reason)
  \/ \E s \in Symbols : BlackoutEnds(s) \/ StopAges(s)
  \/ CooldownEnds \/ LocalMidnight \/ UTCMidnight \/ Crash

Next == Begin \/ Cycle \/ Environment

Spec == Init /\ [][Next]_vars

-----------------------------------------------------------------------------
\* Properties.

\* Type correctness: the scheduler's memory, the counters and the cycle record.
CycleTypeOK ==
  /\ streak \in Nat /\ losses \in Nat /\ stops \subseteq Symbols
  /\ stale \in 0 .. Critical /\ cooldown \in Timers /\ blackout \in [Symbols -> Timers]
  /\ usage \in [today : Nat, old : BOOLEAN, row : Nat]
  /\ spent \in Nat /\ reviewed \in Nat /\ resetDue \in BOOLEAN
  /\ cyc.pc \in {"idle", "screen", "books", "caps", "snapshot", "gate", "place"}
  /\ \A n \in DOMAIN cyc.todo : cyc.todo[n] \in Offers
  /\ \A n \in DOMAIN cyc.tasks : cyc.tasks[n].veto \in {"none", "due", "sent", "answered", "cancelled"}
  /\ made \in Nat /\ faulty \in BOOLEAN /\ resting \subseteq Symbols

\* Every check of a symbol's open trade reads the cycle's snapshot, taken before
\* the vetoes (scheduler.go:351); still no symbol ever has two open trades.
OneTradePerSymbol == \A t, u \in trades : t.symbol = u.symbol => t = u

\* A symbol that was stopped out is left alone: once a cycle has found the stop
\* among the last hour's, neither it nor a later cycle enters the symbol before
\* the blackout has run out. The stop is found after the close and the trade
\* opens after the vetoes; other trades win in between, blackouts run out while
\* their stop is still recent, and a restart forgets them until the closed trades
\* are read again. A stop hit after a cycle's reading, or never read, is not
\* promised to it.
StoppedOutRests ==
  [][\A t \in trades' \ trades : t.symbol \notin resting]_vars

\* No day sends more vetoes than max_calls_per_day, over any number of cycles
\* and restarts, unless a count was lost: a write that failed, a veto cancelled
\* by the shutdown, a restart while vetoes were out, or a restart followed by a
\* read that failed.
DayCapHolds == MaxCallsPerDay > 0 /\ ~faulty => made <= MaxCallsPerDay

\* The vetoes of a cycle are asked in parallel and each checks the budget before
\* it is charged: what the client charges between two starts exceeds the budget
\* by one cycle's calls at most. It is a bound on the counter and not on the bill:
\* a paid answer that is refused is never charged (client.go:323-349), a restart
\* forgets the charges and midnight does not, where docs/architecture.md:1007 has
\* a hard daily cap and :1344 a reset at midnight UTC.
DearestCall == Max({r.cost : r \in VetoReplies})
ChargesBounded ==
  VetoBudget > 0 /\ MaxCallsPerCycle > 0 =>
    spent <= VetoBudget - 1 + MaxCallsPerCycle * DearestCall

\* No trade opens on a fallback: whatever failed in asking for the veto, the
\* trade that opens was allowed by an answer, or its score was high enough not
\* to ask while the market did not range and BTC could be read.
NoTradeUnheard ==
  [][\A t \in trades' \ trades :
       LET task == Head(cyc.approved) IN
         \/ task.decision.status = "answered"
         \/ /\ task.decision.status = "skip" /\ t.score >= Cfg.min_score_skip_llm
            /\ ~cyc.ranging /\ ~cyc.btcStale]_vars

\* A cooldown that has run out no longer rejects candidates, when no open trade
\* is left whose win could end the streak: docs/architecture.md:1357 lets new
\* trades "Wait for cooldown expiry".
CooldownExpires ==
  cooldown = "over" /\ trades = {} =>
    \A c \in Offers : "CONSECUTIVE_LOSSES_COOLDOWN" \notin BookReasons(c, Books)
=============================================================================
