# Verification of botsurv in TLA+

botsurv is a crypto-perpetuals trading bot in Go. A scheduler screens symbols,
asks a risk engine and an LLM for a veto, and trades on paper through an
in-process broker or a trade simulator; a monitor enforces the daily loss limit.
This directory holds TLA+ models of its stateful parts, the TLC configurations
that check them on small instances, and TLAPS proofs of the results that hold
for every instance.

## 1. Inventory

State, operations, what makes the component correct, and where it stands here.
Sources are relative to `src/internal`.

| Component | State | Operations | Correct when | Here |
|---|---|---|---|---|
| Paper broker `broker/paper.go` | wallet, open positions by symbol, open orders by broker id, prices, halt flag, counters; rows of orders, positions, account_snapshots | PlaceOrder, CancelOrder, ClosePosition, EmergencyCloseAll, SetProtectiveOrders, UpdatePrice, ProcessCandle, SetHalted, ResetDailyLoss | money is conserved, margin is reserved, no position lives without its stop, what memory holds has its row | `PaperBroker` |
| Recovery `Rehydrate` | the same, rebuilt from the rows | load, validate, repair stops | a crash anywhere leaves a broker that starts, with every stop live | `BrokerRecovery` |
| Monitor `monitor/monitor.go` | none of its own: a read of the account it acts on later | Update, CheckAllPositions, checkKillSwitch | a breach of the limit ends flat and halted | `KillSwitch` |
| Paper simulator `execution/paper/simulator.go` | equity, counters; rows of trades and account | SimulateFill, CheckOpenPositions, closeTrade, CancelOpenPositions | each trade is settled once, the account adds up in memory and in the table | `PaperSimulator`, `TradeBook` |
| Scheduler `scheduler/scheduler.go` | daily date, LLM usage, staleness counter, post-trade state | RunOnce (gates, vetoes, ranking, execution loop) | one trade per symbol, caps and cooldowns hold over cycles, no gate closes for good | `SchedulerCycle` |
| Risk engine `risk/`, safety checks `execution/safety.go` | none | Validate, ValidateCandidate, hard blocks, pre-order checks | portfolio limits and sizes survive rounding | `RiskEngine`, `RiskCheck` |
| LLM veto and review `llm/`, `routing/` | daily cost | RequestVeto, Review, routing | every failure ends as the mode says, parallel calls overrun the budget by little | `LLMAdvice`, `RiskCheck`, `SchedulerCycle` |
| Market data `marketdata/` | caches, order books, connection, readiness | Start, Stop, reconnect, handlers, backfill | the book equals the exchange's, an open bar is not confirmed, calls return, nothing is saved after Stop | `MarketData` |
| Universe `universe/`, screener `screener/` | universe_symbols; the scan in progress | RefreshUniverse, add, remove, Screen | the operator's orders are honoured, rows carry the exchange's terms | `Universe` |
| BTC staleness `regime/snapshot.go` | a counter | RecordFailure, RecordSuccess | recovers when the data does | in `SchedulerCycle` |
| Strategy, indicators, scoring, regime | per-scan data | pure floating-point rules | numerics | inputs of the models |
| Shadow tracking `shadow/` | open hypothetical trades | track, close every 5 minutes | each closed once | not modelled |
| DB layer, migrations | PostgreSQL | SQL | as its callers use it | inside the modules |
| Executor, metrics, alerts, logger, config, CLI, deployment | none that matters | wiring, output, parsing | | not modelled (CLI: partly, in `Universe`) |

How they interact. `cli/run.go` builds everything and starts the goroutines: the
scheduler's loop, the simulator's five-second ticker, the counterfactual tracker,
the WebSocket loop. The scheduler calls the monitor, the monitor the broker, the
executor the broker; all of them block on the broker's one mutex, and each call
takes it anew. That is where the hard behaviour is: what another goroutine does
between two calls, map iteration in any order, several unprotected writes per
handler with a crash in between, and decisions taken on a copy of a state.

`PROJECT.json` lists the hazards one by one, with their lines and the property
that covers each.

## 2. The modules

    PaperBroker  <--EXTENDS--  KillSwitch      <--  MCKillSwitch
        ^   ^----------------  BrokerRecovery  <--  MCBrokerRecovery
        |   ^----------------  MCPaperBroker
    KillSwitch, PaperBrokerProofs  <--  KillSwitchProofs
    BrokerRecovery, PaperBrokerProofs  <--  BrokerRecoveryProofs

    RiskEngine, LLMAdvice  <--EXTENDS--  SchedulerCycle  <--  MCSchedulerCycle, SchedulerCycleProofs
                           <--EXTENDS--  RiskCheck       <--  MCRiskCheck, RiskCheckProofs

    TradeBook  <--implements (INSTANCE ... WITH)--  PaperSimulator
    PaperSimulator  <--  MCPaperSimulator, PaperSimulatorProofs
    MarketData      <--  MCMarketData, MarketDataProofs
    Universe        <--  MCUniverse, UniverseProofs

`RiskEngine` and `LLMAdvice` hold what is computed, `SchedulerCycle` when and on
which state. The cycle's view of the simulator and the broker is a reduction of
`PaperSimulator` and `PaperBroker` to what the cycle reads: the open trades and
the streak, and the positions the broker restored.

### PaperBroker

State: `positions` and `orders` are the maps `openPositions` and `openOrders` as
sets of records (an order carries `key`, the number in its name `paper-<n>`, and
`id`, its row id: the code keeps both and confuses them at times); `acct` the
wallet; `prices`, `halted`, `nextOrderID`; `marks` the addends of the cached
`unrealizedPnL`; `db` the live rows, with the serials of the next ones; `lock`
who holds `pb.mu`; `caller` the one `SetProtectiveOrders` call in progress.

Each exported method holds the mutex for its whole body and is one action, its
rejections included, since a rejected entry burns an order number. Exceptions:

- `ProcessCandle` iterates over the orders while it adds to them. It is a first
  step that takes `lock`, one `FillLimit` per order reached, in any order, and
  `FinishCandle`, which fires stops before targets.
- `EmergencyCloseAll` drops the orders and closes the positions one at a time,
  in any order.
- `SetProtectiveOrders` releases the mutex between cancelling, placing the stop,
  placing the target and linking: `BeginProtect`, `PlaceStop`, `PlaceTarget`,
  `Link`.

Internal methods (`closePositionInternalWithOrder`, `fillLimitOrder`,
`createProtectiveOrdersForPosition`, `reducePosition`) are operators from a book
to a book: `Closed`, `LimitFilled`, `Opened`, `Protection`, `Reduced`.

Money is in units of 1/DefaultLeverage of a price unit, so that margins and
profits are integers without rounding. Slippage is a constant amount and fees a
rate per unit of notional; both are proportional in the code, which no property
depends on. Floating-point rounding is not modelled.

### KillSwitch

The monitor's goroutine over the broker: a tick, then the read of the account
(`CheckKillSwitch`), `HaltBroker`, `CloseAll`, each a separate critical section
with every client of the broker in between. `CheckAllPositions` copies the open
positions and visits them with a candle, with a price, or not at all.

### BrokerRecovery

The process dies and `Rehydrate` rebuilds the book from `db`. `Restart` dies
between two handlers; `TornRestart` leaves a prefix of the last handler's writes,
using the tables it found (`before`). A market entry on a held symbol is an exit
with its snapshot and then an entry, and may be cut short in either or between
them (`Between`). The repair loop is one step per position, in any order. If a row
is invalid the start is refused.
`fresh` is history: no order was loaded under a name that the rebuilt counter has
yet to give.

### Abstractions to know of

A position's profit history, the executions table, fee and slippage totals,
alerts and logs are left out. Inserts and updates succeed, except that a crash
may cut them short. A reduce-only LIMIT and a MARKET request with a StopPrice are
not sent: nothing in the repository sends them. Protective rows are written stop
first (in the code, in map order). The snapshot's cached unrealized profit is not
restored; the next tick recomputes it.

### PaperSimulator and TradeBook

The account in memory (`mem`) and in paper_account_state (`row`), the trades in
paper_trades (`rows`), `checkMu`, and two goroutines: the five-second ticker,
which calls CheckOpenPositions, and the scheduler's cycle, which also calls
SimulateFill. `at` is where each one is, with its local variables: the trades
GetOpen returned, the trade being written, the copy of the account.
A fill is `SimulateFill` (account) then `InsertTrade`; a check is `BeginCheck`
(the mutex), `GetOpen`, one `Visit` per trade (which books the result in memory
when a level is crossed), `WriteTrade` (the UPDATE), `CopyAccount` and
`SaveAccount` (persistAccountState, which copies under the account's lock and
writes outside it). `Restart` kills the process anywhere and runs Initialize.

`TradeBook` is the promise: a trade is opened once, settled once, its result is
not revised, and the profit moves by that result. `TradesSettledOnce` maps a
trade to its row and the profit to the realized one less what is booked but not
written yet. After a crash in that gap the memory's profit is the row's: the
mapping starts again from what each session found.

Left out: excursions (MFE, MAE), reports, logs. Prices are the same for all
trades; slippage is a constant.

### SchedulerCycle, RiskEngine, LLMAdvice, RiskCheck

`RiskEngine` is the arithmetic of hard_blocks.go, block_evaluator.go, engine.go,
the pre-order checks of safety.go, and routing.go, as operators on integers: the
reasons a candidate is refused for, and the plan that is sized, rounded to ticks
and lots, and sized again. `LLMAdvice` is one call of the veto and of the
reviewer: the budget, three attempts, the decoding, the chain of checks on the
answer, the fallback. Of a review the code looks at the text of the last attempt
whatever that attempt was, and only then at what was found wrong with it
(reviewer.go:207, :217); so does the model. `RiskCheck` puts one question to each: a candidate, a
symbol's info and an account to the second validation, a reply in a mode to the
reviewer; its properties compute what a plan must satisfy without the operators
that built it.

`SchedulerCycle` is RunOnce in paper mode, one action per stage that reads or
writes something others may change: `Begin` (daily reset), `Screen`,
`updatePostTradeState`, `CapCandidates`, `Snapshot` (positions and account, read
once), `Gate` (hard blocks and routing, all candidates), `SendVeto` and
`ReceiveVeto` for each parallel call, `Judge` (risk engine and reviewer), `Rank`,
`Place` for each approved plan, `Finish`. Around it, at any moment, a trade
closes, a cooldown or blackout runs out, a stop ages past the hour, the local and the UTC midnight pass, the
process crashes. The kill switch does not fire: in paper mode nothing asks the
monitor to evaluate it (scheduler.go:309) and nothing prices the broker's restored
positions. Timers are none, running or over; the account's figures do not
move, and the portfolio's daily loss is 0 (scheduler.go:713-720). Ties between scores keep their order in the ranking, which is stable, and
may end either way round in `applyLLMCaps`, whose exchange sort is not. Shadow mode, cycle rows, decision logs and counterfactual tracking are left
out: nothing reads them back.

### MarketData

One symbol, one timeframe. Time is the number of the bar the exchange builds;
the order book's contents are the moment `n` they belong to, or a `Mixture`.
`runner[g]` is the goroutine of the g-th Start: backfill (`Ask`, `Reply`,
`AskAgain`, `BackfillFails`, `InsertFails`), the report to Start (`Report`), then
the WebSocket loop (`Dial`, `Subscribe`, `Dispatch`, `Disconnect`), which looks at
the context of the latest Start, as the code does. The last half second of a bar
is a moment of its own (`exchange.ending`): the backfill's clock may confirm the
bar in it. `WarmCache` puts the rows of a backfill into the cache, after it has
saved them. Stop returns at once when the service is not running (`StopAtOnce`),
as it is not after a Start that failed; else it cancels and waits (`BeginStop`,
`StopReturns`). `wire[g]` is what its
connection has not read yet. A candle is none, open, early (confirmed by the
backfill's clock) or final. GetCandles falls through cache, table and REST.

### Universe

The table universe_symbols and its two writers: the bot, which refreshes it in
every cycle (`Scan`, `GetAll`, one `InsertOrUpdate` per symbol) and then screens
it (`GetUniverse`, `evaluateSymbol` one by one in name order), and the command
line's add, remove and refresh (read a row, write it back). A symbol's terms (tick
size, lot size) are a version number, 0 in the blank record that add and remove
make up. A failing call or a crash may come anywhere. Of a symbol's market data
only what evaluateSymbol distinguishes is left: which series is unfit, the reward
of each setup, the score, what the book looks like, whether it is worth its cost.
`wish` is history: what the operator last asked for each symbol.

## 3. The runs

| Run | Module | Properties | Shows |
|---|---|---|---|
| `broker_api` | PaperBroker | `TypeOK`, `LedgerBalanced`, `MarginCovered`, `StopOnLossSide`, `EveryLossCounted` | over all nine client operations, in any order and with SetProtectiveOrders interleaved: the wallet moves by entry fees and realized profits only, the reserve covers the open positions, no interleaving links a stop on the profitable side, each realized loss enters the daily loss in full |
| `kill_switch` | KillSwitch | `MonitorTypeOK`, `FlatAfterKill`, `NoNakedPosition`, `NothingForgotten`, `BreachEndsFlat` | whatever clients do between the monitor's calls, a breach that was seen ends flat (liveness), no position and no pending entry survives the switch, every position has its stop, every order and position the broker knows its row |
| `recovery` | BrokerRecovery | `RecoveryTypeOK`, `StopSurvivesRestart`, `NeverRefused`, `CleanRestart` | a restart between calls is invisible; one between two writes, those of a replacement included, ends with a broker that starts and stops for every position |
| `simulator` | PaperSimulator | `TypeOK`, `EquityAddsUp`, `CountedOnce`, `LevelsNearPlan`, `TradesSettledOnce`, `StopsAreReached` | it implements `TradeBook`; the account adds up in memory and in the table after any failure and crash; no trade is counted twice; however far the fill slipped, a trade risks and gains what its plan does, give or take half a percent of the price; a trade whose stop the price has passed for good is closed (liveness) |
| `decisions` | RiskCheck | `LossWithinRisk`, `LevelsSurviveRounding`, `ValueBounded`, `ReviewFailsSafe` | an approved plan loses at its stop at most the granted risk and half a lot, keeps its levels through the rounding, and, though it is sized again after the margin was checked, is worth no more than the risk over the least stop and half a lot; a review that was not heard falls back as its mode says, and a sound REJECT rejects |
| `cycle` | SchedulerCycle | `CycleTypeOK`, `OneTradePerSymbol`, `DayCapHolds`, `ChargesBounded`, `StoppedOutRests`, `NoTradeUnheard` | one trade per symbol although every check reads a stale snapshot; no day exceeds its veto calls; what parallel calls are charged exceeds the budget by one cycle's worth at most; a symbol whose stop a cycle has found is not entered before its blackout has run out; no trade opens on a fallback |
| `market_data` | MarketData | `TypeOK`, `BookAgrees`, `ConfirmedIsOver`, `StopMeansStopped`, `CallsReturn`, `NothingSavedAfterStop` | the order book is that of one moment, and of now once the reader caught up; no bar counts as confirmed before the last half second of it; after a Stop that waited nothing runs, and after one that returned at once only goroutines of failed Starts, cancelled; neither saves a candle any more; every Start and Stop returns (liveness) |
| `universe` | Universe | `UniverseTypeOK`, `OrdersHonoured`, `TermsHeal` | a forced symbol is judged by every later screen and a removed one by none until a scan returns it; once things are quiet every scanned row carries the exchange's terms (liveness) |

All runs may stop where a bound ends the behaviour, hence `CHECK_DEADLOCK FALSE`,
except the universe's, whose bot never does.

### Bounds

*The broker's runs.* Two prices, 10 and 20, slippage 1 and a taker fee of 1, so
that a long entered at 11 or 21 can have its stop below, its target above, win,
lose, and be refused for a stop on the wrong side. Leverage 2. One symbol:
positions of two symbols share only the wallet, and the theorems cover any number.
`MaxOrderID` ends a behaviour: no client call is made once that many numbers are
used, although ticks, candles, triggers and repairs go on. Three numbers admit an
entry with stop and target, its replacement (an exit, an entry, two protective
orders: client calls stop at 3, the numbers they take do not) and a limit order
racing either; quantity 2 with reductions 1 and 2 gives a partial and a full
reduction. Four numbers in `recovery` admit an entry, a close or replacement, and
a rejected order; with two restarts, torn or not, a handler of the second process
works on what the first one's half-written handler left. The halt is left to the
theorems. Names
given twice matter between two symbols: `name_reuse` has two and one price. `broker_api` uses a VIEW without `marks`, which none of its
properties or guards reads.

*`simulator`.* Prices in cents around 100 dollars, five basis points of slippage
and fee; a long with both levels and its stop 0.3% away, a short without a target
and its stop 0.5% away, the least priceAwareMinSLPct lets through. The three
prices fill a plan nearly where it was made, within half a percent (stop and target
stay, and may end up on the wrong side of the fill) and beyond it (they move). Two trades, so that one is open while another is filled or closed,
and one restart, at any step. GetOpen, INSERT and the account's write may fail at
any time. The UPDATE of a closed trade may not (`"close"` is not among the
`Faults`): see the divergences below.

*`decisions`.* A grid of prices and distances chosen around ticks of 3 and 10 and
lots of 1 and 20, both sides, full and reduced size, with and without the two
BTC adjustments; accounts rich, poor and empty, with positions of either side,
after three losses, in a blackout; replies with every outcome of each attempt.
A behaviour is one question and its answer.

*`cycle`.* Three candidates (one above the score that skips the veto, one above the
score that overrides limits, one below both), of which two are offered at a time,
one position the broker restored, two cycles and two events around them: enough
for a stop inside a cycle and its blackout running out before the next one ends,
for both midnights, or for a crash and a cycle after it. Two calls a cycle and a
day, a budget of 3 at a cost of 2. The theorems set no bound on events.

*`market_data`.* Two Starts, three bars, three book updates, frames two deep on a
connection, one retry, and one of: a lost connection, a missed backfill, a Start
that times out. Failed inserts, repeated deltas and an exchange that numbers its
updates again are not limited. `BookAgrees` says nothing once a Start has timed
out at the moment its backfill ended: its loop goes on under the next Start's
context and two readers write one book.

*`universe`.* Two symbols, of which one is forced by the configuration and the
light scan has room for one; two commands, one change at the exchange, one fault
(a failed call or a crash), and a dozen kinds of market data.

### Fairness

*`kill_switch`*: the goroutine holding the mutex goes on (weak), and a goroutine
blocked on it gets it at last (strong: Go's `sync.RWMutex` hands over to starved
waiters). The scheduler's cycle calls `CheckAllPositions` over and over. Nothing
is assumed of clients, prices, or that ticks arrive.

*`simulator`*: a goroutine's next step comes (weak: each is a database call with
an end, or memory), the ticker's turn at `checkMu` comes (strong: `sync.Mutex`
hands over to starved waiters), and not every read of the open trades by the
ticker fails (strong). Nothing of the cycle, of prices, or of crashes.

*`market_data`*: the steps of the goroutines come (weak: requests have timeouts,
reads a deadline, the backoff an end, every select looks at the context; saving
the rows of a backfill and putting them into the cache wait for nobody). Nothing
of the exchange, of callers, or that a connection stays up.

*`universe`*: the bot keeps refreshing and screening (weak: the scheduler's loop;
the early return of a halted bot, scheduler.go:236, does not occur in paper mode).
Nothing of the operator or the exchange.

`broker_api`, `recovery`, `decisions` and `cycle` have no liveness property and no
fairness.

### Where the code and its documents disagree

Each of these runs checks one statement of the repository and TLC refutes it.

| Run | Statement | What happens |
|---|---|---|
| `endless_cooldown` | "Wait for cooldown expiry" (architecture.md:1357) | the streak rejects candidates by itself; with no trade open nothing can end it, and it is stored |
| `candle_hole` | "Auto-reconnect + resubscribe + backfill" (architecture.md:851, :1339) | the reconnect fetches nothing: a bar that closed meanwhile stays unconfirmed |
| `removal_stands` | "blacklist symbol" (architecture.md:978) | the bot's next refresh takes the symbol off the blacklist |
| `name_reuse` | "Broker must guarantee no position exists without SL" (broker.go:19) | refused requests use up order numbers without a row, so the counter Rehydrate rebuilds from the rows is behind the names of the orders it loads; the next entry's stop is given the name of another symbol's stop and replaces it |

`endless_cooldown`, `removal_stands` and `name_reuse` are safety properties; `candle_hole` is
checked under the fairness above, for connections that stay up at last.

### Divergences the models reproduce, without a run

The models contain these behaviours; no run states a property against them. They
are what the assumptions of the properties above are for.

- A reduce-only market order whose position was stopped out opens a new one, with
  no stop, against "no position exists without SL" (broker.go:19). Hence
  `NoNakedPosition` for clients that do not reduce; no production caller does.
- A limit fill overwrites an open position without looking, and the old one's
  margin stays reserved for ever (`MarginCovered` is an inequality).
- The tick marks, then stops out: the same loss is counted as realized and as
  unrealized, and the switch fires below the limit (monitor.go:71).
- The candle path never evaluates the limit; `BreachEndsFlat` starts from a breach
  that was seen.
- EmergencyCloseAll leaves the rows of the orders pending, and they come back after
  a restart; `CleanRestart` is checked without it.
- hasOpenStopOrderLocked takes any stop of the symbol for the position's own. One
  handler cut short by a crash may orphan a stop row; a second one can leave a
  position whose own stop is missing, and the orphan then passes for it. Hence
  `torn <= 1` in `StopSurvivesRestart`.
- A trade that survives a restart of the simulator is closed without being counted
  as won or lost.
- closeTrade books the profit before the UPDATE: when that fails the trade stays
  open and is closed and booked again.
- The second quantity of a plan may round to zero, and the plan is still approved
  (engine.go:661); its margin may exceed the 95 percent of the balance that were
  checked of the first one (engine.go:645). `ValueBounded` says what bounds it.
- A valid reviewer's answer in lower case, "reject", approves: the validator
  compares with EqualFold (validator.go:83), the switch exactly (reviewer.go:277),
  where reviewer.go:120 says that a veto can REJECT. And an answer the client
  has marked as invalid, but called, is validated again and may be acted on
  (reviewer.go:207, :217).
- A fill within half a percent of the plan moves neither level: for a plan whose
  stop is 0.3 to 0.5 percent away (setup.go:456) the stop may lie on the wrong
  side of the fill, and the next check closes the trade there.
- "max_open_positions ... Prevent overconcentration" (architecture.md:1049) is a
  comparison with the snapshot of the cycle's beginning, which never counts the
  cycle's own trades, and a confidence or a score of 85 overrides it. "Before each
  approval, simulate portfolio state and check all constraints", else
  `PORTFOLIO_RISK_LIMIT` (:1063-1065): the code does not, so that exposure and
  direction limits are passed by the cycle's own trades too.
- `max_cost_usd_per_day` is a "Hard daily budget cap" (architecture.md:1007), "Reset
  at midnight UTC" (:1344). The client charges no answer that it refuses although it
  was paid (client.go:323-349), a restart forgets what was charged, and midnight does
  not reset it: a bot that runs for days stays blocked once the sum has reached the
  cap. `ChargesBounded` speaks of what is charged between two starts.
- On the daily loss "close positions, halt new entries" (architecture.md:1349): in
  paper mode the cycle skips the monitor (scheduler.go:309), so the broker's
  kill switch is never evaluated, and the portfolio's daily loss stays 0.
- "A candidate is eligible for LLM if ALL of the following are true"
  (architecture.md:990-999), spread, depth and RR among them; one whose
  order book is missing skips these checks and stays eligible on its score
  (screener.go:705-708).
- A stop that is hit between updatePostTradeState's reading of the closed trades and
  the snapshot of the open ones (scheduler.go:339-365) is in neither, and the symbol
  may be entered again in the same cycle. `StoppedOutRests` starts from a stop that
  a cycle has found.
- A count of veto calls is lost by a failed write, by a shutdown that cancels a call
  under way, or by a restart while calls are out; `DayCapHolds` excuses these
  (`faulty`).
- "confirmed: true when candle closed" (architecture.md:241): the backfill's half
  second of slack (backfill.go:165) confirms a bar that is still open.
- Stop returns at once when the service is not running (bybit_ws.go:236), as after a
  Start that failed or timed out: a goroutine of that Start may still run when
  cleanup goes on to close the database, but it saves nothing any more.
- BTC staleness once critical is never reset, since the gate returns before the
  only read that could reset it (scheduler.go:262): a restart ends it.

## 4. The proofs

Each theorem is about the specification TLC runs, for every value of the
constants. The last column names what it assumes beyond the module's named
assumptions (`BrokerAssumption`, `CycleAssumption`...), which say that numbers are
naturals where the code has non-negative ones, that sets are finite, and what the
configuration's loader enforces.

| Theorem | Module | States | For |
|---|---|---|---|
| `TypeCorrect` | PaperBrokerProofs | `[]TypeOK` | |
| `WalletBalances` | PaperBrokerProofs | `[]LedgerBalanced` | |
| `LossesCounted` | PaperBrokerProofs | `EveryLossCounted` | |
| `BookIsSaved` | PaperBrokerProofs | `[]NothingForgotten`, an inclusion: more rows may be live | clients that neither reduce nor call SetProtectiveOrders |
| `MarginIsCovered` | PaperBrokerProofs | `[]MarginCovered` | all clients |
| `AlwaysGuarded` | PaperBrokerProofs | `[]NoNakedPosition` | clients that never reduce, cancel a single order, or call SetProtectiveOrders |
| `StopsOnLossSide` | PaperBrokerProofs | `[]StopOnLossSide` | all clients |
| `MonitorTypeCorrect` | KillSwitchProofs | `[]MonitorTypeOK` | |
| `FlatOnceKilled` | KillSwitchProofs | `[]FlatAfterKill` | clients that do not reduce |
| `GuardedUnderMonitor` | KillSwitchProofs | `[]NoNakedPosition` | as `AlwaysGuarded` |
| `SavedUnderMonitor` | KillSwitchProofs | `[]NothingForgotten` | as `BookIsSaved` |
| `RecoveryTypeCorrect` | BrokerRecoveryProofs | `[]RecoveryTypeOK` | all clients |
| `StartNeverRefused` | BrokerRecoveryProofs | `[]NeverRefused` | clients that do not reduce |
| `StopsOutliveRestarts` | BrokerRecoveryProofs | `[]StopSurvivesRestart`: up to the first torn handler, and while no order was loaded under a name yet to be given | clients that place market entries, close, halt and reset |
| `CleanRestartInvisible` | BrokerRecoveryProofs | `CleanRestart`: while no order was loaded under a name yet to be given | clients that place market entries, close and halt |
| `TypeCorrect` | PaperSimulatorProofs | `[]TypeOK` | |
| `AccountsAddUp` | PaperSimulatorProofs | `[]EquityAddsUp` | any faults |
| `TradesAreSettledOnce` | PaperSimulatorProofs | `TradesSettledOnce`, the refinement of `TradeBook` | an UPDATE of a closed trade that does not fail |
| `TradesCountedOnce` | PaperSimulatorProofs | `[]CountedOnce` | the same |
| `LevelsStayNearPlan` | PaperSimulatorProofs | `[]LevelsNearPlan` | plans whose stop is not ahead of their entry, nor their target behind it |
| `LossStaysWithinRisk` | RiskCheckProofs | `[]LossWithinRisk` | |
| `LevelsStand` | RiskCheckProofs | `[]LevelsSurviveRounding` | a `min_rr` of 1 or more (1.4 unless set), targets that keep the ratio their candidate states |
| `ValuesAreBounded` | RiskCheckProofs | `[]ValueBounded` | |
| `ReviewsFailSafe` | RiskCheckProofs | `[]ReviewFailsSafe` | |
| `TypeCorrect` | SchedulerCycleProofs | `[]CycleTypeOK` | |
| `OneTrade` | SchedulerCycleProofs | `[]OneTradePerSymbol` | |
| `DayCap` | SchedulerCycleProofs | `[]DayCapHolds` | |
| `ChargesAreBounded` | SchedulerCycleProofs | `[]ChargesBounded` | |
| `StoppedOutRest` | SchedulerCycleProofs | `StoppedOutRests` | |
| `TradesAreHeard` | SchedulerCycleProofs | `NoTradeUnheard` | |
| `TypeCorrect` | MarketDataProofs | `[]TypeOK` | |
| `StopIsFinal` | MarketDataProofs | `[]StopMeansStopped` | |
| `StoppedSavesNothing` | MarketDataProofs | `NothingSavedAfterStop` | |
| `ConfirmedIsFinal` | MarketDataProofs | `[]ConfirmedIsOver` | |
| `BookIsTheExchanges` | MarketDataProofs | `[]BookAgrees` | |
| `TypeCorrect` | UniverseProofs | `[]UniverseTypeOK` | |
| `OrdersAreHonoured` | UniverseProofs | `[]OrdersHonoured` | |

None of these properties is inductive as it stands. What each proof adds:

*Broker types.* Operator by operator: each helper maps a typed book to a typed
book (`ClosedType`, `OpenedType`, `LimitFilledType`...), so each handler does.

*The ledger.* Every account change of a step is a chain of at most two elementary
moves, an entry fee or a realized profit. `NextMoves` shows that of each handler;
both theorems follow from the shape of a move.

*The reserve.* `MarginInv` adds to `MarginCovered` that the positions are finitely
many and one per symbol. The sum of the margins is a recursive function on sets;
its two laws, that it is a number and that any element may be taken off, are
shown for all finite sets with least numbers (`ReservedAdds`). Each handler then
moves reserve and sum by the same amount, except a limit fill on a held symbol,
which leaves the replaced margin in the reserve.

*The stop is there.* `GuardInv`: orders are numbered below `nextOrderID`, each
with a number of its own (or a new order would overwrite another position's stop
in the map), pending limit orders ask for a stop (or a fill would open a position
without one), and no `SetProtectiveOrders` call is under way. During an
`EmergencyCloseAll` the stops are gone before the positions, and the invariant
says nothing until it ends. The assumption on the clients is needed: a
reduce-only order sent for a position that its stop closes first opens a naked
one, and both other calls remove stops by design.

*The stop is on the right side.* `StopInv` ties the copy of the position that a
`SetProtectiveOrders` call holds across its unlocked gaps to what became of it:
its row number is used up, its entry and side are those of the position with that
row, if that is still open, and the stop asked for is on the losing side of that
entry. A re-entry of the symbol has another row number, so the late link does
not reach it. No assumption on the clients.

*Nothing forgotten.* `SavedInv`: every order and position in memory has its row,
rows carry numbers of their own below the next one, and no
`SetProtectiveOrders` call is under way. A partial reduction and a link change a
position in memory that its row keeps as it was, hence the clients. The converse
does not hold: rows of orders an emergency close dropped stay live.

*The kill switch.* Every step of the monitor is a step of the broker or one that
only sets the halt flag, so what is proved of the broker carries over.
`KillInv`: once halted, and outside the moment between the two calls, no limit
order pends, and positions are left only while `EmergencyCloseAll` is closing
them.

*The start.* `VetInv`: rows are numbered below the next one, and no position, in
memory or in its row, is without a stop on its losing side, nor is a pending limit
order without a stop price. A handler writes such rows only, and what it has
written half way is made of rows of before and after (`PartlyWritten`, `TornVetted`), so
validatePositionStopLoss passes. A reduce-only order that opens a position writes
one without a stop, hence the clients.

*The restart.* `KeptInv`. While no handler was torn, the tables are the book
(`Mirror`, `Clean`): every live row of an order belongs to an open position, and the
snapshot is the account, its reserve the sum Rehydrate computes; every handler
keeps this (`NextAdvances`), and it is all `CleanRestart` needs. For the first torn
handler the invariant also remembers the tables it found: they were clean, and the
orders it added are of symbols that had no position (`NewElsewhere`); a handler that
replaced a position left clean tables between its exit and its entry, and each half
is such a step (`Orderly`). So a stop that hasOpenStopOrderLocked finds in what is
left is the position's own (`StopsAreOwn`), and where it finds none the repair adds
one (`RepairedKeeps`). A second torn handler breaks this, as section 3 says. Clients
with limit orders are left out: a fill replaces a position without retiring the
rows of its orders. The run's clients are among those of the theorems.

*The simulator's account.* `BalanceInv`: not only the memory and the row but every
copy on its way to the table is balanced, for a copy is taken under the lock and
written without it.

*The refinement.* `BookInv` says at which step of which goroutine a trade has been
booked in memory and not yet written, and that it is one at a time because the
goroutine holds `checkMu`; then every step maps to one of `TradeBook` or to a
stutter. Were the UPDATE to fail, the trade would be open and booked: the
assumption is the divergence of section 3.

*Counted once.* `CountInv`: of the trades opened, as many as are open and not yet
booked still fit between the counts of wins and losses and the total. A crash
loses counts, a stale copy takes them back, neither adds one.

*The levels of a trade.* SimulateFill moves stop and target when the fill slips
more than half a percent and leaves them otherwise, in which case they are off by
the slip; `StopInv` keeps the row under way in the invariant, and a row the ticker
has in hand is one that is closed already.

*A plan.* `DecisionInv` only says that an answer is the one to its question; the
rest is arithmetic, on any integers. Rounding to a lot is off by half a lot at most
(`RoundIs`), so the quantity risks at most the share and half a lot
(`QtyWithinRisk`); the share the code computes with a truncation per modifier is at
most the one computed at once (`RiskWithinGrant`); prices a tick apart stay a tick
apart (`RoundApart`), which a target is by its ratio; the stop is checked again
after the rounding. The stop is also what bounds the plan's value: it stays 0.3
percent away, and the quantity was computed from it. Nothing a chain of early returns skipped held
(`HitsNone`, `NoFailure`), which is what an empty set of reasons means.

*A review.* Every way a call can fail leaves it unanswered (`CallFails`), the
attempt that counts is good only if those before it were repeated
(`HeardAttempt`), and an answer with a part missing, an unknown action or a
multiplier out of range is refused somewhere in the chain (`AnswerInvalid`).

*The cycle.* `CycleInv` types the candidates, tasks and approved plans of each
stage. `HeardInv` is what a task has met on its way, so that an approved one that
was not heard had a score high enough not to be asked about. `Distinct`: no two
candidates at hand, in whatever stage, share a symbol. `BooksInv`: until the first
order every open trade is in the snapshot, no candidate past the gate is in it, and
trades and positions number at most the snapshot and what the cycle has executed:
closing a trade meanwhile only helps. From these, one trade per symbol. `RestInv`: a
symbol that rests has a running blackout, and none that rests is among the
candidates past the gate, for a cycle reads its blackouts before its gate.
`DayInv`: the calls sent are in the stored row or are tasks not yet
counted, and together with those to come they fit the day's cap. `SpendInv`
reserves the dearest reply for each call under way that saw the budget unspent.
That max_new_positions_per_cycle is positive is config.go:787.

*Market data.* For the book, as long as no Start gave up: only the latest Start's
goroutine is alive (`OneReader`), and the frames on its connection, read in order,
lead from the book at hand to the exchange's present one through states that are
each of one moment (`Leads` in `BookInv`). For candles, a confirmed frame on a
connection is of a bar that is over (`WireOver`), and the rows a backfill carries to
the cache are of bars that are over or were in their last half second when its
reply was read (`RowsOver`). For `Stop`, the
service's current Start is one that was made (`Called`), the goroutines at work are
those of failed Starts, cancelled, and the one of a running service (`Failing`),
and once Stop has returned the service is down and no cycle reads it (`Down`).

*Universe.* `TableInv`: the table and every copy of its rows under way are well
formed. `TableOrders`: a symbol last added is in the table and not blacklisted; one
last removed is blacklisted and in no refresh's hands; no row under way is
blacklisted, and no forced one is. `ScreenOrders`: a running screen judges every
symbol that was added before it read the table, and none that was removed.

*Operators.* What the models' functions on sequences and sets keep is stated in
lemmas: what `Kept` filters, what `Ranked` permutes (how many are ahead of an
element is different for each), how `Count` changes with an append, a tail or an
update. Where such a fact needs induction it goes over a set of numbers in place
of a predicate (`Induction` in UniverseProofs, minima in SchedulerCycleProofs),
since the library's induction theorems take a predicate as a parameter, which
the provers cannot instantiate. `Universe` filters with the recursive function
`Kept` and `SchedulerCycle` sorts with `Ranked` for the same reason: the built-in
SelectSeq and SortSeq have no definition a prover could expand.

*Model-checked only.* The liveness properties (`BreachEndsFlat`,
`StopsAreReached`, `CallsReturn`, `TermsHeal`): fairness and ENABLED are beyond
the provers.

## 5. Not modelled, and why

- Shadow mode and the counterfactual tracker, cycle rows, decision logs, reports,
  metrics, alerts: written and never read back to decide anything.
- The values of indicators, strategies, scores and regimes: floating-point rules
  over candles. Their verdicts are inputs of `Universe` and `SchedulerCycle`.
- Code no production caller reaches: FilterQuality and the external watchlist,
  RankAndSelectPortfolio, PrioritizeCandidates, EvaluateOrderTimeout,
  EvaluatePartialFill, EstimateSlippageFromOrderbook, CleanExpiredSLCooldowns,
  ParseVetoResponse, Executor.Execute, UpdateBTCPrice and SetEmergencyStop.
- The contexts handed to the model and its skip when there is none; prompt texts
  and JSON syntax (a body that can or cannot be decoded).
- Trades, tickers and funding of the market data; the subscription of the
  universe's symbols (a symbol that joins after the start is never subscribed and
  its cached bars grow stale).
- The broker's executions table, fee and slippage totals, closed positions; a
  failing INSERT of the broker; reduce-only LIMIT orders.
- Configuration, wiring, deployment, the executor (which only logs): no state.
- Floating-point rounding, everywhere.

## 6. What is left

1. Proofs: the recovery for clients with limit orders.
2. An abstract `Broker` (positions with stops, a wallet) that `PaperBroker`
   implements for the clients of `AlwaysGuarded`.
3. Liveness of a whole cycle, the BTC staleness gate among it; two symbols and
   their subscription in `MarketData`.

## 7. Running it

    tlc -workers 2 -config MCPaperBroker.cfg MCPaperBroker.tla
    tlapm KillSwitchProofs.tla          (and the other modules named *Proofs)

Every `MC<Module>.cfg` goes with the module of that name; EndlessCooldown.cfg with MCSchedulerCycle, CandleHole.cfg with MCMarketData,
RemovalStands.cfg with MCUniverse, NameReuse.cfg with
MCBrokerRecovery. The longest run, `cycle`, takes about three
minutes.
