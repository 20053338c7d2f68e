# wbot: specifications, model checking and proofs

wbot is a trading workbench in one Go binary.  Its core is the way of a trading
signal from the strategy that finds it to the broker order that a person
releases for it; around it are the research side (backtests, parameter search,
reports) and the services both rest on (ingestion, data checks, watchlist,
configuration, registry, migrations).  This directory specifies them in TLA+:
every module is translated from the code, TLC checks it on small instances, and
TLAPS proves most of what those runs check of safety for every value of the constants:
the order path and that it implements its abstract specification, the push loop, the
audit queue, the rows of the language model, the gateway client, the books of a
backtest, the reports and the search of the research side, and the services.

## The system

| Part | State it keeps | Operations | Talks to |
|---|---|---|---|
| wheel runner (`internal/wheelrun/runner.go`) | suppression baseline, in-flight set, review queue (all in memory, `reviewMu`) | `RunOnce`, `runSymbol`, `enqueueReview`, `Close` | quotes and positions of the broker, `wheel.Evaluate`, the store, the review workers |
| LLM audit (`internal/llmreview`, `reviewWorker`) | none of its own | `RecordLLMGate`, one retry | model over HTTP, action log |
| LLM strategy (`internal/llmstrategy`, `internal/llmsignal`) | none of its own | `RunOnce`, `Submit` | store, model, market |
| signal store (`internal/wheelstore`, PostgreSQL) | `wheel_signals`, append-only `wheel_signal_actions`, `wheel_order_claims`, `wheel_dismissals` | `AppendSignal`, `AppendAction`, `ClaimOrder`, `CompleteOrderClaim`, queries | everyone |
| push loops (`runPush`, `runDiscordPush`) | cursor, handled set, chats already served, alert cooldown (in memory) | one pass per tick | store, Telegram, Discord |
| order confirmation (`confirmOrder`, `declineOrder`, `watchFill` and the Discord copies) | one goroutine per press, `confirmMu` for Discord | yes, no, fill watch | store, broker |
| broker client (`internal/futu`) | shared connection and its leases, rate limiter, cache of Greeks | `PlaceOrder`, `CancelOrder`, `OrderStatus`, quotes | Futu OpenD |
| market data of a pass (`wheelrun/positions.go`, `quote_collection.go`, `atm_expansion.go`, `snapshot_recorder.go`) | quotes of the pass, bounded snapshot channel | attribute positions, choose contracts, quote them, record them | broker client, store |
| watchlist and parameters (`internal/watchlist`, `internal/strategy`) | `watchlist`, append-only `wheel_configs` | `Upsert`, `Delete`, `ParseConfig`, `CanonicalParams` | HTTP API, runner |
| schedulers (`cmd/wbot/*_scheduler.go`, `internal/datacheck`) | timers | start the above, daily check and repair | ingestion, chat |
| backtest (`internal/backtest*`) | cash, positions, sessions, report files, strategy cache, push marker | replay of history, search over parameters, report, approval, push | ingested data, Discord |
| ingestion (`internal/ingest`) | `bars`, `option_quotes`, `ingestion_runs` | backfills | HKEX, Tencent, Futu |
| configuration, migrations, registry | `wbot.conf`, `schema_migrations`, the master's memory | `Set`, `MigrateUp`, `Register` | |
| HTTP API, web interface | a mutex for backtests | handlers | everything above |

What makes it hard.  The parts above run as goroutines of one process and share
only the store, a few mutexes and the broker's order book.  A press of a button
is answered by a goroutine of its own; a signal is audited by a worker while the
push loop polls for the outcome and the next pass finds the same contract again;
the broker, the chat platforms and the model answer late, twice or not at all;
and the process may stop between any two of these steps, keeping the database
and the order book and losing the rest.

What has to hold.  One signal, one owner of its orders; nothing ordered without a
durable claim; nothing replaced before its cancel was accepted; only what the
broker did is recorded; only approved signals become cards, each once per chat
and none lost; every audit ends, and ends with at most one verdict.  A decision
rests on positions of its own symbol and on quotes of its own time; what is stored
is final, complete and never lost to a repeat; what a person saved is what the
strategy does; a result does not depend on chunks, workers or the order in which
they end; what is approved was evidenced, and what is marked as sent was sent.

## Modules

| Module | Models | Run by |
|---|---|---|
| `SignalLife` | what confirming a card promises: the abstract specification | implemented by `OrderConfirm` |
| `OrderConfirm` | from a button to the end of the broker order | `MCOrderConfirm` |
| `OrderConfirmProofs` | theorems about `OrderConfirm` | tlapm |
| `PushLoop` | from the store to the cards | `MCPushLoop` |
| `PushLoopProofs` | theorems about `PushLoop` | tlapm |
| `ReviewQueue` | from a decision to its audit | `MCWheelRunner` |
| `LivePass` | positions, contracts and quotes of one live evaluation | `MCWheelRunner` |
| `SnapshotRecorder` | the side channel that stores those quotes | `MCWheelRunner` |
| `WheelRunnerProofs` | theorems about `ReviewQueue`, `LivePass` and `SnapshotRecorder` | tlapm |
| `LLMSignal` | from a decision of the language model to its row | `MCLLMSignal` |
| `LLMSignalProofs` | theorems about `LLMSignal` | tlapm |
| `AgentPass` | a pass over the llm bindings, and the conversation behind a decision | `MCServices` |
| `RateLimit` | the pool every gateway request passes | `MCFutuClient` |
| `TradeConn` | the connection all trade operations share | `MCFutuClient` |
| `FutuClientProofs` | theorems about `RateLimit` and `TradeConn` | tlapm |
| `WheelDecision` | the decision of the wheel strategy, as operators | extended by `BacktestSession` |
| `BacktestSession` | a replay of that strategy: settlement, expiry, ledger | `MCResearch` |
| `BacktestSessionProofs` | theorems about `BacktestSession` | tlapm |
| `ChunkedRun` | a database-backed backtest, read at once or in chunks | `MCResearch` |
| `ParallelMap` | the pool that evaluates a generation | `MCResearch` |
| `EvolutionSearch` | the search over parameters and its choice of a group | `MCResearch` |
| `BacktestApi` | `POST /v1/backtests` | `MCResearch` |
| `ReportFlow` | gates, files, cache, approval and push of a report | `MCResearch` |
| `ResearchProofs` | theorems about the five modules above | tlapm |
| `HkexBackfill`, `TencentBackfill` | the ingest commands | `MCServices` |
| `DataCheck` | the daily jobs | `MCServices` |
| `Watchlist` | the watchlist and its configurations | `MCServices` |
| `StrategyConfig` | wheel parameters at the persistence boundary | `MCServices` |
| `Registry` | agents registering with the master | `MCServices` |
| `ConfigStore` | the configuration file | `MCServices` |
| `Migrations` | `MigrateUp` | `MCServices` |
| `ServicesProofs` | theorems about the services above and about `AgentPass` | tlapm |

The modules meet in the tables of the store.  `LLMSignal` and `ReviewQueue` write the
rows and verdicts that `PushLoop` turns into cards; `OrderConfirm` starts from a card and
writes the actions that `LLMSignal` reads back as pending orders.  Each module keeps
the steps of its neighbours as single actions.

`MCWheelRunner`, `MCFutuClient`, `MCResearch` and `MCServices` put parts that share no
state into one run: a variable `part`, chosen at the start, says which of them takes
steps, and the others keep their initial values.  The state space is the sum of
the parts, not their product, and every property of a part is checked in all of its
behaviours.  Fairness is conditioned on the part that runs; in `MCResearch` only the
pool has any, and its liveness is the only temporal question there.

### OrderConfirm

Variables: the durable tables (`signals`, `acts`, `confirmed`, `claims`,
`claimId`, `replaces`), the broker's book (`broker`), the world (`fresh`,
`audited`, `marketOpen`) and the goroutines (`pc`, `sig`, `oid`, `missing`,
`confirmMu`).  A press is a goroutine; `pc` names the next store or broker call of
`confirmOrder` / `confirmOrderDiscord`, `watchFill` or `declineOrder`, and one
action is one such call with the code up to the next one.  Telegram presses run
side by side, Discord presses take `confirmMu`.  An order is named by the press
and the attempt that opened it, because `withClient` sends a call at most twice.

Every store write may fail (`"store"`: the caller logs and goes on, or refuses, as
the code does), every broker call may lose its reply (`"reply"`: an error is
returned and the effect may or may not have happened), and `Restart` may come at
any point.  The order id read back by `declineOrder` passes through JSON as a
float64; orders of `WidePress` get an id that does not survive this, and what is sent
instead names no order or any other one.

A cancel that is accepted (`ModifyOrder` succeeds) leaves the order cancelling or
cancelled.  While it is cancelling it is still on the book (`OnBook`) and may be executed
in part or whole; of the broker it is assumed only that an accepted cancel is not taken
back.

Data left out: prices, quantities and contracts of the order (a refusal for an
unusable one is a refusal like any other), texts, toasts, the NOTE action, which
nothing reads.

`SignalLife` is the abstract specification: a signal is posted, claimed once, ordered
by one press and only after the cancel of what it replaces was accepted, named by a CONFIRM,
filled; an order only moves on.  It knows nothing of goroutines, locks, replies and
restarts.  `OrderConfirm` maps its tables and the broker's book to it (`Life`), and
`RefinesSignalLife` says that every behaviour of the detailed one is one of the
abstract one.

### PushLoop

One loop, `runPush`; the Discord loop is the instance with one chat and
`GateAlerts`.  The gates of `pushSignal` are separate reads of the store, so each is
an action, and signals, reviews and dismissals land between them.  `handled`,
`sentChats`, `cursor` and `pending` are the variables of the code, including the
clean-up at the end of a pass; `batch` is the rest of the last query.  `visible` and
`unseen` keep apart what the sequence numbers and what the loop can see: an id is
drawn before its row is committed.

### ReviewQueue

The pass and the workers of `wheelrun.Runner`.  Every section under `reviewMu` and
every store call is an action.  `lastAlert` is the baseline (contract and times,
kept as references to the rows that set them), `inflight` is `reviewInflight`,
`reviewCh` the bounded channel.  What `Evaluate` decides is any element of
`Decision`; a HOLD leaves nothing that is read here.

### LLMSignal

One symbol.  The scheduled runner and HTTP requests are processes; `pc` names their
next store or model call, `open` is the slice of pending orders they hold (`None` is
Go's nil), `listed` the rows they count.  `acts` keeps apart what the queries tell
apart: NO, REJECTED and FILL are one `CLOSED`, a failed review is read by nobody.  Two
ghosts state exceptions of the properties: `blind` (a read failed and was skipped, as
the code does) and `late` (CONFIRM was appended when the row had left the 15-minute
window: the claim was in time, the broker's answer was not).

### AgentPass

`RunOnce` over the llm bindings and `Generate` with its tool loop.  Time is counted from
the snapshot and passes while the model is asked; `agConv` keeps for every round the
tool calls and their answers, `agShown` the contracts the model has seen, `agSent` the
decision with the age of its prices.  The model may answer anything, call tools that
fail, or never answer.  `Submit` is one step here and is `LLMSignal`.

### LivePass and SnapshotRecorder

`LivePass` is the first half of `runSymbol`: `filterPositions` and `closePositionLegs`, the
direction, the contracts around the money level by level, the legs held, and
`OptionQuotes` with the cache of Greeks that all passes share.  A quote is the times it
rests on; a fetch takes a turn of the limiter, in which time passes.  What the pass
decides then is `WheelDecision`, and what becomes of it `ReviewQueue`.

`SnapshotRecorder` is the writer behind it: the check of `closed` and the send under the
mutex, a full channel that drops, the worker that inserts record by record, and
`Close`, which waits for it.  A send on the closed channel is a state of its own
(`srPanic`).

### RateLimit

`Limiter.Wait`, with one limiter per process and one timestamp file.  Points in time
are kept as the time left until them, so the state space is finite although time
goes on for ever.  The mutex, the file lock, the clock reading, the truncation and
the write are separate steps, between which time passes.  `own` and `quiet` are
history: how long ago the last pass was decided.

### TradeConn

Leases (`refs`), the connection (`conn`: nil, up, or stale after the gateway dropped it)
and `withClient` under `sharedTradeConn.mu`: connect, call, invalidate and try once more.
`sockets` counts what is really open.  The account is chosen from the gateway's list by
environment, market and kind (`findAccount`), where quotes and trades number the
markets differently.

### WheelDecision and BacktestSession

`WheelDecision` is `wheel.Evaluate` without state: the operators keep the names of the
code, the guards of `Evaluate` are the nested alternatives of the operator of that name,
the masks of a candidate are `Eligible` and `Affordable`, and `betterCandidate` is the
order of `Rank`.  All quantities are integers: deltas are in shares per contract,
percentages in percent; `usable` stands for the presence, sanity and freshness of a
quote's fields.  The inputs are those of the backtest: cash is known, no futures, no
pending orders.

`BacktestSession` is `Session.Process` with `WheelStrategy.OnBar`.  One `Bar` is one turn of
the loop: the adapter notices a fill of the bar before, decides on the batch, and
`settleAction` books the order or refuses it, which ends the replay (`pc = "failed"`).
`settleExpired` is one `Expire` per leg, in the order of the codes.  `basis` is
`StockAverageCost` times the shares, so that the average is never divided; a partial
sale takes its share of the basis rounded down.  `credit` is `AvgPremium` times the
contracts of a leg, `mark` its entry of `OptPrice`: the latest bid, which a one-sided
quote does not move.  Whether a sale is filled (`attemptDraw` against `failProb`) is a
choice.  Fees are those per contract and per lot; the fixed fee per trade of `-fee`, kept for
compatibility (`fees.go:84`), is left out.  `stockTraded`, `fillClose` and `oneSided` are history.

### The research side

`ChunkedRun`: a bar's replay is abstracted to what it consumes, the row `QueryBars` selects
among sources and the batch `latestQuoteBatch` shows; `BacktestSession` is a function of
that sequence, so equal sequences are equal results.  The single run and the chunked
one read the same tables, and bars are ingested between two chunks.

`ParallelMap`: feeder, workers, closer and caller as processes around the two channels; a
context that may end at any time.  `EvolutionSearch`: one search per group, generation by
generation (an evaluation is any score of `Scores`), with elite, budget, patience and
pruning, then the held-out window and the choice.  Genes are fractions, so decoding
and encoding are exact and their rounding is that of the code.

`BacktestApi`: requests under `TryLock`, with a context that ends anywhere.  `ReportFlow`:
commands side by side with kills between any two steps; a report has the id of its
inputs; the marker is claimed by a file lock, and Discord suppresses a second message
with the same nonce inside its window (`windows` counts how often that has closed).

### The services

`HkexBackfill`: files and supplements appear late and are replaced; a value is the
version of the file it is from.  `stored` and `absent` are what a run did with a day.
`TencentBackfill`: time in slots of eight hours, so that a US session crosses the
Beijing date.  `DataCheck`: market and server have zones, a series is the instant of its
newest row, and a repair may claim success and bring nothing.  A timer fires at its time or
later: clocks that are set back are left out, with which `NextRun` gives the same day again
and a job runs twice (`service.go:87`).  `Watchlist`: the
transaction with its advisory lock, step by step, against deletes and the runner's
two reads and its write-back.  `StrategyConfig`: a parameter object is a function from
its keys; `meant` keeps what was entered.  Of the eleven tactical numbers three are
kept, one for each way the code treats them.  `Registry`: request and reply may each be
lost, and the master's memory with a restart.  `ConfigStore`: load, change, temporary
file, rename, with kills, and Stores that do not share a mutex.  `Migrations`: each
migration is a transaction; the list of applied ones is read before.

## Runs

All runs check deadlock unless said otherwise.

| Run | Instance | Shows |
|---|---|---|
| `confirm_card` | 1 signal, 2 Discord presses, all faults, fairness | `PressIsAnswered`, `WatchEndsAfterClose`, `RefinesSignalLife` |
| `confirm_replace` | 2 signals, a Telegram and a Discord press, store and reply faults | `OrdersAreSound`, `ReplacedIsCancelled`, `CancelsOnlyItsOwn` |
| `push_telegram` | 2 signals, 2 chats, failing reads and sends, late commits, restarts | `CardsAreDue`, `NothingPassedOver` |
| `push_discord` | 2 signals (one unrenderable), 1 channel, batch 1, fairness | `CooldownFollowsAlert`, `DueCardArrives` |
| `queue` | queue: 2 symbols, 2 contracts, 2 workers, 2 rows, depth 1, all faults, fairness; pass: 2 underlyings, 5 contracts, 2 passes; recorder: 2 passes, 3 batches, queue 1 | `AuditsAreExact`, `VerdictEndsAudit`, `AuditsEnd`; `AttributionSound`, `QuotesAreSound`; `RecorderIsSafe` |
| `llm` | 1 contract and 1 wheel order, the runner and 1 request, 3 rows, quota 1, all faults | `QuotaOvershoot`, `RowsAreSound` |
| `limiter` | limiter: 2 processes, 3 callers, gap 3, all faults; trade: 2 operations, 4 accounts; fairness | `IndInv`, `GapsAreKept`, `PoolMovesOn`; `TradeConnSound`, `OperationsEnd` |
| `research` | replay: 2 puts and a call, 2 expiries, 3 closes, 5 bars, 5 configurations; chunked run, pool, search, API and reports: 4 bar rows, 4 batches, 108 options, 1 ingestion; 3 tasks on 2 workers; 2 groups, population 2, 2 generations; 2 requests, 3 symbols; 2 commands, 2 results | `BooksAreSound`, `LegsAreCovered`, `BuybackKeepsProfit`; `ChunkingIsInvisible`; `PoolIsSequential`; `SearchIsFair`; `BatchesAreWhole`; `ReportsAreHonest` |
| `services` | 3 days, 2 series, 2 runs; 3 days, 2 markets; 1 symbol, 2 kinds, 2 days; 3 editors; 11 keys; 2 bindings; 2 agents; 3 callers, 2 Stores; 3 migrators | `BackfillIsFaithful`; `DailyBarsAreFaithful`; `ChecksAreHonest`; `WatchlistIsConsistent`; `SavesAreFaithful`; `AgentPassSound`; `RegistryHeals`; `ConfigFileIsSafe`; `SchemaIsReady` |

A property that is a conjunction has named parts, each stated with its comment in the
module and each with a mutation of the code that breaks it:

| Property | Parts, besides the type invariant of its module |
|---|---|
| `OrdersAreSound` | `OnePressOrders`, `OrderIsClaimed`, `RecordedIdIsReal`, `FillIsExecuted` |
| `CardsAreDue` | `HealthyChatOneCard`, `OnlyApprovedIsCarded` |
| `AuditsAreExact`, `AuditsEnd` | `InflightIsExact`, `CloseDrains`; `InflightEnds`, `CancelEnds` |
| `QuotesAreSound`, `RecorderIsSafe` | `CollectionComplete`, `GreeksAgeBounded`; `NoSendOnClosed`, `CloseFlushesSnapshots` |
| `RowsAreSound` | `NoStackedRows` |
| `IndInv`, `GapsAreKept`, `TradeConnSound` | `LocksAreHeld`, `MemoryRhythm`, `FileRhythm`; `ProcessGap`, `SharedGap`; `OneConnection`, `RightAccount` |
| `BooksAreSound`, `LegsAreCovered` | `BooksBalance`, `BasisFollowsShares`, `FillPriceIsLatest`; `SharesCommitted`, `PutsSecured` |
| `ChunkingIsInvisible`, `PoolIsSequential` | `BoundedChunkedIsSingleRun`, `BarsOnceInOrder`; `SequentialAnswer`, `PoolReturns` |
| `SearchIsFair` | `WindowsPartitionBars`, `BudgetKept`, `DecodedInBounds`, `ChampionKeptOneBound`, `GainingLeaderNotPruned` |
| `BatchesAreWhole`, `ReportsAreHonest` | `BatchIsUnbroken`; `ApprovedIsEvidenced`, `OneMessagePerReport`, `MarkedIsDelivered` |
| `BackfillIsFaithful`, `DailyBarsAreFaithful` | `ProjectionMatchesQuote`, `SucceededIsFilled`, `OfficialIsKept`; `HomeBarsAreFinal`, `SucceededHasCompleteDays` |
| `ChecksAreHonest`, `WatchlistIsConsistent` | `SilentMeansComplete`, `OncePerDay`; `NoVersionConflict`, `RowIsNewestConfig`, `EvaluatesWhatIsShown` |
| `SavesAreFaithful`, `AgentPassSound` | `SavingKeepsMeaning`, `SavedIsCanonical`, `TargetFallsWithPrice`; `SentIsRecent`, `CallsAnswered`, `PassTriesAll`, `ShownIsPriced`, `PassReturns` |
| `RegistryHeals`, `ConfigFileIsSafe`, `SchemaIsReady` | `NewAtMostOnce`, `EventuallyRegistered`; `NeverTorn`, `NoLostUpdate`; `DoneIsMigrated` |

`queue`, `research` and `services` switch deadlock checking off because a closed runner,
a command that has ended and a bounded history really stop.

Runs that end in a counterexample, each against a sentence of the repository:

| Run | Sentence | What the code does |
|---|---|---|
| `confirm_retry` | "the one broker order allowed for a signal" (`wheelstore/store.go:859`) | `withClient` resends a `PlaceOrder` whose reply timed out: two orders |
| `confirm_exposure` | "撤单失败 = 不执行新单(旧单仍在,再下单即重复敞口)" (`telegram_scheduler.go:594`) | the new order is sent when the cancel of the old one is accepted, not when it has left the book: both are on it, and both may be executed (`trade_cancel.go:35`, `telegram_scheduler.go:606`, `:715`) |
| `queue_close` | "平仓载荷独立落库" (`doc/WHEEL_STRATEGY.md:91`) | `validateSignal` refuses every closing ALERT |

Known deviations that have no run of their own, all reachable in the models above.
Those with a name are stated in their module, and TLC refutes them when they are added
to its configuration:

* `DeclineLeavesNoOrder` (`OrderConfirm`).  A no between `PlaceOrder` and the append of
  CONFIRM finds no CONFIRM, cancels nothing, and the order stays on the book
  (`telegram_scheduler.go:500`: "保证挂单被取消而不是静默遗留").
* `QueriedIsDeclared` (`LLMSignal`).  `ListPendingOrders` returns nil when nothing is
  pending, and `validate` refuses nil as not queried: without a pending order of the
  symbol no LLM decision is accepted (`store.go:1001`: "an empty slice means "queried and
  none open"").
* `ConstraintIsNewest` (`Migrations`).  Two commands that start together may apply a
  migration twice, and an older redefinition of the CHECK constraint may come last
  (`migrate.go:82`).
* `NoFormingBarFrozen` (`TencentBackfill`).  Whether a bar is forming is judged by the
  Beijing date, so between midnight and the close in New York the US bar of the day
  before is stored half-formed, for ever (`doc/DATA_STANDARD.md:50`).
  `HomeBarsAreFinal` is about the other markets.
* `DirectionMirrorsEvaluate` (`LivePass`).  `desiredOptionType` runs before the deltas of the
  open legs are filled in (`runner.go:391`), so the direction collected may not be the one
  evaluated (`quote_collection.go:78`: "mirrors only the direction prerequisite").
* `ChunkedIsSingleRun` (`ChunkedRun`).  Without an end of the window the chunked run ends it
  at the last bar and leaves out the batches after it, which a single run hashes and
  counts; with an end (`BoundedChunkedIsSingleRun`) both agree.
* `ChampionKept` (`EvolutionSearch`).  Encoding and decoding the best candidate does not
  give it back when both DTE bounds are tuned, so the best score may fall
  (`es.go:378`); with one bound it does (`ChampionKeptOneBound`).
* `LeaderNotPruned` (`EvolutionSearch`).  While the best reward is negative, its fraction is
  above it, and the best group itself is pruned (`doc/BACKTEST.md:187`);
  `GainingLeaderNotPruned` is about rewards that are not negative.
* `ErrorLeavesNoRow` (`BacktestApi`).  A context that ends after the insert answers 503
  and leaves the row (`backtests_exec.go:38`: "aborts before persisting anything").
* `ApprovalIsOfCurrent` (`ReportFlow`).  `ApproveStrategyCache` reads the row, judges it and
  writes it back, and a result stored in between is overwritten (`strategy_cache.go:78`).
* `SnapshotKeyIsAtomic` (`SnapshotRecorder`).  A reader sees part of a batch
  (`doc/API.md:21`).

* A second yes that loses the claim appends REJECTED to the signal
  (`telegram_scheduler.go:588`), and `ListPendingOrders` drops every signal with a
  REJECTED: the resting order of the first yes is no longer listed, although
  `store.go:948` says "an unfilled order blocks until it fills or is cancelled".
* `watchFill` ends on a cancelled status (`telegram_scheduler.go:714`), and after the
  cancel of a missing order, without an action, so the order is listed as pending
  for ever (`store.go:944`: "that order is still open on the book").
* An order may be executed after its cancel was accepted.  `watchFill` has then ended on
  the cancelling status, or the decline has recorded NO, and the fill is never recorded:
  `FillIsExecuted` says that a FILL is of an executed order, not the converse.
* The no of an order with a wide id sends the rounded id, which may be that of another
  order; the code would cancel it (`telegram_scheduler.go:507`, `discord_scheduler.go:683`).
  `CancelsOnlyItsOwn` names this exception.
* A caller that cannot read or parse the stamp takes the file for empty
  (`ratelimit.go:90`) and passes on the gate of its own process alone, inside the gap of
  another one, as it does when the stamp of the other could not be written.
  `SharedGap` is about passes decided on a file that was read; `ProcessGap` holds in all cases.
* Without `-datacheck-notify`, the default of `serve`, a data check ends without an alert
  whatever it found (`datacheck_scheduler.go:125`); `SilentMeansComplete` is about
  `HasNotifier`.
* A card that was delivered and whose reply was lost is sent again
  (`telegram_scheduler.go:364`: "a healthy chat never receives a duplicate actionable
  card"); `push_telegram` therefore leaves the fault `"reply"` out and
  `push_discord` has it.
* An ALERT for another contract of a symbol in flight commits its baseline and is then
  skipped by `enqueueReview`, which does not clear it (`runner.go:490`, `:532`): its
  repeats are held for the window although it is never audited.  `runner.go:620` says of
  an audit without a verdict that "the next pass must re-ALERT and re-audit".
* A stock switch looks at no open leg: a buy can take the position over
  `max_inventory` (`strategy.go:64`: "允许的最大实际库存") and spend the cash that secures
  puts, and a sale can uncover calls, whose delivery is then bought in.
  `SharesCommitted` and `PutsSecured` therefore speak of replays without a filled stock
  order.
* A buyback is decided on the ask and settled at the mark.  A batch with an ask and no
  bid leaves the mark at an older bid, which may be higher, although `strategy.go:527`
  says "≤ the triggering ask so realized ≥ threshold"; `BuybackKeepsProfit` therefore
  excludes replays in which a held leg was quoted without a bid.
* A stock buy the account cannot pay, or a buyback it can pay without the fee and not
  with it, ends the whole replay with an error, although the adapter means to be
  "fail-closed" (`strategy.go:527`).  The same holds for a put whose fee exceeds its
  premium.
* Delivery fees and buybacks are not held against the cash reserve of the other puts;
  `PutsSecured` allows for both.
* Contracts x, y, x in turn alert three times inside the window, because the
  baseline keeps one contract (`runner.go:137`).
* A row that is committed after the cursor has passed its id is never pushed.
* `validate` does not count a row whose `HasAction` fails and calls this conservative
  (`service.go:334`): the quota of the day grows by one.  `GetSignal` failing inside
  `ListPendingOrders` hides the contract of that order from the comparison.
  `blind` marks what follows from both.
* A yes that was claimed inside the window and confirmed after it lets the runner
  add a second row for the contract in between, because a claim is not a pending
  order (`late`).
* No llm binding can be stored: both ways to save one (`watchlist.go:147`,
  `httpapi/watchlist.go:145`) run `CanonicalParams` of the wheel on its parameters, which
  lack the required `max_inventory`; `strategy.go:278` says "want llm or wheel".  Only rows
  stored by other means are passed over by `AgentPass`.
* A stored price curve is kept by `CanonicalParams`, although `doc/WHEEL_STRATEGY.md:112`
  says that it is migrated to its end points and that "新写入只包含新参数键".
* The pass over llm bindings judges market hours once, at its start (`runner.go:103`); a
  later binding may be evaluated after the close.  `filterByDTE` with both bounds zero
  filters nothing, expired contracts included (`runner.go:529`).
* An HKEX day with RP006 and no series to project is stored and then fails on every
  repeat (`hkex.go:673`).  The forming bar of a Futu backfill is frozen like the US bar of
  Tencent (`doc/FUTU.md:207`).
* READY of a pass may be written over the row of a newer `Upsert`, and Stores of two
  processes on one directory may lose updates (`NoLostUpdate` is about one Store).
* Letters of option codes are compared without their market, so a Hong Kong and a US
  class with the same letters share positions; the instance has distinct letters.

### Bounds, and why they are enough

Where a theorem states the property of a run, the instance only has to be large enough
for the property to be meaningful (see Proofs); the bounds matter for the rest.

* *Presses and signals.*  The safety of the order path is proved for all of them;
  TLC needs two presses to have a race and two signals to have a replacement.
  `ReplaceBound` restricts `confirm_replace` to the states it is about: a second
  signal is one that replaces an order, at most one submission opens two orders, and
  signals stay fresh and the market open (both only make the checks refuse, which failing
  reads do as well; `confirm_card` has expiry and the closing market).  `confirm_card` has one
  signal and so no replacement; `Refinement` proves the clause for all.
* *Signals and chats of the push loop.*  Two rows are enough for one to be pending
  while the other is handled, two chats for one to fail while the other is served.
  `cards` counts to 2, which is what "twice" needs.
* *Rows of the queue.*  Two rows fill a queue of depth 1, and are of one symbol or of
  two; with a third row nothing new can meet.
* *Rows of `llm`.*  Two rows are enough for one to stack on the other, three to exceed a
  quota of 1 by more than the one other submission.  `QuotaOrButtons` leaves the buttons
  out of states with three rows, `OneMisled` allows one submission misled by a read.
* *The limiter.*  Proved for all instances; two callers in one process and one in
  another have every pair of a mutex and the file lock to meet on.
* *The replay.*  All three properties are proved for all instances.  Five
  bars are enough for a put to be sold, assigned, and a call to be sold on the shares
  and to expire; contracts 1 and 3 expire together.  Cash is just below two puts of the
  higher strike and the option fee above the smaller premium, so every refusal happens.
  A batch may have seen any of the prices, whatever the closes around it.
  `MaxTrade` is above any gap of the configurations.
* *The pass.*  Two underlyings for an attribution to go wrong, a held call that has left
  the chain, a chain that ends on one side of the money before the radius does, two
  passes and four units of time for a cached Greek to expire between them.
* *The trade connection.*  Two operations and a drop at any time are a stale connection in
  another's hands; the accounts hold each kind, market and environment once.
* *Chunks.*  Rows of two sources at one time, a batch at a boundary, limits below and above
  the bars, chunks of one and two; one ingestion is enough to differ.
* *The search.*  Two generations are a parent and a child; budgets 7 and 8 are one
  below and exactly what two groups need; the sets of bars have ties at the cut.
* *Services.*  Two overlapping runs or three writers are a race and a bystander.  Three days
  with a weekend between them, two versions of a supplement, a zone before and one
  behind the market's, retries of two, rounds of four with a total of two units.
* `MissingWarnAfter` is 4 in the code and 1 or 2 in the runs: the count is only compared
  with it.

### Fairness

`FairSpec` of `OrderConfirm` assumes that a goroutine that can take its next step
does so (every call has a deadline); it assumes nothing of the broker, the clock,
the buttons.  That of `PushLoop` adds that time passes, that a review ends, and that
a chat which is tried for ever answers some time (strong fairness of a successful
send: a chat that fails for ever holds the cursor, and after 50 newer rows the
query returns nothing new; this is a limit of the code, and a hazard).  That of
`ReviewQueue` assumes that the pass and the workers are scheduled and that a call of
the model ends by the timeout of its client.  That of `RateLimit` assumes that
callers are scheduled and that time passes; `PoolMovesOn` is about runs in which
processes are not killed for ever.  `TradeConn` assumes that operations are scheduled (a
dial and a call end by their deadlines), `ParallelMap` that goroutines are and that a
task ends, `AgentPass` that time passes and a deadline fires, `Registry` that agents and a
stopped master start again (the agent's `http.DefaultClient` has no timeout, so that a call
returns rests on the keepalive of the connection); the network owes nothing, and `EventuallyRegistered` speaks of
behaviours in which faults end.  The other modules assume no fairness.

## Proofs

`OrderConfirmProofs` proves, for all values of the constants under
`ConstantsAssumption`:

| Theorem | States |
|---|---|
| `TypeCorrect` | `Spec => []TypeOK` |
| `Inductive` | `Spec => []IndInv` |
| `OneOwner` | `Spec => []OnePressOrders` |
| `ClaimFirst` | `Spec => []OrderIsClaimed` |
| `RecordsAreReal` | `Spec => []RecordedIdIsReal` |
| `FillsAreReal` | `Spec => []FillIsExecuted` |
| `CancelBeforeOrder` | `Spec => []ReplacedIsCancelled` |
| `OrdersSound` | `Spec => []OrdersAreSound` |
| `NoForeignCancel` | `Spec => CancelsOnlyItsOwn` |
| `Refinement` | `Spec => RefinesSignalLife` |

None of the properties is inductive.  The argument: a press between the claim and
the end of its confirmation *owns* its signal, there is at most one owner of a
signal in the life of the database, and it opened whatever orders the signal has
(`Ownership`); the orders of a press that has not submitted yet do not exist
(`FreshIds`); an id held by a goroutine, recorded by CONFIRM or on a claim row, or
named by a Replace is that of an order the broker opened (`HeldIds`,
`RecordedIdIsReal`); and from the accepted cancel on, a replaced order is being cancelled or
at its end and never rests again (`Replacement`).  `HistoryKept` collects what every step leaves
true of past orders (an order stays placed, its signal does not change, an
executed order stays executed, an order whose cancel was accepted stays so), so that each action
has to be looked at once for this, and once for the conjuncts it touches.

`Refinement` looks at each action once more: what a step does to the tables and the
book, seen through the mapping `Life`, is one action of `SignalLife` or nothing.  The
guards of the abstract actions (the claim is there, no other press has ordered, what
is replaced no longer rests) are what `IndInv` says of the control point the step
starts from.

`FutuClientProofs` proves, for any number of processes and callers, any gap and all
faults, under `ConstantsAssumption` and `TradeConnAssumption`:

| Theorem | States |
|---|---|
| `Inductive` | `Spec => []IndInv` |
| `LocksHeld` | `Spec => [](TypeOK /\ LocksAreHeld)` |
| `GapInProcess` | `Spec => ProcessGap` |
| `GapAcrossProcesses` | `Spec => SharedGap` |
| `GapsKept` | `Spec => GapsAreKept` |
| `ConnectionSound` | `TcSpec => []TradeConnSound` |

`MemoryRhythm` and `FileRhythm` say who covers the last pass: the caller's clock reading
from the decision to the record, `Limiter.next` and the stamp in the file from then
on; a pass that could not read the file stamps it like any other (`DecideUnread`).  The locks
make the caller unique.  A pass is decided when the gates it reads are
at zero, so what they cover is a gap old.  For the connection, `refs` is the number of
operations that hold a lease (`TcInv`), and a socket is closed before it is forgotten; the
account found is the first of the list that suits, so none suits when none is found.

`BacktestSessionProofs` proves, for every set of contracts, configuration, schedule of fees and
history under `ContractsAssumption` and `SessionAssumption`:

| Theorem | States |
|---|---|
| `Inductive` | `Spec => []BooksAreSound` |
| `TypeCorrect` | `Spec => []TypeOK` |
| `LedgerBalances` | `Spec => []BooksBalance` |
| `NeverShort` | `Spec => []BasisFollowsShares` |
| `FillPrice` | `Spec => []FillPriceIsLatest` |
| `ProfitKept` | `Spec => BuybackKeepsProfit` |
| `CoverHolds` | `Spec => []LegsAreCovered` |

`BooksAreSound` is the conjunction of the four it lists in the model and is inductive: the
sold part of a basis is below the basis only if the position is not short, and a basis is
positive after a purchase only by the types.  One lemma per booking shows that it keeps the
account (`Account`) and counts a fill with the close of its bar (`FillBooked`); the signal is
not unfolded there, so these hold for any strategy that trades through this settlement.

The other two do unfold the decision.  `ProfitKept`: the take-profit rule fires on the ask,
the settlement pays the mark, and the mark is at most the ask because the assumption on
quotes is the store's own check that a quote is not inverted.  `CoverHolds`: `LegsAreCovered`
is inductive together with `BooksAreSound`; `Evaluate` sells a call only against free
shares and a put only against free cash and room in the inventory, and an expiry moves the
same amount from the sum to the position or the cash.  The sums over contracts
(`SumOver`, a fold over a finite set) are the difficulty: their laws (changing one summand
changes the sum by as much, summands of zero do not count) come from an induction over
the sizes of finite sets, stated as a fact about sets of numbers (`NatAll`), since the
induction rules of the library cannot be applied to an operator here.

`PushLoopProofs` proves, for any number of signals and chats, any batch and all faults,
under `ConstantsAssumption`:

| Theorem | States |
|---|---|
| `Inductive` | `Spec => []IndInv` |
| `NonePassedOver` | `Spec => []NothingPassedOver` |
| `CooldownStarts` | `Spec => []CooldownFollowsAlert` |
| `OneCardEach` | `"reply" \notin Faults => (Spec => []CardsAreDue)` |

The cursor is a waterline: a committed row is ahead of it, still in the batch, or was put
behind for a reason that lasts (`Waterline`, `BehindIsSettled`).  Reasons last because a
review ends once (`ReviewsEnd`): a row read as rejected, or as failed with its retry
window closed, is never approved later.  For the second card, a chat that has one is
remembered in `sentChats` or the row is behind the cursor for good.  The hypothesis of
`OneCardEach` is the fault that really duplicates a card (see the deviations).

`WheelRunnerProofs` proves, for any watchlist, workers, depth and faults, any account and
any chain, any passes and batches, under the assumptions of the three modules (a worker
exists; letters of classes differ between underlyings, and a chain lists only contracts of
its own underlying; there are finitely many contracts):

| Theorem | States |
|---|---|
| `Inductive` | `Spec => []IndInv` |
| `OneVerdict` | `Spec => []VerdictEndsAudit` |
| `AuditsExact` | `Spec => []AuditsAreExact` |
| `RecorderSafe` | `SrSpec => []RecorderIsSafe` |
| `Attribution` | `LpSpec => []AttributionSound` |
| `GreeksYoung` | `LpSpec => []GreeksAgeBounded` |
| `QuotesSound` | `LpSpec => []QuotesAreSound` |

All audits on their way (queued, in the hands of a worker, about to be sent) are of
different symbols (`Exclusive`), and the mark of a symbol is what keeps it so (`Marked`);
hence the end of one audit cannot remove the mark of another, and only one worker will
ever write the verdict of a row.  The recorder: the mutex separates the check of
`closed` from the close (`MutexGuards`), and what was accepted is tried, in hand or queued
(`Accounted`).  The Greeks: those a pass has applied were fresh when it began or are newer.
`QuotesSound` adds that the expansion around the money misses nothing: while it runs, all
levels asked so far are selected (`Asked`), and the levels together are every strike at
most `Radius` places from the money, on a side that is shorter than the other too; later
fetches never take a Greek away that counted (`Complete`).  The place of a strike in
the ascending list is the number of strikes below it, which turns the walk over two
indices into the counting of strikes that the property speaks of.

`LLMSignalProofs` proves, for any number of requests, rows and contracts and any quota,
under `ConstantsAssumption` (finitely many requests):

| Theorem | States |
|---|---|
| `Inductive` | `Spec => []IndInv` |
| `NoRowsStack` | `Spec => []RowsAreSound` |
| `QuotaHolds` | `Spec => []QuotaOvershoot` |

A row is *settled* when it can no longer be in play or was confirmed too late, and stays
so.  Each of the three reads of a submission settles a part of the earlier rows
(`RunnerKnows`), and when the runner appends, all rows of its contract are settled.  For
the quota, the approved rows of the day and the submissions that nothing stops any more
(`OnTheWay`) are together within the bound: a submission joins them while the quota is
not used up, and adds its row by leaving them.

`ServicesProofs` proves, for any number of callers, editors, runs, agents, days, series,
bindings and symbols, under the assumptions of its modules:

| Theorem | States | Because |
|---|---|---|
| `ConfigFileSafe` | `CfSpec => []ConfigFileIsSafe` | a save holds the mutex from the load to the rename, and renames the file of now with its key changed |
| `SchemaReady` | `MgSpec => []SchemaIsReady` | a migrator has behind it only recorded migrations, and a record is committed with its effect |
| `WatchlistConsistent` | `WlSpec => WatchlistIsConsistent` | versions have no gap, and a writer that has read the newest one holds the lock of its symbol |
| `DailyBarsFaithful` | `TbSpec => []DailyBarsAreFaithful` | a response is at most a slot old when it is filtered, so a partial row is of today or forming |
| `BackfillFaithful` | `HkexSpec => BackfillIsFaithful` | a run has accounted for every business day behind it, and what it inserts was built from one version of the files |
| `ChecksHonest` | `DcSpec => ChecksAreHonest` | newest rows only move on, so what a check saw still holds at its end; a timer is armed for a later day than the last one it ran on |
| `PassSound` | `AgSpec => [](AgTypeOK /\ SentIsRecent /\ CallsAnswered /\ PassTriesAll) /\ ShownIsPriced` | the snapshot is never older than the total limit, and what a tool shows comes from it |
| `NewOnce` | `RegSpec => []RegTypeOK /\ NewAtMostOnce` | whoever was told to be new is in the registry |
| `SavesFaithful` | `StSpec => []SavesAreFaithful` | reading what was written gives the configuration it was written from |

`ChecksHonest` rests on a lemma about an algorithm: the scan of `ExpectedSession` back from
the ready date finds the last session that was due (`ScanFindsSession`), for every calendar
that has an open day within the scan and every zone less than a day away.

`SavesFaithful` is for any curves and any entries, under `EntryAssumption` (numbers where
numbers belong, the types left out of the model).  `ParseIs` and `CanonicalIs` say key by
key what the chain of unwrapping, normalising, defaulting and marshalling computes (`ReadAs`,
`Written`); `WrittenIsRead` closes the circle, and both parts about saves follow: what was
left out because it was empty comes back as its default, the end points left out beside a
curve come back from the curve or are not looked at.  For `TargetFallsWithPrice` the two ways
to give a target are one (`PointsFall`); the checks of neighbouring points order all points
(`ShapeFalls`, by the least point that is out of order), the segment the search stops at
exists and holds the price (`InterpolatesOnCurve`), and two prices are in one segment, where
the numerators compare, or have a point of the curve between them (`OnCurveFalls`).

`ResearchProofs` proves, for any results, commands, requests, tasks, workers and search
spaces, under the assumptions of its modules (genes and the pruning factor are between
zero and one, a nonempty set of bars has a first and a last one, `ParseSpace` has accepted the
groups, at least as many tasks as workers; a table holds finitely many bars, and
of the providers ranked last at most one has a bar of a given time, `ProvidersApart`):

| Theorem | States | Because |
|---|---|---|
| `ReportsHonest` | `RpSpec => []ReportsAreHonest` | a push holds the file lock of its report and sends only without a marker; every message is accounted for by the nonce that is remembered or by a window that closed |
| `BatchesWhole` | `BtSpec => []BatchesAreWhole` | only the holder of the mutex writes, and its rows are the last ones and those it has worked off its list |
| `PoolSequential` | `PmSpec => [](PmTypeOK /\ SequentialAnswer)` | an index is with the feeder, with a worker or answered, once, until the context ends |
| `SearchFair` | `EsSpec => SearchIsFair` | a generation is entered only with its evaluations still in the budget, and the champion is what some gene decodes to |
| `ChunksInvisible` | `CkSpec => []ChunkingIsInvisible` | while the tables do not change, what the chunks have played is what one query up to the cursor plays |

`SearchFair` contains what the code computes with fractions: decoding stays in its bounds
for every gene (`SpreadInBounds`, `DecodeInBounds`), encoding and decoding a champion with one
tuned bound gives it back (`EncodedAndBack`, `ChampionComesBack`), the three windows of a
split are disjoint and cover the bars (`WindowsApart`), and a group that is pruned while the
best reward is not negative is behind it (`LeaderStays`).

`ChunksInvisible` compares two sequences of bars.  A bar's place in a replay is the number of
bars before it, so a replay is a bijection between bars and numbers (`Places`, `Nth`), and
replaying a set of bars that splits at a time is replaying the two parts one after the
other (`ReplaysJoin`).  The limit splits likewise: the first bars of a window are those of
its first part, then as many of the second as are left (`LimitGoesOn`, `LimitIsReached`).  The
invariant `CkInv` says of the cursor that everything before it has been played (`Follows`),
and without an assumption on the tables that the bars so far ascend and lie before the
cursor, which is what ingestion between two queries cannot break.

Only model-checked, and why:

* Liveness, which is out of the prover's reach: `PressIsAnswered`, `WatchEndsAfterClose`,
  `DueCardArrives`, `AuditsEnd`, `PoolMovesOn`, `OperationsEnd`, and the parts `PoolReturns`,
  `PassReturns` and `EventuallyRegistered` of properties whose other parts are proved.

Every invariant of a passing run is stated by a theorem (`CardsAreDue` for the faults of its
run, see `OneCardEach`), and every action property too.

## Not modelled, and why

* Rendering, toasts, logging, prompt texts, the web interface, the text assistant: data
  without influence on the state.
* In the order path, calendars and time zones: market hours are a boolean that turns.
  `DataCheck` and `TencentBackfill` have calendars and zones.
* Parsers of HKEX, Tencent and Futu answers: a file is what the parser takes from it.
* Floating-point numbers: scores, prices and deltas are integers, genes are fractions;
  the statistics of a report are not modelled.
* Of parameters the types and fraction checks of single numbers; futures and
  multi-symbol replays, long options, the sample strategies.
* Pending orders and replacement inside `Evaluate`; what follows from a Replace is in
  `OrderConfirm`.
* Queries that only read: paging, statistics, listings.
* `third_party/gofutuapi`: vendored; the gateway appears as the broker's answers.

## Plan

Every component of the inventory that changes state has a module.  What is left, in
this order; a run is added only for a new question.

1. `WheelDecision` with pending orders and replacement, as the live runner calls it, in
   place of the arbitrary decision of `ReviewQueue`.
2. The Futu option sampler and the bar backfill of Futu as ingest modules of their own.
