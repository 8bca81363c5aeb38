# CALM trading system: specification, model checking and proofs

TLA+ specifications of the CALM trading system (C++, `src/lib`), translated
from its source, with TLC runs on small instances and TLAPS proofs for every
value of the constants. Paths below are relative to the repository;
`file.cpp:12` means `src/lib/*/file.cpp`, line 12.

## 1. The system

A trader process (`src/trader.cpp`, `core/trader.h`) connects a few *algo
engines* to Interactive Brokers' Trader Workstation (TWS). A strategy, outside
the process, publishes through Redis the position it wants; the algo engine
sends and cancels orders until it has it. A second program, the historian,
downloads price bars.

```
 strategy --Redis--> AlgoEngine --send_order/cancel_order--> TradingEngine
                        ^                                      | check_risk
                        |                                  RiskManager
     order, tick, timer |                                      |
                   EventEngine <--on_order, on_tick-- IBGateway/IBApi <==> TWS
                        |
                        +--> Portfolio, RiskManager, MarketDataManager, DataRecorder
```

Each arrow into a component with a thread of its own goes through an `LBQueue`.

| Component | State | Operations | Threads | What makes it correct |
|---|---|---|---|---|
| `LBQueue` (`utils/lock_based_queue.h`) | `q`, `m`, `cv` | `wait_push`, `wait_pop`, `try_pop` | any | nothing lost, doubled or reordered; no consumer sleeps beside an item |
| `EventEngine` (`core/event.*`) | `running`, `m_cbs`, `q`, `cb_thread` | `start`, `stop`, `register_cb`, `send`, `wait_till_finish`, `run` | owner, callback thread, senders | the table of callbacks is stable while it is read; stopping stops |
| `AlgoEngine` (`algo/algo_engine.*`) | `inflight_order_id`, `order_cancelled`, `order_filled`, `curr_pos`, `order_status`, `q` | `mq_message_cb`, `update_pos_cb`, `send_order`, `order_cb`, `tick_cb`, `timer_cb` | redis, action | one order in the market at a time; position exact; every cancellation is resolved |
| `IBApi`, `IBGateway` (`gateway/gateway.*`) | `m_order_id`, `orders`, subscriptions, bars | `send_order`, `cancel_order`, `orderStatus`, `openOrder`, `error`, market and historical data | callers, callback thread | ids are unique; snapshots reach the events in order |
| `TradingEngine` (`core/trading_engine.*`) | none of its own | forwards to the risk manager and the gateway | callers | |
| `RiskManager` (`core/risk.*`) | `active_orders` | `check_risk`, `event_engine_order_cb` | algos, event engine | the flow limit holds |
| `Portfolio` (`core/portfolio.*`) | positions, costs, snapshots, PnL | `order_data_cb`, `timer_cb`, getters | action thread, readers | position and cost follow the fills; PnL follows position and price |
| `MarketDataManager` (`core/market_data.*`) | last tick per symbol | `subscribe`, `update_ticks`, `get_last_tick` | main, event engine, portfolio | it has the latest price, whichever stream a tick came by |
| `HistBarGetter` (`data/historical_data.*`) | `remaining`, `req_id_sym`, chunks, bars | `run`, `process_hist_bar`, `process_hist_bar_end`, `process_err_msg` | main, event engine | every chunk is asked for once and saved, and `run` ends |
| `DataRecorder` (`data/data_recorder.*`) | queue, MongoDB collections | `run_action`, `start`, `stop` | event engine, action, owner | events are saved in order, none is left out while it runs; stopping stops |
| `RedisClient` (`database/redis_client.*`) | connections | `connect`, `subscribe`, `publish` | callers, listener | its failures end the process rather than go unnoticed |
| `Trader` (`core/trader.h`) | the next second | start-up order, timer | main | the start-up ends; one timer event per second |
| config, logging, conversions | | | | no state the rest depends on |

What is hard here: five threads between an order and its books, each hop a
queue; answers of TWS that arrive before the call that caused them returned;
snapshots copied under a lock and handed over outside it; an event about one
order applied to the record of another; a retry that goes around a queue; a
loop that ignores that its wait expired; a mutex held across a join. The list,
line by line, is `hazards` in `PROJECT.json`.

## 2. Modules

| Module | Models | State and actions against the code |
|---|---|---|
| `FifoQueue` | what `LBQueue` promises | a call starts, takes effect at one instant, returns |
| `LBQueue` | `lock_based_queue.h` | one action for each stretch between taking and giving up `m`; `waiters` are the threads inside `cv.wait`/`wait_for`; `Timeout` and `SpuriousWakeup` are the ways out nobody asked for. `pushed` and `popped` are history |
| `EventEngine` | `event.cpp` | the owner's calls, `register_cb` and `send` of any thread, and `run()` split at its reads of `running`, at `try_pop`, at each callback and at the mutex |
| `OrderObjects` | `OrderData`, `OrderStatus`, `Action`, `Event`, `PosUpdate`, `is_active_order` | records of the fields the order flow reads |
| `TWS` | TWS and the socket (external) | works, fills, cancels, rejects; sends the messages IBApi handles; may repeat a status, report a commission late, warn; the socket may break |
| `IBApi` | orders in `gateway.cpp` | `ProcessMessage` is one message on the callback thread up to the release of `orders_m`; `ForwardMessage` hands over the copy, kept in `held` in between. `send_order` is `InsertOrder`, `on_order`, `placeOrder`; a dead socket makes `placeOrder` and `cancelOrder` call `error` on the caller's thread |
| `RiskManager` | order flow in `risk.cpp` | `PassesRisk`, `FailsRisk`, `risk_order_cb`; the PnL checks may say anything (`pnl_ok`) |
| `Portfolio` | books in `portfolio.cpp` | `HandleOrder` is an event, `HandleAgain` the pass of the loop after a `try_pop` that timed out |
| `AlgoEngine` | `algo_engine.cpp` | the branches of `update_pos_cb` are `CancelInflight`, `WaitForCancel`, `LatencyTooHigh` (the throw) and `Retarget`; `send_order` goes on through `InsertNewOrder`, `ForwardNewOrder`, `PlaceNewOrder`, `Track`; `order_cb` is one action |
| `OrderFlow` | composition: algo, IBApi, TWS, event engine, risk manager, portfolio | `PopEvent` and one action per registered callback are `EventEngine::run`; the queues are FIFO, as `LBQueue` implements |
| `OrderMistakes` | `OrderFlow` and what `order_cb` has got wrong | no action more: `mistaken` records that an answer was applied to another order than its own, or a warning taken for an end |
| `OrderGate` | the start-up of the trader, then several algos in `TradingEngine::send_order` and `IBApi::send_order` at once | `Connect`, `SpawnCallbacks`, `AwaitOrderId` are `IBApi::start`, `StartAlgo` and `Listen` the start of an algo and its Redis thread, `TestRunning` and `nextValidId` the callback thread; sending is split at the gateway's mutex, the read and the write of `m_order_id`, the map, the socket |
| `Journal` | what `DataRecorder` promises | events are accepted, turned to one after the other, written or refused |
| `DataRecorder` | `data_recorder.cpp` | `copy_to_queue` on the event engine's thread; `start`, `stop`, `join` of the owner; `run_action` split at the read of `running`, at `try_pop` (`Take`, or `Expire` when the wait ran out) and at the insert, which MongoDB does or refuses |
| `HistBarGetter` | `historical_data.cpp` with its part of `gateway.cpp` | `CutChunk` is one pass of the loop of `generate_ib_reqs`; `BeginRun` the rest of `init` and the first pushes of `run`; `run()` is split at the read of `remaining`, at `try_pop` and the request, at the filing of its id and at the pause; each callback of the event engine is one action |
| `ProfitLoss` | ticks in `gateway.cpp`, `market_data.cpp`, `timer_cb` in `portfolio.cpp` and in `algo_engine.cpp`, the timer in `trader.h` | the main thread subscribes, split where TWS and the event engine may come in between, then sends timers; each TWS message is one action on the callback thread; `update_ticks` and `ToQueues` are the event engine's; `PublishTick` is the algo's at a timer; `timer_cb` is split at every position, where it reads a tick, and at the ends of an algo and of the whole |
| `MCOrderFlow`, `MCOrderMistakes`, `MCOrderGate`, `MCHistBarGetter`, `MCProfitLoss` | instances for TLC | |
| `Sums` | | laws of sums over finite sets, for the proofs |
| `LBQueueProofs`, `EventEngineProofs`, `OrderFlowProofs`, `OrderGateProofs`, `DataRecorderProofs`, `HistBarGetterProofs`, `ProfitLossProofs` | theorems | |

Abstractions. An algo trades one symbol with market orders, as `AlgoEngine::send_order`
does. Prices and commissions are small integers: the first lot costs 3, the average
falls to 2 with the second, a commission is one per lot, so cost tells snapshots
apart. `error_code` is a boolean: only zero or not is looked at. In `OrderFlow` `aq` carries only
order events and position updates: ticks change nothing, and a timer publishes a
price, which is in `ProfitLoss`. `pos_order_m` is left out of `AlgoEngine`, since one thread touches what it
guards. In `OrderFlow` one algo runs, on a gateway that has its first order id, and so
`IBGateway`'s mutex is never contended; contention and the start-up are `OrderGate`.
The algos there are of different classes, as the trader builds one `AlgoEngine`. The event engine runs throughout
`OrderFlow`; its life cycle is `EventEngine`. In `HistBarGetter` a message of TWS is an event of the engine from the moment
it is sent; a bar is its time, and the last bar of a window stands for all of
it, with two bars from before the window, because TWS counts trading days
(`data/README.md`): a chunk's bars come after later ones of the chunk before it, and one of
them comes twice. `dropped` and `unsaved` are history. In `ProfitLoss` the n-th trade has price n, so a price tells how old it is;
an order event is the change of a position it brings, the rest being `Portfolio`'s; a timer
carries what TWS had reported when it was sent, and `used` and `booked` record what a
valuation was made of: history. The events that push PnLs are left out: nobody registers for
them. In `DataRecorder` a document is the number of the event it was made of; `Null` is the
pointer of an event that was never assigned, whose type may be anything. `accepted` and
`refused` are history. Definitions named as mutants in
their comment are wrong on purpose and used by nothing in the specification.

## 3. Runs

| Run | Question | Result |
|---|---|---|
| `LBQueue_calls` | `TypeOK`, `Fifo`, `NoLostWakeup`; refinement `ImplementsFifo`; `NoStrandedItem` | hold |
| `OrderFlow_plain` | `TypeOK`, and the liveness of `InflightResolves` and `RetryServed`, when TWS reports each change once | hold |
| `OrderFlow_faults` | `PortfolioExact`, `NoAnswerLost`, `CancelOnce`, `CancelledForARetry`, `NoSecondOrder`, `PositionFollows`, `BooksGoForward`, `AnswersGoForward` with repeats, late commissions, warnings, and a socket that breaks | hold |
| `EventEngine_stops` | `TypeOK`, `TableStable`, `StopReturns`, `WaitReturns` | hold |
| `OrderGate_safety` | `OwnOrder`, `IdsValid` and `StartReturns` for three algos, from the start-up on, connected or not | hold |
| `DataRecorder_journal` | `TypeOK`, `SafeOnceFed`; refinement `ImplementsJournal`; `EventuallyTried`, `StopReturns` | hold |
| `HistBars_download` | `TypeOK`, `CutCovers`, `SavedComplete`, `RemainingExact`, `FinalStatus`, `RunReturns` | hold |
| `ProfitLoss_valuation` | `TypeOK`, `PriceExact`, `TotalIsSum`, `PnlCurrent`, `PublishedCurrent` | hold |
| `OrderFlow_late` | `NoInflightOrder` when a commission is reported late | violated |
| `EventEngine_deadlock` | `StopEventHonoured` | violated |
| `OrderGate_limit` | `FlowLimited` | violated |
| `HistBars_unsaved` | `RunEnds` | violated |

### What the violated properties show

- `OrderFlow_late`: `order_cb` clears `inflight_order_id`
  on any event of a known order that is not active, or has an error code,
  without asking whether it is the order in flight or whether the error ended
  it. After a late commission (this run), or a warning of TWS about an order that
  goes on working (`NoteKinds = {"error"}` in its place shows it), an update is served beside an order that works in the market, at the place
  that says "no inflight order at this point" (`algo_engine.cpp:143`).
  `OrderFlow_faults` has the other half of it: these two mistakes, named `MistakesOrder` and
  `MistakesEnd` in `OrderMistakes`, are the *only* ways to a second order (`NoSecondOrder`).
  After the first `curr_pos` may drift from what TWS filled too, since `order_filled`
  belongs to one order and is applied to another; nothing else makes it drift
  (`PositionFollows`): a warning taken for an end does not by itself.
- `EventEngine_deadlock`: `stop()` holds `m` while it joins; the callback
  thread, with `event_engine_stop` in hand, needs `m` to lower `running`.
- `OrderGate_limit`: the flow limit counts order ids, and the id is unset in
  every request for a new order (`objects.h:70`): all requests are one element
  of the set, which no end of an order removes.
- `HistBars_unsaved`: when a file cannot be written, `process_hist_bar_end`
  marks its symbol and does not count `remaining` down, so `run()` never
  reaches its report. When `create_directories` throws (`historical_data.cpp:308`), the
  event engine catches it (`event.cpp:67`), the symbol stays in progress (`SaveThrows`) and
  `run()` does not end either. `HistBars_download` has the other way to get stuck: an
  answer handled between `req_historical_bar` and the filing of its id is
  dropped (`historical_data.cpp:60-64`). On a working socket that takes an answer of TWS which
  is handled before the next two statements of `run()` are; on a dead one the client calls
  `error()` itself, before the request returns, and its event is in the queue while the id is not
  filed. `MayOvertake` allows both; `SavedComplete` and `RunReturns` name the dropped
  event as their exception, so they say nothing about those requests.

### Bounds, and why they are enough

- Queue: three threads give two consumers and a producer, or two producers; two
  distinct items tell an order; `MaxPushes = 2` limits pushes *begun* while
  fewer were done, so up to four items are pushed. A lost wakeup needs two
  sleepers and one producer.
- Order flow: two orders and as many updates; three updates in `plain`, three of both in `late`. Each
  hazard is about one order and its successor, or about an update, the one that
  cancels and a third. Targets `{0, 2}` make orders of two lots, so partial
  fills meet cancellations; `{1, -1}` makes a first order of one lot and a
  reversal of two. `MaxNotes = 1`: one message beside the regular ones already
  breaks what notes can break. In `faults` both mistakes of `order_cb` are made, and without
  what they except both `NoSecondOrder` (by a warning) and `PositionFollows` (by a late commission)
  would be violated; a late commission needs a third update to make a second order, as in `late`. `CallbackOrder` fixes one order of the
  map of callbacks; the callbacks only push to queues of different threads. All three are
  registered in `plain`; the risk manager's is left out of `faults` and `late`, and the portfolio's, which
  only reads, of `late`. `MaxOrders` also bounds the ids: the next order of an
  exhausted model is never inserted, which stops the algo but no property relies on it.
- Event engine: two types, two names, three events: enough for an event in
  hand, one behind it and the stop event.
- Gate: three algos under a limit of four, ids up to `MaxOrders`; a limit of two in
  `OrderGate_limit`. TWS announces id 2 in `OrderGate_safety`, so that an order sent before
  the announcement is told from a valid one, and ids from -1 without a connection pass
  through zero.
- Recorder: three events give one in hand, one behind it and one that comes late; two starts
  give a restart with events in the queue; four documents, after which MongoDB refuses,
  give a duplicate and failed inserts in any mix (an insert may also fail before).
- Download: two symbols with periods of no chunk, of one in seconds, or of two in
  days (for one symbol at most), which take every branch of the cutting; of two choices that differ
  only in which symbol is which there is one, as nothing in the specification tells symbols apart; two errors, fatal or a
  warning, at any moment. `MaxReqs` is the number of chunks those periods have.
- PnL: two algos, of which one has its prices from another symbol and one holds two, so that
  sums have parts; a symbol without a subscription makes them unset. Two trades tell a stale
  price from a fresh one, two timers and one handled again a stale total. The clock passes a
  full minute, where PnLs are pushed, and may get ahead of the timers.
- Symmetry is used in `OrderGate_limit` only, where no liveness is checked.
- `CHECK_DEADLOCK FALSE` where a strategy may fall silent, ids run out, or,
  in `EventEngine`, the deadlock is the finding itself. The queue is checked for deadlock.

### Fairness

Threads that exist keep running (`WF` on each thread's own steps): the operating
system schedules them and none waits on anything but what the guards say. TWS
deals with a working order (`TwsProgress`): it is filled, cancelled or rejected in the end, the
assumption any trading program makes; it answers or fails each request for
bars, and announces an order id to a client that has connected (`nextValidId`). A thread
inside the gateway comes out of it, an insert into MongoDB comes back. Nobody has to call anything: no fairness
on errors, pushes, sends, owner calls, notes, timeouts or spurious wakeups. In the
queue `NoStrandedItem` therefore rests on `notify_one` alone.

## 4. Proofs

All theorems are proved for any constants that satisfy the named assumptions;
those say what a bound or a set is (a natural number, a finite set, a value that
is not in a set).

- `LBQueueProofs`. `ControlInv` (the mutex's owner is the one thread between a
  lock and an unlock, sleepers are asleep and free of `m`, `call` fits `pc`) is
  inductive and gives `TypeCorrect`. With it, `Fifo` is inductive
  (`FirstInFirstOut`), and so is `NoLostWakeup` (`NoWakeupLost`): a push adds an
  item and wakes a sleeper, who becomes awake; a thread that takes an item
  leaves `Awake`, and one that goes to sleep saw the queue empty. `Implements`
  maps every step to an action of `FifoQueue` or a stutter; the linearisation
  points are the push and the pop under `m`, and for a `try_pop` that fails the
  look at the queue after its wait.
- `OrderFlowProofs`, in six parts.
  1. *Types and cancellations.* `TypeInv` is `TypeOK` with the links it needs: a
     snapshot is filed under its own id, an order being sent or in flight is one IBApi
     knows, callbacks run with an event in hand (`FlowTypeCorrect`). `WaitsForItsEnd` adds to
     `CancelledForARetry` that a retried update exists only in the places named, which
     makes it inductive (`CancelledOnlyForARetry`): the set of retries in the queue
     loses an element only when `update_pos_cb` takes it, and then either puts it
     back or found nothing in flight. `CancelledAtMostOnce` counts requests against
     `order_cancelled` for the order in flight, and says that only orders
     with an id already given out have any (`NoSecondCancel`).
  2. *Step kinds.* For an order, a step is one of a few things: TWS tells a change
     (`Tells`), IBApi reads a message (`Reads`) or drops it, a thread hands its copy over
     (`Hands`), the algo inserts, places, cancels, or fails to (`StepKinds`). The inductive
     proofs below go by kind instead of by action. `PlacedInv` ties TWS to
     IBApi: TWS has only orders IBApi filed, and the last status under way tells what TWS
     filled, or the snapshot does if none is.
  3. *Copies in order* (`BooksAreExact`, `EveryAnswerArrives`). `QueuedIsLatest`: while the
     socket holds, a copy that a thread carries outside the lock is the latest
     snapshot, and so is the last one in the event engine's queue if no thread carries
     one; so no newer copy is ever overtaken. `BooksInv` follows that copy on to the portfolio's
     queue and record, and adds that position and cost are the sums over the
     orders on record, whichever callback comes first and however often a wait
     expires. `AnswersInv` follows it through the algo's queue; the
     difficult case is the answer that comes before `send_order` is back with
     the id (`SentIsUnderWay`: `aq` still has it when the id is filed, since the thread
     that files the id is the one that reads `aq`).
  4. *Nothing is overtaken* (`SnapshotsGoForward`, `BooksNeverGoBack`, `AnswersNeverGoBack`).
     One snapshot is no older than another (`NoOlder`) if it has no less quantity and
     commission, keeps an error, and keeps the status of an order that is over. `NewsInv`: the
     messages of TWS about an order are in order on the wire, none is ahead of what TWS has
     done, and each is no older than what IBApi has on record; so a snapshot is replaced only
     by one no older, on a broken connection too. `OvertakingInv`: the copies are in
     order in each of the three queues and each is behind all that is still upstream
     (`Behind`); and once the algo takes an order for ended, everything queued or upstream says
     the same (`Decided`). A queue either moves up by one or takes the copy that all
     of its elements are behind; `StillInOrder` is that argument, once for
     `eq`, `pq` and `aq`. The books and the algo need the connection (`connected`): after it has
     broken, the error that the sender's thread makes and hands over itself can be overtaken by
     the callback thread with what it still reads.
  5. *One order at a time* (`OneOrderInTheMarket`). `SingleInv`: TWS works on no order but the
     one in flight and the one whose id is on its way back; the one in flight is the one sent last; none is
     in flight while one is sent. The step that could break it is the `order_cb` that clears
     `inflight_order_id`. By `EndsAreKnown` a copy on its way to the algo (`Copies`) that says its order
     is over says so of an order that is over on IBApi's record, and by `NewsInv` at TWS; so if the
     answer is about the order sent last and is no warning, nothing is left in the market.
  6. *The position* (`CurrPosIsExact`). `PositionInv`: `curr_pos` is the sum over the
     tracked orders of what is counted of them, `order_filled` for the one tracked last
     and the quantity on IBApi's record for the others, as long as nothing about one of those is under
     way to the algo (`EarlierAnswered`); if something is, not all is delivered, and the step that takes it is a
     mistake.

  Hypotheses. `PortfolioListens` and `AlgoListens` say that the callback is in the
  engine's table, where the constructors of `Portfolio` and `AlgoEngine` put it; without it nothing
  arrives. `BooksAreExact` has the first, `EveryAnswerArrives` and `CurrPosIsExact` the second;
  the other theorems hold for any registered callbacks. All hold for any notes of TWS and any moment of a
  disconnection, with the exception their properties name. 5 and 6 are about
  `RecordedSpec`, which is `Spec` with the history `mistaken` (`RecordedIsOrderFlow`): they say that repeats,
  late commissions, warnings and errors of a dead socket do no harm but through the
  two mistakes of `order_cb`. The code does not prevent those, and `OrderFlow_late` shows what comes of one.
- `EventEngineProofs`. `GuardedByTheJoin`: while the flag is lowered with the thread
  at a callback, `m` is held by `stop()`, so `register_cb` is either refused
  (`running`) or blocked (`m`). This is why `TableStable` holds although `run()`
  reads the table without the mutex, and what dropping the mutex before the
  join would break.
- `OrderGateProofs`. `OneInside` (whoever numbers, files or places an order holds
  the mutex), `FreshIds` (no id from `m_order_id` on is in use) and
  `IdFollowsStage` make `OwnOrder` inductive. `StartInOrder` ties the stages of the start-up
  together (nobody listens before main has gone past its wait; a connection without a first
  id means main has not; the announcement comes once), so that on a connected client every
  id in use is at least the announced one (`IdsValidAlways`).
- `DataRecorderProofs`. `QueueIsRest` (the queue holds the events accepted last, in order)
  and `HandIsLatest` (the event in hand is empty or the one taken last) say where
  every event is; `LatestTried` (at any point but between `try_pop` and the insert the event
  taken last was tried) carries the refinement over a stop and a restart
  (`RecorderImplementsJournal`). `EmptyHand` gives `SafeOnceFedAlways`.
- `HistBarGetterProofs`. `CutInv` adds to `CutCovers` that the next chunk is to begin
  where the last one ended, or where the period begins; it depends on the cutting
  alone, and every other action leaves it as it is. The arithmetic is that
  of whole days: `left \div Day` of them fit into what is left. `FlowInv` is the bookkeeping:
  ids are filed in order (`Filing`), an end comes once and last (`Ends`), a symbol
  has at most one chunk under way, in the queue or requested (`OneChunk`), which is
  the one after those that ended (`NextChunk`); so the index into its chunks stays in
  range (`HistTypeCorrect`) and nothing is taken off `remaining` twice (`RemainingIsExact`,
  `FinalStatusKnown`). `DataInv` adds where the last bar of the chunk under way is:
  still at TWS, in an event, or collected (`SavedIsComplete`). Saving may fail or throw at any symbol (`SavingCounts`). `SortUnique` is `std::sort` and
  `std::unique` by what they return.
- `ProfitLossProofs`, in three layers. `Reported`: the ticks of a symbol are in the
  event engine's queue in the order of its trades, the latest has the latest price, and
  behind each timer there is no trade it has seen that is not before it or with
  MarketDataManager (`PriceIsExact`). `Timed`: once a timer has left that queue, the trades it saw are
  with MarketDataManager, and the fills it saw are booked or before it in the portfolio's queue
  (`PublishedIsCurrent`). `Valuing`: in the middle of a valuation, the PnL of an algo
  is the worth of the positions valued so far, and the total the sum over the algos that
  had their turn, whatever the algo's and the other threads change meanwhile
  (`PnlIsCurrent`, `TotalIsTheSum`). Each layer rests on the one before.
- `Sums` has what those proofs use of `SumFunctionOnSet`: it is unfolded into a table over the
  subsets of a finite set, and its laws (one element added, removed or changed, elements
  that add nothing) are proved by taking a least set for which they fail.

Every invariant, action property and refinement that a passing run checks is stated by a theorem. Only
model-checked are the liveness properties (`NoStrandedItem`, `InflightResolves`,
`RetryServed`, `RunReturns`, `EventuallyTried`, `StopReturns`, `WaitReturns`,
`StartReturns`): they rest on fairness, and so on ENABLED, which the provers do not handle. So are the four violated properties. The
library's induction theorems take an operator as parameter and cannot be
cited either; where a fact needs induction over data, it is
proved by the least counterexample, as in `Sums`.

## 5. What is not modelled

- Error events: `IBApi::error` also sends an `ib_err_msg` event. The trader registers no callback for
  them, so they are not queued in `OrderFlow`; in `HistBarGetter` they are.
- The uninitialised `Event` in `Portfolio::run_actions` (`portfolio.cpp:79`)
  before the first event: its type is taken to be none the loop acts on. The same in
  `DataRecorder::run_action` is modelled.
- The unsynchronised read of `running` (`event.cpp:55`) is one read of the
  current value; the queue's mutex is taken and released in between reads.
- `cancel_all_orders`, modification of an order (`order_id` set in a request),
  contract details, account messages: no code of the trader reaches them.
- `stop` of the gateway, the portfolio and the algos: the trader's loop never ends, and
  `AlgoEngine::stop` has no caller. After a broken connection nothing is sent any more;
  there is no reconnection in the code.
- The second half of `Trader::run`'s order: the event engine and the recorder are started
  before the gateway and the portfolio after it; each has a model of its own.
- The fields of a document (`to_bson_doc`): a document is known by its event. In the code the
  one of a tick has the ask *size* under `ask_price` (`data_recorder.cpp:13`).
- Redis beyond what throws: the sentinel that ends a subscription, the freeing of replies.
- What `check_risk` makes of a PnL it reads: `total_pnl` and `algo_pnl` are read without the
  mutex, so that in the middle of a valuation a check sees zero or a part of the sum
  (`portfolio.cpp:58-64`); in `OrderFlow` and `OrderGate` the verdict of those
  limits is free, so what is shown there holds for any value read.
- A subscription while `IBApi` is not running (`gateway.cpp:72`): the symbol counts as subscribed
  and never gets a tick. A position valued before its first trade is valued at price zero.
- The list of downloads, time zones and the columns of the CSV file; the pace of requests (`Pace` takes any time);
  the undefined `pop_back()` of `log_status` when nothing was to be downloaded.
- Several symbols or algos in the portfolio's books: entries of different algos do not
  touch each other.

## 6. Plan

Done: `LBQueue`, `EventEngine`, the order flow, the start-up and the gate, the download of
bars, the PnL, the recorder, and proofs of the safety properties of all of them.

Next, in this order:

1. An abstract order book (orders are sent, fill, end; the books and the algo follow later)
   that the order flow implements up to the first mistake, from the invariants of parts 3 to 6.
2. The order flow with several algos over one portfolio.
