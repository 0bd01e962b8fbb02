# Verification of the Vega trading engine

TLA+ models of the Vega quantitative trading engine (`src/vega`, Python), the TLC
runs that check them, and the TLAPS proofs of the results that matter most. The
models are translated from the code; what the documentation says of the code and
the code does not do is kept as a set of refuted properties.

## 1. The system

Vega replays bars through a strategy, a risk gate, a simulated broker and a
portfolio (the backtest), and has beside it a realtime tick pipeline, broker
connectivity, telemetry and market plumbing.

| component | code | state it keeps | operations | talks to |
|---|---|---|---|---|
| Backtest engine | `engine/backtest.py` | order log, trades, equity curve, the projection of one batch | `run` | all of the below, by plain calls |
| Paper broker | `broker/paper.py` | `_orders`, `_fills`, two failure hooks | `place_order`, `cancel_order`, `execute_order`, `execute_pending_orders` | engine |
| Order model | `orders/models.py` | status of an order | `transition_to` | broker, engine |
| Risk manager | `risk/manager.py` | kill switch | `validate_order`, `classify_order_effect` | engine |
| Portfolio | `portfolio/portfolio.py` | cash, position, per-day profit, peak and drawdown | `process_fill`, `mark_to_market` | engine |
| ATR grid strategy | `strategy/atr_grid.py` | grid, triggered levels, legs, pending ids | `on_bar`, `on_fill`, `reanchor` | engine |
| Stop-and-reverse strategy | `strategy/stop_and_reverse.py` | position and state, the history of the averages, last crossover direction, crossover count | `on_bar`, `on_fill` | engine |
| Realtime pipeline | `realtime/*` | bounded queue, bar builders, tasks, metrics | `start`, `stop`, `add_tick`, `flush` | callbacks |
| WebSocket client | `broker/websocket.py` | connection state, last sequence, buffer | `connect`, `reconnect`, `handle_tick`, `close` | transport, callbacks |
| Rate limiter, retry, auth | `broker/rate_limiter.py`, `retry.py`, `auth.py` | times of the admissions in the window, attempt counts, access token | `acquire`, `execute`, `refresh_token`, `request`, each also `_async` | HTTP transport |
| Redis cache, REST API | `cache/redis_cache.py`, `api/app.py` | one value per key | `set_position` .. `set_system_status`, `rehydrate`, `clear`; `GET /portfolio`, `GET /status` | portfolio, dashboard |
| Walk-forward | `engine/walk_forward.py` | windows and their results | `get_windows`, `run` | backtest engine |
| Markets | `markets/*` | contract calendar, cost schedules | `check_rollover`, `calculate_costs` | - |
| Macro regime | `macro/*` | snapshots | `classify`, `adjust_params` | engine, strategies |

Indicators, loaders, storage, reporting, dashboard, the Kite stub and the scripts
are numerics, input and output or formatting; `PROJECT.json` lists each with the
reason it is left out.

**What is hard here.** The backtest is single-threaded, so nothing races; what can
go wrong is *state that is read at one time and relied on at another*: orders are
validated one by one against a projection of fills that happen on the next bar, in
an order chosen by the broker; the strategy keeps its own position and legs beside
the portfolio's; statuses of one order live in the broker's book, in the order log
and in the strategy; ids are derived from grid levels and come back. Then the
failure paths: a rejected order, a resubmitted id, an exception in the middle of a
batch, the end of data. The realtime and connectivity parts add tasks, queues,
reconnection and shutdown; a
shared limiter and a shared token make concurrent requests depend on each other; a cache
outlives the process that wrote it. The list of hazards, each at its line and with the
properties that watch it, is in `PROJECT.json`.

## 2. Modules

| module | models | state and actions |
|---|---|---|
| `Money` | `round_money`, Python's `round` | amounts are integers of paise; `RoundDiv` rounds a quotient half to even |
| `Orders` | `orders/models.py` | sides, statuses, `LegalTransitions`, signed sizes |
| `RiskManager` | `risk/manager.py` | `kill_switch_active`; `ClassifyOrderEffect`, `IsAllowed` |
| `PaperBroker` | `broker/paper.py` | `orders`, `pending`, `fills`, the hooks; one action per call and outcome (`PlaceNew`, `PlaceExisting`, `PlaceRejected`, `PlaceRaises`, `CancelOrder`, `ExecuteOrder`, `ExecutePendingOrders`) |
| `Portfolio` | `portfolio/portfolio.py` | `ProcessFill` with the eight position transitions as `AverageAfter`, `RealizedBy`; `MarkToMarket` |
| `PortfolioClient` | the portfolio alone | any sequence of fills and marks |
| `BacktestEngine` | `BacktestEngine.run` | extends the four above; `phase` is the place in the loop body, one action per place and outcome |
| `OrderLedger` | what a run promises about orders | `Accept`, `Decline`, `Settle`, `CancelAll` |
| `AtrGrid` | `strategy/atr_grid.py` | `OnBar` (batch by `BarOrders`), `OnFill` |
| `GridBacktest` | engine and grid together | `SignalGrid`, `SettleGridFill`, `SwitchKill`, the engine's other steps |
| `BarAccumulator` | `RealtimeBarAccumulator`, `get_bucket_start`; `data/tick_aggregator.py` | the bar in progress, completed bars, counters; `AddTick`, `Flush`; `AggregateTicks` is the batch aggregation |
| `RealtimePipeline` | `realtime/pipeline.py`, `producer.py`, `consumer.py` | extends the accumulator; queue, tasks and driver, one action per stretch between two suspension points |
| `WebSocketClient` | `broker/websocket.py`, `RetryPolicy.execute` of `broker/retry.py` | state, subscriptions and stream of the client, the transport's state; one action per call, connection attempt and tick of a gap |
| `RateLimiter` | `broker/rate_limiter.py` | `clock`, `timestamps`, `admissions`; `Admit`, `Postpone`, `Live` is the deque after its eviction |
| `ApiClient` | `APIClient` and token provider of `broker/auth.py`, `RetryPolicy.execute_async` | extends the limiter; `calls`, tokens, the server's token; one action per stretch of a request between two suspensions (`Begin`, `Admitted`, `Serve`, `Finish`, `BackOff`, `Retry`, `Resend`, `GiveUp`) |
| `StopAndReverse` | `strategy/stop_and_reverse.py` | `SarOrders` and `SarOnBar`, `SarOnFill` |
| `WalkForward` | `engine/walk_forward.py` | extends `BacktestEngine` and `StopAndReverse`; `window`, `slice`; `RunTrainSlice`, `NextWindow`, each a `FreshRun` |
| `Telemetry` | `cache/redis_cache.py`, two endpoints of `api/app.py` | extends `Portfolio`; `redis`, `todo`; the setters (`Publish`), `Clear`, `rehydrate` key by key, Redis failing and restarting, `Restart` of the engine's process; the answers as `PortfolioReply`, `StatusReply` |
| `TickDelivery` | what a pipeline promises about the ticks it accepts | `Accept`, `Take`, `Process`, `Drop`, `End` |
| `MC...` | constants for TLC | |
| `...Proofs` | theorems | see section 5 |

**The loop body.** `OPEN` -> (`OpenFirstBar` or `OpenBar`: step 1, execution at the
open) -> `SETTLE` -> (`SettleFill`, once per fill) -> (`Signal`: steps 2 and 3, and
the reads of step 4) -> `VALIDATE` -> (`RefuseOrder`, `ApproveNew`,
`ApproveExisting`, `ApproveRejected`, or `AbortRun` when `place_order` raises, once
per order) -> (`CloseBar`: step 5; on the last bar `FinishRun`: steps 5 and 6). A
call inside the body is part of the step that makes it: `ExecutePendingOrders` fills
*all* pending orders before the first fill is handed over, as the code does.

**The strategy** in `BacktestEngine` is any object with the `BaseStrategy`
interface: `Signal` draws any batch of at most `MaxBatch` proposals, any pyramid
count, and any setting of the risk manager's kill switch and the broker's hooks
(only code called from `run` can change them while it runs, and only `on_bar` and
`on_fill` are called back). `GridBacktest` replaces that choice by the grid
strategy's own batch.

**Two history variables** carry the argument about the cap: `approved_positions`,
the projected position at each approval that is not settled yet, and
`phantom_approval`, set when an order was approved and `place_order` returned
something that was not queued. They are written, never read, by the engine's actions.

**The pipeline.** asyncio switches tasks only at an `await` that suspends, so a step is
what a task does between two of them. A consumer is `IDLE` (waiting for the queue),
`ON_TICK` (a tick in hand, `on_tick` awaited) or `ON_BAR` (`on_bar` awaited); its task
ends by `ConsumerReturn`, `ConsumerCancelled` or `CallbackRaises`. The driver is
`run_until_complete` (from `AWAIT_PRODUCER`) or a `stop` at any time (from `OPEN`); both
go `AWAIT_PRODUCER` -> `JOIN` -> `GATHER` -> `DONE`. The timer of `wait_for` fires at
most once, at any time: `TimeoutAbsorbed` while the producer is awaited, because the
cancellation goes to the producer's task, and `produce` catches it and returns normally;
`Timeout` later, which goes through `_cancel_all` (`CANCELLING`) to `TIMED_OUT`. The task
that waits for the queue is `wait_for(queue.get(), 0.05)`, and `wait_for` is external: on
Python 3.11, which the Dockerfile names, it returns the tick of a `get()` that is done even if
its caller was cancelled meanwhile. So a cancelled consumer with ticks in the queue takes the
next one and its cancellation is lost (`TakeTick`); `ConsumerCancelled` ends one at an empty
queue or in a callback. The lock around
`add_tick` is never held across a suspension and is left out. `applied`, `processed`,
`dropped` and `raised` are history.

**The WebSocket client** is synchronous and has no thread of its own. Other calls can come
between its steps only where it hands control away: in the sleep between two connection
attempts (`attempt > 0`, then `Retry`) and in `on_tick` (`missing`, `incoming`, then
`ApplyMissing`, `ApplyIncoming`). The transport may drop, forget its subscriptions, fail an
attempt or a resynchronisation, and deliver any tick at any time, since `handle_tick` looks
at nothing but the number.

**A request** is one task. It can be suspended in the limiter's sleep (`WAITING`), in the
transport (`IN_FLIGHT`) and in the sleep before a retry (`BACKOFF`); between those nothing
of another task comes in, and a refresh of the token does not suspend. `Begin` therefore
asks the limiter and reads the token in one step. The sleeper of a full window is
`Admitted` without a second look at the window, as in the code. The server (external)
honours one token at a time: a refresh makes it forget the one before. `contended`,
`refused` and `expired` are history.

**The walk-forward evaluator** runs the engine once per slice. `FreshRun` is what the
constructors leave behind: broker, risk manager, portfolio, and the strategy's clone.
`behind` and `tested` are history.

**Telemetry.** The engine's process has one thread, so its books rest while it is inside
`rehydrate`; Redis and the API are other processes, and so Redis can fail between two keys and
the engine's process can end there. A crash is a restart with fresh books: nothing reads the
cache back into a portfolio. The API is the application that `api/app.py` builds: `create_app`
with a cache and nothing else, so it falls back on a default portfolio and a default status of
its own (`DefaultCash`), not on the engine's. Its cache may differ from the engine's in
`fail_silent` (the parameter `silent` of the replies): if it is not silent a read of an
unreachable Redis raises and the endpoint fails (`Raises`, `Failure`). The cache the module
builds is silent.

### Abstractions

- One symbol. Python dates are days, timestamps are bar indexes.
- Prices and fees are whole paise. The broker rounds floats; where a float is
  exactly half-way the model rounds to even, which is what `Decimal` does and what
  `round` does for a representable half. `SlippageBps` below 10000: a slippage of
  100% or more would make a sell price negative. Prices are such that a sale is
  filled at a paisa or more (`BrokerAssumption`): at a price of 0 the constructor of the
  fill would raise when the order is FILLED already (`paper.py:254-256`).
- The dict order of `_orders` is kept only for `PENDING` orders (`pending`); the code
  observes no other order.
- An empty list of bars returns at once and is not modelled (`NBars >= 1`).
- `drawdown_pct`, summary percentages, reasons and signal prices are not modelled.
- The grid's spacing is a constant and its epoch is 1: `reanchor` has no caller in
  `src/vega` outside the strategy itself. `register_entry` is a test fixture.
  The fallback of `on_fill` for unknown ids is unreachable in a run, since every
  fill is of an order the strategy proposed.
- The pipeline's ticks are positions in its feed; time is whole seconds from a midnight
  (the bucket arithmetic of the code per minute, hour or day is `BucketPeriod`). The
  producer's delay is the scheduler's freedom. The consumers' 0.05 s poll of an empty
  queue repeats the loop without a change. Callbacks return, suspend or raise, and do
  not catch a cancellation. The caller cancelling the driver has the effect of the timer.
  Both drivers at once and a second `start` of a pipeline are not modelled.
- `aggregate_ticks` refuses an empty list and knows the widths of its `FREQUENCY_MAP`; in the
  model an empty list has no bars, and the run's bars of 40 seconds, which the accumulator
  accepts, show what happens at the end of a minute in few ticks. The bucketing is the same
  for every width.
- Sequence numbers are 1 .. `MaxSequence`; the client's counters of drops and
  resynchronisations, which nothing reads, are left out. One connection attempt is under way
  at a time, and none of its failures is one of the policy's `non_retryable_exceptions`
  (empty by default, `retry.py:104`). `on_tick` does not call `handle_tick`: the branches for a
  tick that is behind by the time it is its turn (`websocket.py:342-343`, `354-355`) are only
  reached that way. The clock is the flag `stale`.
- Rate limiter and requests: time is a whole number. The metrics counters and the evictions
  of `current_count` are left out. A refreshed token is one that was never seen before;
  the refresh function may raise. If the server had replaced the token before the refresh
  raised (its answer was lost), the client is where an `Expire` and a refresh that raises leave
  it, with a token the server does not honour; `expired` includes such tokens. The transport has
  a time limit of its own. `request` is
  `request_async` with one request under way at a time.
- Stop-and-reverse: a bar carries how the averages stand after it (-1, 0, 1); bars have one
  price. `set_state`, which sets up tests, is not modelled. Train slices are evaluated only
  if they are as long as the test slices.
- Telemetry: one symbol; the setters publish what the process knows at that moment; the
  API's reads of one portfolio are taken together. `rehydrate` is called with the prices the
  process knows and its status, as the test of the repository does; both may be left out, and
  nothing in `src/vega` calls it.
- `position_cap_override` of `validate_order` is never passed by the engine; `IsAllowed`
  takes the cap as a parameter and the engine passes `MaxPositionSize`.

## 3. Runs

| run | properties | bounds and why they are enough |
|---|---|---|
| `broker` | book, queue and log agree; orders only progress | three ids, one submitted under three sets of terms, all interleavings of calls and hooks: every pair of calls on one id and on two ids occurs |
| `portfolio` | equity against profit, flat book, daily sums | sizes -3, -1, 1, 2 reach every branch on both sides; prices a paisa apart round the average up and down; volume at most 6 |
| `engine_cap` | cap, projection, order of fills, log | three bars, batches of two from five orders that open, add, reduce, close and reverse; cap 2 can be reached from both sides |
| `engine_hooks` | refinement of `OrderLedger`, gates, liveness | two bars, batches of two, one id with conflicting terms, every setting of kill switch and hooks on each bar, VIX on both sides of the breaker's 20, slippage that makes a round trip within one open reach the loss limit |
| `grid` | the strategy's books against the portfolio's | five bars from five shapes that cross no level, one side, both sides and gap; both regimes; broker rejections; loss limit; one turn of the strategy's kill switch |
| `pipeline` | counters, bars against ticks, clean shutdown, refinement of `TickDelivery`, liveness | one or two consumers, a queue of two, an ordered feed of four ticks and one of five with equal and late times, bars of 40 seconds (which restart every minute); the producer blocks, ticks overtake each other, callbacks raise and the timer fires in every place |
| `websocket` | contiguous stream, live connection, terminal state, liveness | four sequence numbers in any order and number of deliveries, every set of lost ticks the store may have, two symbols, two attempts; a gap of two is filled wholly, partly or not at all |
| `walk_forward` | the strategy's position, one lot, trend, cold start of each window, coverage of the bars | slices of six bars with a slow period of two, so that several crossovers, a meeting of the averages and a kill switch on and off fit into one run; windows that touch, windows that overlap, one with its train slice, none; rejections, a bearish day, loss limit |
| `api` | the limit, cause of authentication errors, liveness | two requests and a third user of the limiter, two admissions per window of two, two attempts, one expiry: both requests can sleep in the limiter at once, retry, and refresh against each other |
| `telemetry` | the count of `rehydrate`, answers of the API, recovery | a position, long or short, is opened, marked and closed; one restart; Redis fails, comes back with or without its data, in every place; both settings of `fail_silent` |
| `pipeline_hang`, `grid_always_cap` | refuted documentation, section 4 | the bounds of `pipeline` and `grid`, in `pipeline_hang` a queue of one and callbacks that never raise |

Deadlock is not an error in the runs of the engine, of walk-forward, of the pipeline and of the
requests: they end (`DONE` or `ABORTED`; `END`; `DONE` or `TIMED_OUT`; every request `DONE`).
The broker, the portfolio, the WebSocket client and the telemetry always accept a further call.

**Properties worth knowing.** `PositionWithinCap` says that no single fill of a batch
takes the position over the cap. The gate never looks at the fills: it holds because
the fills of an open come in the order in which the orders were approved
(`FillsLandOnApprovedPositions`) and because the projection is exactly what the books
will show (`ProjectionMatchesBook`). `ImplementsLedger` is the refinement: with
`ObservedStatus` (an executed order whose fill is not handed over yet is still
pending) a run is a queue of orders that are settled oldest first or cancelled
together. `LogMatchesBook` relates the engine's order log to the broker.

In the pipeline, `ImplementsDelivery` says that ticks are taken in the order of
acceptance, each once, and that nothing happens to a tick after the driver's call has
returned: no task is orphaned. `BarsMatchTicks` compares the incremental accumulator with
a definition of the bars by set of kept ticks, in whatever order the consumers apply them;
`SingleConsumerMatchesBatch` then says that with one consumer the realtime bars are those
of the batch aggregation, wherever the pipeline was stopped.

`ShutdownReturns` is the liveness of the shutdown, with the two states in which it can hang named:
`Abandoned`, when callbacks have ended every consumer and the timer was absorbed by the producer,
and `CancellationLost`, when `_cancel_all` awaits a consumer that took a tick instead of its
cancellation. Every callback may raise and the timer may fire anywhere, and the run shows that
these two are all there is; `ShutdownNeverHangs` (section 4) shows the second without any exception.

`SequentialUseKeepsLimit` is the promise of the rate limiter over *every* window, as far as it
goes: it can break once somebody asks the limiter while another caller sleeps in it.
`AuthErrorMeansTwoTokensRefused` counts tokens, not attempts: no mixture of retries, broken
connections and refreshes by others turns one refusal into an authentication error or hides
two, and `AuthErrorHasCause` names who took the second token away.

`FollowsTrend` relates the books to the averages without mentioning crossovers: the strategy's
deduplication by direction, equal averages, refused orders and the kill switch all lie between
the two. `TestBarsOnce` compares the bars that were actually traded with what the windows promise.

`CountIsHonest`, `RepliesAreCurrent` and `CacheCatchesUp` say what a caller of `rehydrate` may
conclude from its count, what a reader of the API may conclude after it, and that calling it
again repairs the cache after any outage, also for a position closed during the outage. What the
reader may rely on are the answers whose source is the cache: those of the "domain" are the API's
defaults (section 4).

**Fairness.** In the engine `FairSpec` adds `WF_vars(Next)`: `run` is one sequential loop over a
finite list without waiting, so whenever it can take a step it takes one. No
individual action gets fairness of its own. Liveness
(`AcceptedOrdersResolve`) is checked under it alone. In the pipeline each task has weak
fairness (the event loop runs every ready task, callbacks return) and so has the timer,
which fires if the call is still running; `Stop` has none, since it is the caller's choice.
In the WebSocket client a sleep ends and a call of `handle_tick` goes on; nothing else has
to happen. A request's fairness is that time passes, that the event loop resumes it and that
its send is answered, if only by the transport's time limit. `rehydrate` waits for nothing, so
its next write is made; that it is called again, that Redis answers and that the books rest are
premises of `CacheCatchesUp`, not fairness.

## 4. Where documentation and code differ

| property | what is said | what the code does |
|---|---|---|
| `ShutdownNeverHangs` | `pipeline.py:27`: non-deadlocking shutdown even when the producer is blocked on a full queue; `pipeline.py:316`: `_cancel_all` guarantees that no pending task remains | a timeout with ticks in the queue cancels each consumer once; one that waits for the queue gets the next tick instead of the cancellation, goes on polling, and `_cancel_all` awaits it for ever, without any callback having raised |
| `CapAlways` | `backtest.py:347-350`: orders of a batch cannot collectively breach the cap | an exit the broker rejected is proposed again under its id; `place_order` returns the stored rejected order, `run` moves the projection all the same, and later orders fill past the cap |

Read in the code and not run:

- `backtest.py:17-18` says that all remaining pending orders are cancelled; an order the broker
  rejected is logged PENDING and stays so. `backtest.py:100` calls the order log an audit log;
  a later fill of the id overwrites the REJECTED record of an earlier attempt.
- `orders/models.py:67` says that ids are unique; the grid's flatten order has one id per epoch,
  and a second flatten raises `IdempotencyConflictError` out of `run`.
- `risk/manager.py:13` limits same-direction legs; the projected count follows the net position,
  and netting entries reset it while both sides' legs stay open.
- `test_atr_grid.py:277` says that the grid never exceeds its cap; its test ignores the exits of
  the same bar.
- `config.py:42` says that the daily loss limit triggers the kill switch; it only refuses the
  orders of that date.
- `websocket.py:259` says that `close` terminally closes the connection; a client that closed
  itself only set its state, and `close` then returns at its check with the transport connected.
  `websocket.py:48` calls CLOSED terminal; a client closed during a backoff is set CONNECTED by
  the attempt that follows.
- `pipeline.py:65` says that every produced tick is consumed at completion; a callback's exception
  ends its consumer silently and its tick is not consumed, which is why `CleanShutdown` asks for
  `~raised`. When raising callbacks have ended every consumer and the producer is blocked on the full
  queue, the timeout is absorbed by the producer's task and the driver waits in `queue.join()` for
  ever (`Abandoned`). A timeout that is absorbed otherwise lets `run_until_complete` return normally with a feed cut
  short.
- The rate limiter's sleepers are admitted without a second look at the window: concurrent callers
  of `acquire_async`, or one `try_acquire` during a sleep, exceed `max_requests`. Retries and the
  second send after a 401 do not pass the limiter.
- A refresh function that raises does so with its own exception out of `request`; two requests that
  refresh against each other can both end in an `AuthenticationError` with valid credentials.
- The stop-and-reverse strategy notes the direction of a crossover even if the order is refused,
  and the bars of its kill switch hide crossovers: it is not always in the direction of the trend
  (`FollowsTrend` names the exceptions). Its flatten order has one id for ever.
- `_clone_strategy` resets the attributes it knows; a strategy of another class keeps the rest,
  and a factory may return one instance for every window. Windows overlap when `step < test_size`.
- The repository's `README.md:504` says that a response with source "domain" is served directly
  from the authoritative trading engine, and `README.md:18` that the API falls back on it when
  Redis fails. `app.py:290` builds the application without a portfolio: `GET /portfolio` falls back
  on a `Portfolio` of 1,000,000 that no fill ever reaches (`app.py:137`), whatever the engine has
  traded.
- `GET /portfolio` without a cached value always answers `unrealized_pnl` 0.0 (`app.py:201` looks
  for a method the portfolio does not have). `GET /status` falls back on the defaults of
  `create_app`, RUNNING without a kill switch. An API whose cache is not silent answers HTTP 500
  while Redis is away, where `app.py:184` says that it falls back gracefully. `rehydrate` writes a status without details (`redis_cache.py:313`), so a published kill
  switch is lost; it does not delete the keys of symbols the restarted process has not traded.

`PositionWithinCap` and the other invariants that speak of approved orders excuse runs
with a `phantom_approval` for the reason `CapAlways` shows.

## 5. Proofs

All theorems are checked by TLAPS for every value of the constants. Every safety invariant and
every action property that a passing run checks is a theorem, and so are both refinements; only
liveness is left to TLC.

The assumptions are the ones the models name, which TLC evaluates in every run that uses the
module: `RiskAssumption`, `BrokerAssumption`, `PortfolioAssumption`, `ClientAssumption`,
`EngineAssumption`, `GridAssumption`, `GridBacktestAssumption`, `SarAssumption`,
`WalkForwardAssumption`, `AccumulatorAssumption`, `PipelineAssumption`, `WebSocketAssumption`,
`RateLimiterAssumption` and `ApiAssumption`. They say that sizes and prices are naturals, that
the hooks are Booleans and the signs of the averages -1, 0 or 1, that dates, consumers and
requests are finite sets, that powers of a natural backoff factor are naturals, and that the
orders a strategy builds are among the well-formed proposals; this last one is where
`orders/models.py:98-99` comes in, which refuses an order with a negative price
before it reaches the engine. `BrokerAssumption` also excludes prices at which a sale would be
filled for nothing. `TelemetryAssumption` bounds a run; no proof uses it.

| module | theorems | inductive invariant |
|---|---|---|
| `BooksProofs` | the broker's book, queue and log; the portfolio's equity, drawdown, flat book, daily sums | `BrokerInv`, `PortfolioInv` |
| `BacktestEngineProofs` | the cap, the order of fills, log, times, gate, projection, refinement of `OrderLedger` | `RunInv`, with `LogInv`, `TimesInv`, `GateInv` on top |
| `GridBacktestProofs` | position and legs of the grid | `GridInv` |
| `WalkForwardProofs` | position and trend of stop-and-reverse, cold start, coverage of the bars | `WalkInv` |
| `RealtimePipelineProofs` | queue, counters, bars, batch agreement, shutdown, refinement of `TickDelivery` | `PipelineInv`, with `ConsumedInv`, `AppliedInv`, `OrderInv` on top |
| `WebSocketClientProofs` | stream, connection, terminal state | `StreamInv`, `AttemptInv` |
| `ApiClientProofs` | the limit in sequential use, the meaning of authentication errors | `ApiInv`, `SequentialInv` |
| `TelemetryProofs` | the count of `rehydrate`, the API's answers | `CacheInv` |

**The books.** The conjunction of types, `QueueMatchesBook` and `OneFillPerFilledOrder` is
inductive. The hard case is `Dequeue`: removing one order keeps the rest of the queue without
repetition (`DequeueProperties`). `EquityMatchesPnl` is not inductive: `PortfolioInv` adds that
the open profit is the one of the latest price and that the traded volume covers the position;
`DriftIsCostBasis` turns the difference of equity and profit into cash plus cost basis, in which
prices cancel, and `AverageCost` bounds what one rounding adds by half a paisa per lot held
(`RoundDivError`). `DaysAddUp` needs the sum over the dates to be a sum: `SumOfIs` shows that
the library's fold over a finite set equals a running sum that removes one element at a time, and
from there that changing the value of one date changes the sum by as much.

**The engine.** `EngineInv` says that the approved positions are the running sums of the position
and the outstanding orders, *in the order in which they will be filled*, each within the cap, and
that the gate projects from the last of them (`ApprovedPath`); in `SETTLE` the outstanding orders
are the fills, otherwise the broker's queue (`LedgerQueue`). Each approval extends the path by one
within the cap, each settlement drops its head, which is the position it lands on.
`PhaseDiscipline` says where orders and fills can be outstanding at all, and the broker's and
portfolio's invariants are carried along (`RunInv`). On top of it:

- `LogInv`: each entry of the order log shows what the broker shows, or what it showed before the
  fills that are still to be handed over.
- `TimesInv`: every order on its way was proposed on the bar before its execution, also when its id
  has been proposed before, because the note of the latest proposal is what the trade reports.
- `GateInv`: what the gate read at the beginning of a batch is still what the books say, since
  nothing moves them while the batch is validated.
- `ProjectionCountsOnce`: the projection is a fold over the pending orders in the code; the
  invariant has it as the end of a path, and the two are the same sum.
- `EngineImplementsLedger`: one step of the ledger or a stutter for each step of the engine.

**The strategies.** Their modules build on `RunInv` and on one lemma that says what each step of
the engine is to a strategy. `GridInv` is about the orders on their way (`DueOrders`): each opens a
leg that is not there, closes one that is, or is a flatten order, which is on its way alone; ids of
different levels differ, so no two of them meet. The sum of the legs is then the position by lemmas
on what appending to, and filtering, a list of legs does to the sum. `WalkInv` says that at most one
order is on its way and that it takes the position to one lot of the strategy's size or to nothing
(`PositionInv`), that a strategy has as much history as bars since its window's start (`ColdInv`),
that its last direction is the side of its position or of its order (`TrendInv`), and which bars
were tested (`TestedInv`).

**The pipeline.** `TicksInv` says that every accepted tick is in exactly one place (processed,
dropped, in hand, queued), and that the queue is the last of the accepted ones in their order; each
step is one of four kinds (accept, take, finish, lose) and each kind keeps it. `CountInv` adds that
`join` waits for exactly what is queued or in hand, `DriverInv` what has ended at each place of the
driver. `CleanShutdown` and the refinement of `TickDelivery`, step by step, follow. `BarsInv` keeps
the bar in progress one that the constructor accepts, and `ConsumedInv` makes the consumers' counts
sum to the processed ticks.

`BarsMatchTicks` compares state with a definition over all applied ticks. `AppliedInv` says that
bucket by bucket the bar is the one its group of ticks describes (`Describes`: the first and the
last tick, the extreme prices, the volume), that the completed bars come in increasing buckets and
are those of all kept buckets but the current one (`Tells`). `GroupsGrow` and `LateStays` say what
one tick more does to the groups. `PipelineMatchesBatch` adds `OrderInv`, that one consumer applies
the ticks in the order of the feed, and that buckets do not decrease with time, also where a bar
restarts with its minute or hour, so that no tick of an ordered feed is late.

**Connectivity.** `StreamInv`, the contiguous stream with the types it needs, and
`ConnectedMeansLive` with `AttemptInv` (a sleeping attempt never shows as connected) are inductive;
`ClosedStaysClosed` needs no invariant. `LimiterInv` says that the deque is the end of the history
of admissions and that what it has evicted is out of every window that can still matter.
`SequentialInv` is what makes the sequential promise true: without contention at most one caller
sleeps, behind a full deque, until its head has left. `AuthHistory` ties the refused tokens of a
request to the round it is in, `TokenInv` ties the client's, the server's and the sent tokens to the
refresh count.

**Telemetry.** `CacheInv` follows a `rehydrate` through its keys: what is still to write is the end
of the list (`RehydrateInv`); while nothing was lost, at least `count` of the keys that are done
show the engine's state (`ShownInv`); and if none was refused, no key that is done is stale, whatever
Redis has lost, and each shows the engine's state while it has lost nothing (`StaleInv`). The second
half is what `RepliesAreCurrent` needs and the count alone does not give.

Only model-checked: the liveness properties `AcceptedOrdersResolve`, `ShutdownReturns`,
`AttemptsResolve`, `RequestsEnd` and `CacheCatchesUp`, since the provers here know neither `ENABLED`
nor fairness; and the two refuted properties of section 4, whose counterexamples TLC finds.
No theorem says what a recursive definition computes for every input: the models use folds and
recursive functions, and the proofs reach them through a running sum that is shown to exist.

## 6. Not modelled

- Contract rollover: `check_rollover` returns a pair of orders and nothing in the repository places
  them, so what becomes of one leg without the other has no code. Transaction costs and the macro
  regime's classification are functions without state; the engine does not call the cost model, and
  its own circuit breaker is in `BacktestEngine`.
- Indicators: floating-point numerics over arrays. The strategies see them as inputs.
- Contract master: tables. Data loading and storage, reporting, dashboard, configuration: input,
  output and formatting. The Kite broker is a stub whose methods raise. Scripts and agents are
  tools outside the running program.
- Of the modelled components: several symbols in one portfolio, `reanchor` of the grid, a second
  start of a pipeline, endpoints that do not read the cache, summary statistics.

What is worth proving next: that the cap holds while no stored order is rejected, as a theorem
rather than as an excuse in the invariants; and one module for the facts about sums over finite
sets and sequences that the books, the grid and the pipeline each state for themselves.
