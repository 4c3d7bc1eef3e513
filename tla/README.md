# A verification project for sysls

sysls is an asynchronous trading framework in Python: strategies receive market
data from an event bus, ask for orders, and an order management system (OMS)
executes them on a venue, simulated (`paper`) or live (ccxt, Interactive
Brokers, tastytrade).  This directory holds TLA+ models of its core, TLC
configurations that check them on small instances, and proofs of the theorems
that hold for every instance.  Paths below are relative to `src/src/sysls/`.

Check a model with `tlc -config Oms.cfg MCOrderManagement`, a proof with
`tlapm CoreProofs.tla`.

## 1. The system

Everything runs on one asyncio event loop: a task runs undisturbed until it
awaits something that suspends it.  A step of a model is what one task does
between two such points; that is the granularity at which things can go wrong.

| part | state | operations | interacts with |
|---|---|---|---|
| event bus `core/bus.py` | a priority queue, the subscriptions, a sequence counter, `_running`, the dispatcher task | subscribe, unsubscribe, publish, start, stop, the dispatch loop | everything below publishes to it or is called by its dispatcher |
| OMS `execution/oms.py` | the orders and their status, positions, venue ids | submit_order, cancel_order, handlers of four events | awaits the venue; handlers run in the dispatcher |
| paper venue `execution/paper.py` | orders, positions, balances | submit_order, cancel_order, get_positions | publishes OrderAccepted, FillEvent, OrderCancelled |
| live venues `execution/venues/` | a client, and whether it is connected | connect, disconnect; the same as the paper venue, as requests to an exchange; get_order_status | translates requests, statuses and positions; publishes OrderAccepted and OrderCancelled; never a fill |
| reconciler `execution/reconcile.py` | none | reconcile | reads OMS and venue positions |
| risk engine `strategy/risk.py` | its own positions, open orders, peak value | check_order, five limits, on_position | hears of positions by PositionEvents, which have the lowest priority |
| portfolio constructor `strategy/portfolio.py` | none | targets to quantities, to deltas, to orders | asks the risk engine about each order |
| simulated clock `core/clock.py` | the time, the pending timers | schedule, cancel_all, advance_to | awaits callbacks, which call it again |
| replay `backtest/replay.py`, strategies `strategy/base.py` | latest prices, trade log, equity curve | run; a strategy's handlers, request_order | publishes a bar, waits until the bus is idle; routes the orders of the strategy to the OMS |
| vectorized backtest `backtest/vectorized.py`, `metrics.py`, walk-forward `optimize.py` | none | run_vectorized_backtest, grid_search, walk_forward | calls a signal function on arrays of prices |
| stores `data/store*.py` | the rows of each symbol, in memory or in ArcticDB | write, read, append, list_symbols, has_symbol, delete | library calls in threads |
| connector `data/polygon.py` | a client; per stream a queue, a thread and a socket | connect, disconnect, three requests for history, three streams | a websocket thread hands messages to the loop |
| signals `strategy/signal.py`, router `execution/router.py` | latest signals; a dictionary of venues | update, combine; route | used by nothing in the repository; not modelled |

What is hard here, and what each part must do right:

* **Suspension points.** `submit_order()` awaits the venue and assigns a status
  afterwards; the dispatcher may have handled an acceptance or a fill of the
  same order by then.  The OMS must never move a status backwards or lose a fill.
* **Delivery.** Events of one priority are promised in FIFO order, handlers
  publish from within the dispatcher, a queue may be bounded, `stop()` promises
  to drain, and a bus may be started again.
* **Lag.** The OMS lags behind the venue and the risk engine behind the OMS.
  Positions must agree once nothing is on its way, and limits are checked against
  positions that are old.
* **Failure.** A venue may raise after it took an order, a bus may be stopped
  between the steps of one operation and then refuses events whose order is booked already,
  a rebalance may be sent in part.
* **Re-entrancy.** Timer callbacks schedule, cancel and advance the clock that
  is firing them.
* **Threads and connections.**  Library calls run in threads: another client comes
  in between a check and the act, a stream holds a thread of the pool until its
  connection drops, also after it was closed, and a `connect()` may be overtaken by a `disconnect()`.
* **Arrays.**  Signals, positions, prices and equity are shifted against each other,
  and an index off by one trades on a price it has not seen.

The hazards, each at its line, are in `PROJECT.json`.

## 2. The modules

| module | models | how |
|---|---|---|
| `PriorityLanes` | what users of the bus rely on | abstract: a FIFO lane per priority |
| `EventBus` | `core/bus.py` over `asyncio.PriorityQueue` | tasks: publish() calls, stop() calls, one dispatcher per start() |
| `MCEventBus` | instances | an order event, a fill and a position event; a handler that publishes |
| `CoreProofs` | | theorems about `EventBus` and `SimulatedClock` |
| `OrderLifecycle` | `OrderState`, `_VALID_TRANSITIONS` and what each event does to a status | operators |
| `ExecutionReport` | what users of the OMS rely on | abstract: the report lags, never lies |
| `OrderManagement`, `OrderManagementProofs` | `oms.py`, `paper.py` and `reconcile.py`, over the bus as two lanes | extends `OrderLifecycle` |
| `Positions` | the arithmetic of `_update_position` | operators over exact fractions |
| `PositionsProofs` | | lemmas about `Positions`: fractions, their order, what a fill does to the books |
| `PositionLedger` | any sequence of fills of one instrument | extends `Positions` |
| `Replay`, `MCReplay`, `ReplayProofs` | `ReplayEngine.run` with a strategy that orders and signals as it likes | extends `OrderLifecycle` and `Positions`; the bus as three lanes |
| `VenueAdapters` | what the three adapters in `execution/venues/` translate | operators |
| `LiveVenue`, `MCLiveVenue`, `LiveVenueProofs` | `oms.py` on a live adapter, its connection and the exchange | extends `OrderLifecycle` and `VenueAdapters` |
| `RiskEngine` | `risk.py` | operators on the engine's state |
| `PortfolioConstructor` | `portfolio.py` | operators, extends `RiskEngine` |
| `Rebalancing`, `RebalancingProofs` | a strategy that rebalances under the risk engine | extends `PortfolioConstructor` |
| `SimulatedClock` | `SimulatedClock` | a stack of advance_to() calls per task |
| `PolygonConnector`, `MCPolygonConnector` | `data/polygon.py` | streams, requests and the thread pool they share |
| `MemoryStore` | `data/store_memory.py` | the stores' contract: every call in one step |
| `ArcticStore`, `MCArcticStore` | `data/store_arctic.py` | check and act in two steps; shown to implement `MemoryStore` |
| `DataProofs` | | theorems about `PolygonConnector` and `ArcticStore` |
| `TimeSeriesSplit` | the windows of `optimize.py` | operators |
| `VectorizedBacktest` | `vectorized.py` and the returns, drawdown and trade statistics of `metrics.py` | operators over exact fractions, extends `Positions` |
| `Optimization` | `grid_search` and `walk_forward` | operators, extends both |
| `Backtests`, `MCBacktests`, `BacktestsProofs` | the entry points on any prices, next to the ledger of the OMS | extends `Optimization` and `PositionLedger` |

Composition: `EventBus` refines `PriorityLanes`, and `OrderManagement`,
`LiveVenue` and `Replay` use the bus in that form, with one to three lanes.
`OrderManagement` refines `ExecutionReport`; `Rebalancing` uses its order flow as one
step (fill and book), since `ImplementsReport` and `PositionsAgreeAtRest` say that no
fill is lost between.  The PositionEvent that follows can be lost, and `Rebalancing`
models that.  `ArcticStore` refines `MemoryStore`.  `Backtests` runs the vectorized
engine and the OMS's position ledger side by side on the same prices.

Correspondence, the parts that are not obvious:

* **`EventBus`.**  `queue` is the heap, a set of entries (priority, sequence
  number, type) of which the least is taken.  `unfinished` is asyncio's
  `_unfinished_tasks`, which `join()` waits to reach zero.  A `publish()` on a full queue sits in `putters`,
  then, when an entry was taken, in `woken`, and retries; it can find the queue
  full again and goes to the end of the line, as asyncio does.  A dispatcher is
  `new` (created, not run), `getting` (in `wait_for(get())`), `dispatching`,
  `cancelled` (the exception is not delivered yet) or `exited`.  `todo` is what
  is left of the handlers collected for the event.  `log`, `calls` and `owed` are
  history variables.
* **`OrderManagement`.**  With an unbounded queue `publish()` does not suspend,
  so `submit_order()` is one action, or two if the venue sleeps.  The dispatcher
  takes an event and hands it to the OMS in two actions, because another
  subscriber may be served, and suspend, first.  A quantity is an even number of
  half lots, so that a partial fill, half and the rest, is exact.
* **`Rebalancing`.**  A Python set decides the order of the sells among
  themselves, so the orders to send are a set from which no buy is taken before
  a sell.  The bus is stopped and started at any time.  `stop()` leaves the dispatcher at
  most the event in hand (`inHand`), after which its loop ends; what is queued stays
  there for the next `start()`.  A fill handled then is booked, but its PositionEvent is
  refused by `publish()`, the error is swallowed by the dispatcher, and the engine keeps
  its old position (`unreported`).  An order submitted to a stopped bus comes back as an
  exception (`SendRefused`), after which the strategy goes on or gives the rest up.
  `StartBus` waits until the dispatcher is out of its handler; two dispatchers on one
  queue are the matter of `BusBoundedRestart`.  `overlapped`, `unreported` and `goal` are
  history variables.
* **`Replay`.**  Two tasks: the engine, whose `phase` says which await of `run()` it
  is in, and the dispatcher, which takes an event and calls the strategy's handler
  in one step and the other subscribers in the next, so that a handler may suspend
  and order in between.  The strategy is the environment: it may request any order and
  emit signals (`EmitSignal`) from any handler and any timer callback; nothing in the
  repository subscribes to signals, but they are events that the bus has to drain.
  A bar has the one timestamp of its row, which for historical bars is the *start* of its
  period (`data/normalize.py`), and the engine makes its close the latest price at that
  time.  So the engine looks ahead inside the period of a bar: a timer, or a bar of another
  instrument, that falls into it trades at a close the market does not know yet.  The model
  does the same, and no property says otherwise.  Bars are sorted by (time, place in the data), which is what the
  stable sort does.  Prices and cash are integers; `told` and `late` are history variables.
* **`LiveVenue`.**  The adapter and the request of each order are chosen at the start.
  `client` and `up` are what `is_connected` and `_require_*()` look at: on ccxt
  `_exchange` and `_connected`, at Interactive Brokers `_ib` and `isConnected()`; tastytrade
  has a session only.  ccxt sets its client before it awaits the markets and
  `_connected` after; a `disconnect()` in between, or a failing second `connect()`,
  leaves it connected without a client, and `overlapped` is the history of that.  A failing
  `connect()` forgets the ccxt client only when the exception is one of ccxt's.
  The exchange takes only complete orders (prices of their type, a quantity above
  zero, an option in full).  It takes and cancels late, also after the caller got an
  exception, and Interactive Brokers answers before it does.
* **`PolygonConnector`.**  A stream is a generator (`gen`), a task that waits for the
  websocket thread, a socket and a queue.  The thread pool is external and runs as
  many jobs as it has threads.  A socket is `none` until a thread runs the client, then
  `connecting`, `open` and `gone`.  A cancelled wait withdraws a job no thread has begun and
  does not end a thread.  The connector then calls `ws_client.close()`; in
  polygon-api-client that is a coroutine function, and it is not awaited, so the call
  closes nothing: thread and connection stay until the connection drops.  The client is
  taken to await the processor it is given.  A message is its channel and whether it can be
  converted; `batch` is what the thread received at once.
* **Stores.**  A data frame is its sequence of times.  A call of the library takes
  effect at once or fails without effect; an append to a symbol that is gone makes it
  anew; rows that begin before the last one are refused.  `overtaken` is the history of
  calls whose symbol was deleted after they had found it.
* **`VectorizedBacktest`, `Backtests`.**  Numbers are fractions, kept in lowest terms by
  the operators of `Positions`.  Prices and signals come bar by bar, and the properties
  look at the results of the arrays after every bar.
* **`SimulatedClock`.**  The sorted list is a set of (trigger time, number): the
  sort is stable and new timers are appended.  `frames[t]` holds the targets of
  the nested `advance_to()` calls of a task, each suspended in a callback.

## 3. The runs

| run | shows | bounds, and why they are enough |
|---|---|---|
| `Bus` | `ImplementsLanes`, `RunningBusDispatches`, `PublishedIsDispatched`, `IdleStopReturns` | two publishers of any of three types, and a handler that publishes a third event: equal and different priorities, an event published while another is handled; one start, one stop at any time; unbounded queue |
| `BusBoundedRestart` | `UnfinishedIsOutstanding`, `StopDrains`, `HandledAtMostOnce` | a queue of one, so that publishers and handlers block; three publishers make two wait at once; two starts and two stops, so that two dispatchers and two joins overlap |
| `Oms` | `FilledMeansAll`, `PositionsAgreeAtRest`, refinement of `ExecutionReport`, `MarketOrderIsFilled`, `CancelIsReported` | a buy and a sell on one instrument (net positions cross), a resting order on another, one cancel each, with and without latency, with one or two fills, a bus that stops at any time |
| `LiveVenue` | `WorkingIsAtVenue`, `PositionsComparable`, `ConnectedIsServed`, `StatusFollowsTable`, `PolledEndIsFinal`, `AcceptanceIsReported` | on each adapter two orders that share a contract under two symbols, sell short, stop, cut a fraction off or are refused; one cancel each; two connects, so that one fails or is overtaken on a connected adapter |
| `Rebalancing` | `PositionWithinLimit`, `RebalanceReachesTarget`, `EngineCatchesUp`, `DrawdownStopsTrading` | two rebalances overlap; two instruments, one order each; one limit of each kind that bites at these weights and prices; the bus is stopped twice and started again once, so that an event is lost and a later one makes up for it (3.7 million states) |
| `Replay` | `BarIsSettled`, `EquityIsCash`, `PricedByFedBar`, `ReplayReturns` | two orders, to buy one or to sell two, with or without a price, on two instruments: positions open, grow, shrink and change sides (closing is in `Backtest` and in the proof); two signals, enough to leave two events queued when the bus is stopped; two data sets with bars of one time, rows out of order and gaps a timer can fire in |
| `Clock` | `NothingOverdue`, `FiredOnce`, `FiresInOrder`, `BackOnlyIfOvertaken` | two tasks, nesting of two, four timers (two of one instant, and one scheduled by a callback) |
| `Stream` | `DeliveredInOrder`, `AttributedToChannel`, `RequestAnswered`, `CloseCompletes` | two streams and a request over two threads, so that the streams can take both; closes and drops while a client waits for a thread, connects or is connected; the first receives two messages, one at a time or in one batch, unreadable ones among them, for lists with a stock and a pair of the same letters |
| `Store` | `ImplementsMemory` | three clients, four calls on two symbols: a deletion and a write fit between the check and the act of an append |
| `Backtest` | `ProfitIsCash`, `TradesBookLedgerProfit`, `ActsFromNextBar`, `DrawdownIsWorstFall`, `WalkForwardCompounds` | four bars with prices that fall to zero and signals that are long, short, half and beyond one: positions open, flip, flatten, resize and stay open; walk-forward over up to five bars, where windows are uneven, with two parameters |

Violations, each of what a comment or a doc of the code says; `findings` in
`PROJECT.json` quotes it:

| run | what the code does |
|---|---|
| `BusStopLoses` (`StopEventuallyDrains`) | `stop()` clears `_running`, the loop ends after the event in hand, and `join()` waits for ever for what is still queued |
| `LiveCancelLost` (`ConfirmedIsCancelled`) | a cancellation confirmed by a live exchange never reaches the OMS: the event carries the wrong id |

More of what the models show and no run is spent on:

* An outer `advance_to()` sets the simulated clock back after a callback, or another
  task, advanced it further: `BackOnlyIfOvertaken` says that this is the only way.
* With `MaxQueueSize = 1` `PublishedIsDispatched` fails (a handler that publishes on a
  full queue blocks the only task that empties it), and so does `ImplementsLanes`: a
  `publish()` that waits has drawn its number already and is overtaken by a later one
  of the same priority, against the comment in `core/bus.py:147`.
* With `MaxStarts = 2` `RunningBusDispatches` fails: a `stop()` still joining cancels the
  dispatcher of a later `start()`.
* An order the OMS shows REJECTED may be at the venue: a stopped bus makes the paper
  venue raise after it stored the order, and a live answer may be lost.
* The paper venue turns a FILLED order into a CANCELLED one when it is cancelled
  before the OMS saw the fill (`execution/paper.py:179`).
* A closed stream gives neither its connection nor its thread back until the connection
  drops (`ws_client.close()` is not awaited, `data/polygon.py:729`): `CloseCompletes` says
  only that the close comes to its end and that no thread begins afterwards.
* A PositionEvent that a stopped bus refuses leaves the risk engine with an old position
  until the next fill of the instrument (`EngineCatchesUp` names exactly this case).
* Signals emitted in `on_stop()` leave `bus.stop()` waiting for ever just as orders do.
* A stream whose connection drops never ends: its consumer waits for the next event
  until it closes the stream, though `data/connector.py:212` says the iterator runs
  "until cancelled or the connection drops".
* ccxt lists STOP_LIMIT as supported and passes no stop price on; Interactive Brokers
  and ccxt get no time in force, tastytrade DAY for fill-or-kill and whole units only.  Such
  an order works all the same, on other terms than were asked for: `WorkingIsAtVenue`
  says so, and holds type, prices and quantity to the request.
* Positions are compared by all fields of `Instrument`, not by symbol, class and venue as
  its doc says; an option at Interactive Brokers comes back as its underlying, and
  the options of one underlying overwrite each other in `get_positions()`.
* Neither store removes duplicate rows on append, as `data/store.py` says they do.
* `extract_trades` sees a change of sign only, so that a position that grows or shrinks
  earns another profit in the trades than in the ledger.
* The first bar of each walk-forward segment is scaled to the capital so far, which
  takes the cost of entering on that bar out of the curve.

Deadlock checking is off in the runs whose system may come to rest: everything
published, every order ended, the bounds used up.

**Fairness.**  `EventBus`: the event loop runs every task that can run, so the
dispatcher, a woken `put()` and a `stop()` past its join have weak fairness;
nobody is obliged to publish or to stop.  `Replay`: the engine and the dispatcher
have weak fairness; the strategy is never obliged to order or to signal.  `OrderManagement`: the dispatcher has
weak fairness on a running bus (that is what `EventBus` shows) and a sleep ends.
`LiveVenue`: besides the dispatcher, a request ends, with an answer or an
exception.  `PolygonConnector`: the loop runs its tasks and a thread that has a job
works; nothing obliges a connection to be made, to deliver or to drop, or a consumer to
stop.  Handlers are assumed to return.  `OrderManagement`, `LiveVenue` and `Rebalancing` let the bus
be stopped at any time: the liveness properties of the first two say "unless the bus
is stopped".  `Replay` stops it where `run()` does.

## 4. The proofs

Every theorem holds for all values of the constants that satisfy the module's
assumptions.  An invariant of a run is seldom inductive; each proof module begins
with the `IInv` that is, has one lemma per action (or group of actions) that it is
kept, and ends in the theorems.  `CoreProofs` and `DataProofs` each extend two
components that share no variable; the second one's names begin with `Clock` and `Store`.

| module | theorem | says |
|---|---|---|
| `CoreProofs` | `TypeCorrect`, `CounterCorrect`, `StopCorrect`, `HandledOnceCorrect` | `[]TypeOK`, `[]UnfinishedIsOutstanding`, `[]StopDrains`, `[]HandledAtMostOnce` |
| | `RunningCorrect` | `[]RunningBusDispatches` of a bus started once |
| | `LanesCorrect` | the unbounded bus implements `PriorityLanes` |
| | `ClockTypeCorrect`, `NeverOverdue`, `OnceOnly`, `OrderCorrect`, `BackCorrect` | of the clock: `[]ClockTypeOK`, `[]NothingOverdue`, `[]FiredOnce`, `[]FiresInOrder`, `BackOnlyIfOvertaken` |
| `OrderManagementProofs` | `TypeCorrect`, `FilledCorrect`, `PositionsCorrect` | `[]TypeOK`, `[]FilledMeansAll`, `[]PositionsAgreeAtRest` |
| | `ReportCorrect` | the OMS implements `ExecutionReport` |
| `LiveVenueProofs` | `TypeCorrect`, `WorkingCorrect`, `ConnectedCorrect`, `EndsUnseen` | `[]TypeOK`, `[]WorkingIsAtVenue`, `[]ConnectedIsServed`, `[]NeverEnds` |
| | `StatusCorrect`, `PolledCorrect`, `ComparableCorrect` | `StatusFollowsTable`, `PolledEndIsFinal`, `[]PositionsComparable` |
| `RebalancingProofs` | `TypeCorrect`, `EngineCorrect`, `LimitCorrect`, `TargetCorrect` | `[]TypeOK`, `[]EngineCatchesUp`, `[]PositionWithinLimit`, `[]RebalanceReachesTarget` |
| | `DrawdownCorrect` | `DrawdownStopsTrading` |
| `ReplayProofs` | `PricesCorrect`, `SettledCorrect`, `EquityCorrect` | `[]PricedByFedBar`, `BarIsSettled`, `EquityIsCash` |
| `DataProofs` | `DeliveredCorrect`, `AttributedCorrect` | `[]DeliveredInOrder`, `[]AttributedToChannel` |
| | `StoreCorrect` | the ArcticDB store implements `MemoryStore` |
| `BacktestsProofs` | `ProfitCorrect`, `TradesCorrect` | `[]ProfitIsCash`, `[]TradesBookLedgerProfit` |
| | `ActsCorrect`, `DrawdownCorrect` | `[]ActsFromNextBar`, `[]DrawdownIsWorstFall` |
| | `WindowsTile`, `WalkForwardCorrect` | the windows of `TimeSeriesSplit` cover the bars; `[]WalkForwardCompounds` |

`PositionsProofs` holds the lemmas that `ReplayProofs` and `BacktestsProofs` share.

**The bus.**  `UnfinishedIsOutstanding` is not inductive: that `task_done()` subtracts
exactly one needs that no entry is in two places.  The invariant adds: a task is in
`putters` or `woken` exactly when it holds an entry (`WaitInv`) and then its
`publish()` is in progress or its handler is (`CallInv`, `HandInv`); sequence
numbers of all entries are different and at most `sequence` (`SeqInv`, `PutInv`);
and what a join in progress waits for is outstanding or gone for good
(`OwedInv`).  The last step of `StopDrains` is that a counter of zero means an empty
queue and empty hands.  `HandledAtMostOnce` needs in addition that a handler
was given only entries whose number is no longer queued or waiting (`GivenInv`), and
that the handlers left for the entry in a dispatcher's hands have not had it
(`TodoInv`).  `RunningCorrect` assumes `MaxStarts = 1` and `LanesCorrect`
`MaxQueueSize = 0`, because without them the properties are false (section 3);
zero is the default of `EventBus.__init__()`, and no caller in the repository passes
another size or starts a bus twice.  With it no `publish()` waits, so the entries of
a priority lie in the heap in the order of the calls: the refinement reads lane `p` off
the heap as the types of its entries by number, and the proof shows that a put
appends to the lane and a get, of the least entry of all, takes the head of the first
lane that is not empty.

**The OMS.**  The books of the OMS and of the venue differ by the fills on the bus.
Instead of a sum over the events, which would be recursive, `LaneInv` says that there
are running totals that lead, event by event, from the position of the OMS to that of
the venue, and from what the OMS has filled of an order to what was executed, never
beyond, and to the order's quantity where an event says FILLED.  Publishing extends
the totals at the end (`TotalsAppend`), handling takes the first step off
(`TotalsTail`).  An empty lane then means equal positions, also when a stopped
bus refused events: a fill that is refused is not booked by the venue either.
`FilledMeansAll` is needed for itself (a filled order takes no more fills), and
`ExecutionReport` follows step by step, since totals only go up.

**Live venues.**  `CallInv` says what the progress of a submission tells of the order in
the books and at the exchange, `EventInv` that only acknowledgements of submitted
orders, and cancellations with ids the OMS does not know, are on the bus, `SessionInv`
what `_exchange` and `_connected` are on ccxt as long as calls do not overlap.
`EndsUnseen` is what these say together of the program: the OMS never shows a live
order as filled or cancelled.  `PolledEndIsFinal` goes through the status tables.
`PositionsComparable` is about a sum over the filled orders of a contract, of which
there are always finitely many (`FilledFinite`).  That such a sum is an integer, zero over
the empty set, is an induction over sets; the library's induction theorems cannot be
applied here, but a smallest counterexample can be taken instead (`LeastNat`,
`SumsUpTo`, `SumIsInt`).  `OneContract` is the rest: among the orders an
exchange took, no other contract is reported under the instrument.

**The rebalancing.**  `ToldInv`: for each instrument the last event on the bus tells the
position of the OMS, or else the engine has it, unless the newest event was refused.  `SingleInv`: an instrument that was not
overlapped has at most one order to send or at work.  `WithinInv` and `GoalInv`:
such an order ends within the limit, and at the target, when it is added to the
position.  `PeakInv` relates the engine's peak to the highest value reported.

**The replay.**  `PricedByFedBar` needs that the events are sorted by time (they are the
rows in an order that keeps times ascending), that the clock has reached every
bar fed, that `latest` holds the close of the last bar fed (`LatestInv`) and that a fill under
way has a known price (`KnownInv`).  For `BarIsSettled` the state is described by three
numbers (`Progress`): of the n orders requested the first r are routed to the venue,
and the first t of those are filled.  Requests r + 1 to n and fills t + 1 to r are
in flight in this order, and the positions of OMS and venue are the running totals
of the orders at t and r.  With an empty bus the three numbers are equal.

`EquityIsCash` compares two computations: average entry prices and realized profits in
lowest terms, and whole money trade by trade.  `AccountInv` says that there are running
accounts (`Accounts`), one after each trade, that keep for each instrument the quantity
held and the cash received less paid, and that the books are those of the last one.
Books are `Sound` when the realized profit is the cash plus the cost of what is held at
the average price, over a common denominator; opening, adding, reducing and flipping
each keep that (`UpdateSound`).  Below this lies the arithmetic of fractions: Euclid's
recursion has a solution (`GcdIs`, with the greatest common divisor as witness), its
result divides both numbers (`GcdDivides`), and so lowest terms keep the value of a
fraction (`LowestSame`) and write a whole number as such (`LowestInt`).  Above it, the
profit of a position at the latest price is the value of its account (`ProfitIs`), the
values of all instruments add up to the worth by the trades (`AccountAddsUp`, by the
least trade after which they do not), and a fold over whole fractions is the whole of
the sum, in whatever order it takes them (`WholesAddUp`).

**The vectorized engine.**  The properties of `Backtests` compare what recursive functions
and folds compute from arrays, and only the arrays grow from step to step.  So the
invariants are small: the arrays have one length and their types (`BarsInv`), the
ledger's books are `Sound` and its profit in lowest terms (`LedgerInv`), there is a
running account of cash that pays for every change of position and ends with the
ledger's (`Paid`), and a walk-forward analysis has at most `MaxPrices` bars
(`WindowInv`).  The rest is about values:

* A fraction has one form in lowest terms (`ReducedSame`, from `GcdScale`: the greatest
  common divisor of multiples is the multiple of the greatest common divisor), and
  every operation returns it.  `ProfitIsCash` is then equality of values.
* Each loop of the code is shown to have a solution from bar to bar: running peaks
  (`PeaksAre`), equity (`EquityCurveIs`), trades (`ExtractTradesIs`), chained segments
  (`ChainIs`, `WalkForwardIs`), and each fold a running total (`GreatestFolds`,
  `ProductFolds`, `PlusFolds`).  A claim about all bars is then proved by its least
  counterexample, and its step is a lemma without recursion (`InvestedStep`,
  `SettledStep`, `ChainedStep`).
* `DrawdownIsWorstFall`: the drawdown at a bar is the fall from the highest value so far,
  which is one of the values and no less than any (`FallGrows`).  Without short
  positions the equity keeps its sign (`CurveSign`), so that no fall exceeds one.
* `ActsFromNextBar`: after each bar, flat, the equity is what the trades so far multiplied
  the capital by; invested, it is that times the growth since the entry (`Invested`).
* `TradesBookLedgerProfit`: after each bar, flat, the profits of the trades so far are the
  cash; invested, they are the cash plus what the open position cost (`Settled`).
* `WalkForwardCompounds`: after each window the curve ends at the compounded gains, and
  every window so far is a part of it, scaled (`Chained`); a scale changes no fall
  (`FallScaled`).  That `grid_search()` has a best parameter at all is `BestExists`.

**The connector.**  `BatchInv`: the batch is what arrived last.  `GivenInv`: what the
consumer got and what is queued for it are the events of the sound ones among the
messages before the batch, in their order.  `FreshInv` says that nothing arrives before
a generator's first step, so that the instruments do not change under its
messages.  That a message is resolved at all, and to what (`ResolveIs`), rests on the
map that keeps the last instrument of a ticker, hence on the greatest of a set of
indices; `LeastNat` proves the least-number principle, without an operator
parameter, from the well-foundedness of the order on the naturals.

**The clock.**  `FiresInOrder` needs that what was fired lies before the clock and
before everything pending (`FiredIsPast`), and that numbers are drawn in order
(`Numbered`); `BackOnlyIfOvertaken` follows from `NothingOverdue`: a callback fires at or
after the current time, so only the end of the loop can move the clock back, and the
target it sets is its own frame's.

**The stores.**  The invariant is that a client past its check which no deletion has
overtaken still finds its symbol (`CheckedExists`); with it each action is a step of the
in-memory store, a failure, or the revival of a deleted symbol.

**What the proofs changed in the models.**  `PositionsAgreeAtRest` once excused a stopped
bus; the proof did not need it, and the property now covers that case.  Orders
compared by `PositionsComparable` must also be complete, or the exchange never takes
them.  `DrawdownStopsTrading` needs that a drawdown limit is not for one
instrument, as the constructor in `risk.py` has no such parameter, and `LimitAssumption`
says so now.  Names of messages and the resolution of instruments were written with
`CASE`s whose guards overlapped, and the operations on fractions with functions of
several arguments.  `WalkForwardCompounds` compared drawdowns for any capital: with
negative capital and a cost rate above one, which no check of the code excludes, a
positive segment is scaled to a negative one and its falls become rises, so the claim
now is about positive capital.  `CapitalAssumption` asks for lowest terms, as an equity of <<2, 4>> is not the pair <<1, 2>> that the same amount becomes after a bar.
`SignalAssumption` and `WindowAssumption` write down what the configuration had always met:
signals are whole units of the ledger, ratios lie between 0 and 1, the grid is not
empty, and the signal function gives one signal per bar.

**Only model-checked.**  Liveness, as temporal proofs under fairness are out of the
prover's reach: `PublishedIsDispatched`, `IdleStopReturns`, `MarketOrderIsFilled`,
`CancelIsReported`, `AcceptanceIsReported`, `ReplayReturns`, `RequestAnswered`,
`CloseCompletes`.  Every invariant and every action property of a passing run, and every
refinement, is a theorem.  A type invariant is stated in the modules with
state; in `Replay` and `PolygonConnector` what the proofs need of it is part of `IInv`.

## 5. What is left out, and why

* Prices, balances and average fill prices of orders: nothing that decides a step
  depends on them (positions' average prices are in `PositionLedger`).
* The OMS's `_on_order_rejected`: no venue in the repository publishes OrderRejected.
* Two submissions of one order id, fills reported twice (no venue does), and fills of
  orders the OMS does not know.
* In the replay: trades instead of bars, which only differ in their fields; the
  numpy arrays of the result; strategies that start tasks of their own or publish other
  events than orders and signals; look-ahead inside the period of a bar (section 2).
* In the rebalancing: partial fills and latency, which are `OrderManagement`'s; two
  dispatchers of one bus, which are `EventBus`'s.
* In the stores: cancellation of a caller that awaits a library call in its thread.
* Negative delays of `schedule()`; `add_limit` and `remove_limit`; `LiveClock`, a list of
  tasks that sleep and call back.
* Account balances, the choice of exception classes, and hedged positions, of which
  ccxt reports two for a symbol.
* Sharpe, Sortino and Calmar ratio, volatility and annualized return: square roots and
  powers.  Floating point is replaced by exact fractions.
* Contents of historical data frames, column selection, metadata and symbol keys of
  the stores, normalization, configuration files: data without behaviour over time.
* `strategy/signal.py` and `execution/router.py`: sequential and used by nothing else in
  the repository.

## 6. Plan

1. The core: bus, OMS with the paper venue, ledger, with the bus proved. *Done.*
2. What surrounds it: reconciler on the paper venue, risk engine and portfolio
   constructor, simulated clock with its proofs. *Done.*
3. The backtest: the replay engine with an arbitrary strategy; the vectorized engine
   against the ledger; walk-forward analysis. *Done.*
4. The edges: three live adapters, the streaming connector, the two stores with
   the proof that one implements the other. *Done.*
5. Proofs: the safety properties of the OMS, the live venues, the rebalancing, the
   replay and the connector, and the refinement of both abstract specifications of bus
   and OMS. *Done.*
6. Proofs: the vectorized engine, from the uniqueness of lowest terms to the walk-forward
   curve. *Done.*
