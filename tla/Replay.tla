--------------------------------- MODULE Replay ---------------------------------
(***************************************************************************)
(* The replay engine (backtest/replay.py): historical bars are fed through *)
(* the bus to a strategy whose orders the paper venue fills.  The engine   *)
(* task feeds a bar and waits until the bus is idle; the dispatcher calls  *)
(* the strategy, the order router, the trade log and the OMS, in the order *)
(* they subscribed.  The strategy is the environment: it may request any   *)
(* order and emit signals from any of its handlers, and may suspend in     *)
(* them.                                                                   *)
(*                                                                         *)
(* `time' is the timestamp of a bar, which for historical bars is the      *)
(* START of its period (data/normalize.py).  The engine makes the close    *)
(* the latest price at that time, although the market knows it only at the *)
(* end of the period: what happens in the meantime, a timer or a bar of    *)
(* another instrument, trades at that close.  The engine looks ahead       *)
(* inside the period of a bar, here as in the code, and nothing below says *)
(* that it does not.                                                       *)
(***************************************************************************)
EXTENDS OrderLifecycle, Positions, Sequences, SequencesExt

CONSTANTS Instruments,     \* the keys of data, in the order of the dict
          History,         \* the data: a set of [instrument -> rows]
          Quantity,        \* signed quantities the strategy orders
          LimitPrice,      \* prices it may give with an order
          DefaultPrice,    \* PaperVenue._DEFAULT_FILL_PRICE
          Capital,
          CommissionRate,  \* money is counted in units of which a commission is whole
          MaxOrders,       \* bound: orders the strategy requests
          MaxSignals       \* bound: signals it emits

Instrument == Range(Instruments)

ASSUME DataAssumption ==
  /\ Instruments \in Seq(Instrument)
  /\ \A data \in History :
       /\ DOMAIN data = Instrument
       /\ \A i \in Instrument : data[i] \in Seq([time : Nat, close : Nat])
       /\ \E i \in Instrument : data[i] # <<>>

ASSUME OrderAssumption ==
  /\ Quantity \subseteq Int \ {0} /\ LimitPrice \subseteq Nat /\ DefaultPrice \in Nat
  /\ Capital \in Nat /\ CommissionRate \in Nat
  /\ MaxOrders \in Nat /\ MaxSignals \in Nat

-------------------------------------------------------------------------------
\* The bars of all instruments, each with the one timestamp its row has.
Rows(data) ==
  UNION {{[place |-> <<k, r>>, instrument |-> Instruments[k],
           time |-> data[Instruments[k]][r].time,
           close |-> data[Instruments[k]][r].close] :
            r \in DOMAIN data[Instruments[k]]} : k \in DOMAIN Instruments}

Earlier(a, b) == \/ a.time < b.time
                 \/ a.time = b.time /\ a.place[1] < b.place[1]
                 \/ a.time = b.time /\ a.place[1] = b.place[1] /\ a.place[2] < b.place[2]

\* The rows of all instruments by time.  The sort is stable: there is one such
\* sequence.
EventStreams(data) ==
  {s \in [1 .. Cardinality(Rows(data)) -> Rows(data)] :
     \A m, n \in DOMAIN s : m < n => Earlier(s[m], s[n])}

OrderEvent(kind, order) == [kind |-> kind, order |-> order]
FillEvent(order, price) == [kind |-> "FillEvent", order |-> order, price |-> price]
BarEvent == [kind |-> "BarEvent"]
SignalEvent == [kind |-> "SignalEvent"]
PositionEvent(instrument, qty) ==
  [kind |-> "PositionEvent", instrument |-> instrument, quantity |-> qty]
Nothing == [kind |-> "Nothing"]
Unknown == [status |-> "Unknown"]
NoPrice == -1

VARIABLES
  events,       \* all_events
  phase,        \* where run() is: in on_start(), in advance_to(), in join(),
                \* in on_stop(), in bus.stop(), returned
  fed,          \* number of events published
  now,          \* clock.now()
  latest,       \* latest_prices
  requests,     \* the orders requested so far: instrument, signed quantity, price
                \* and, a history, the number of bars fed before the request
  signals,      \* the number of signals emitted
  orders,       \* oms._orders
  positions,    \* oms._positions
  venuePositions,
  running,      \* bus._running
  high, normal, low,  \* the bus: a FIFO lane per priority
  dispatcher,   \* "getting", "dispatching" or "exited"
  inHand,       \* the event being dispatched; handlers before the router's, the
                \* trade log's and the OMS's have been called
  trades,       \* trade_log
  commissions,  \* _total_commissions
  snapshots,    \* equity_snapshots
  told,         \* history: the positions the strategy has been told of
  late          \* history: an order or a signal was published after the last snapshot

engineVars == <<events, phase, fed, now, latest, snapshots>>
omsVars == <<orders, positions, venuePositions>>
busVars == <<running, high, normal, low, dispatcher, inHand>>
logVars == <<trades, commissions>>
vars == <<engineVars, omsVars, busVars, logVars, requests, signals, told, late>>

TypeOK ==
  /\ phase \in {"starting", "advancing", "joining", "stopping", "draining", "done"}
  /\ fed \in 0 .. Len(events) /\ now \in Nat
  /\ DOMAIN latest \subseteq Instrument /\ \A i \in DOMAIN latest : latest[i] \in Nat
  /\ signals \in 0 .. MaxSignals
  /\ Len(requests) <= MaxOrders /\ Len(orders) = Len(requests)
  /\ Len(trades) <= Len(requests)
  /\ \A k \in DOMAIN orders : orders[k] \in OrderState \cup {Unknown}
  /\ \A i \in Instrument : positions[i] \in Position /\ venuePositions[i] \in Int
  /\ running \in BOOLEAN /\ dispatcher \in {"getting", "dispatching", "exited"}
  /\ (inHand # Nothing) = (dispatcher = "dispatching")
  /\ Len(snapshots) = (IF phase = "starting" THEN 0
                       ELSE IF phase = "joining" THEN fed ELSE fed + 1)

Init ==
  /\ events \in UNION {EventStreams(data) : data \in History}
  /\ phase = "starting" /\ fed = 0 /\ now = events[1].time
  /\ latest = [i \in {} |-> 0] /\ snapshots = <<>>
  /\ requests = <<>> /\ orders = <<>> /\ signals = 0
  /\ positions = [i \in Instrument |-> Flat]
  /\ venuePositions = [i \in Instrument |-> 0]
  /\ running = TRUE /\ high = <<>> /\ normal = <<>> /\ low = <<>>
  /\ dispatcher = "getting" /\ inHand = Nothing
  /\ trades = <<>> /\ commissions = 0
  /\ told = [i \in Instrument |-> 0] /\ late = FALSE

QueueEmpty == high = <<>> /\ normal = <<>> /\ low = <<>>

\* What bus._queue.join() waits for.
Idle == QueueEmpty /\ inHand = Nothing

-------------------------------------------------------------------------------
(* The strategy *)

StrategyRuns ==
  \/ phase \in {"starting", "stopping"}                          \* on_start, on_stop
  \/ phase = "advancing"                                         \* a timer callback
  \/ inHand.kind \in {"BarEvent", "FillEvent", "PositionEvent"}  \* on_...

\* request_order().  After bus.stop() its publish() raises and nothing happens.
RequestOrder(instrument, qty, price) ==
  /\ StrategyRuns /\ running
  /\ Len(requests) < MaxOrders
  /\ requests' = Append(requests, [instrument |-> instrument, qty |-> qty, price |-> price,
                                   after |-> fed])
  /\ orders' = Append(orders, Unknown)
  /\ high' = Append(high, OrderEvent("OrderRequested", Len(requests) + 1))
  /\ late' = (late \/ phase = "stopping")
  /\ UNCHANGED <<engineVars, positions, venuePositions, logVars, signals, told,
                 running, normal, low, dispatcher, inHand>>

\* emit_signal(), which a stopped bus refuses alike.
EmitSignal ==
  /\ StrategyRuns /\ running
  /\ signals < MaxSignals /\ signals' = signals + 1
  /\ low' = Append(low, SignalEvent)
  /\ late' = (late \/ phase = "stopping")
  /\ UNCHANGED <<engineVars, omsVars, logVars, requests, told, running, high, normal,
                 dispatcher, inHand>>

-------------------------------------------------------------------------------
(* The engine: run() *)

\* Mutant: every open position counts like a long one.
ComputeEquity_LongOnly ==
  LET Unrealized(i) == Times(Minus(Whole(latest[i]), positions[i].avgEntryPrice),
                             Abs(positions[i].quantity))
      profit == [i \in Instrument |-> Plus(positions[i].realizedPnl,
                                           IF i \in DOMAIN latest THEN Unrealized(i) ELSE Zero)]
  IN  Minus(Plus(Whole(Capital), FoldFunction(Plus, Zero, profit)), Whole(commissions))

\* _compute_equity: a position without a price counts with its realized profit.
ComputeEquity ==
  LET Unrealized(i) ==
        IF positions[i].quantity > 0
        THEN Times(Minus(Whole(latest[i]), positions[i].avgEntryPrice), positions[i].quantity)
        ELSE Times(Minus(positions[i].avgEntryPrice, Whole(latest[i])),
                   Abs(positions[i].quantity))
      profit == [i \in Instrument |-> Plus(positions[i].realizedPnl,
                                           IF i \in DOMAIN latest THEN Unrealized(i) ELSE Zero)]
  IN  Minus(Plus(Whole(Capital), FoldFunction(Plus, Zero, profit)), Whole(commissions))

OnStartReturns ==
  /\ phase = "starting" /\ phase' = "advancing"
  /\ snapshots' = <<Whole(Capital)>>
  /\ UNCHANGED <<events, fed, now, latest, requests, signals, omsVars, busVars,
                 logVars, told, late>>

\* advance_to() fires a timer of the strategy on the way to the next bar.
TimerFires ==
  /\ phase = "advancing"
  /\ now' \in now + 1 .. events[fed + 1].time
  /\ UNCHANGED <<events, phase, fed, latest, snapshots, requests, signals, omsVars,
                 busVars, logVars, told, late>>

\* advance_to() ends; the close is the latest price from the bar's timestamp on;
\* the bar is published before the engine suspends in join().
FeedBar ==
  /\ phase = "advancing"
  /\ LET bar == events[fed + 1]
     IN  /\ now' = bar.time
         /\ latest' = [i \in DOMAIN latest \cup {bar.instrument} |->
                         IF i = bar.instrument THEN bar.close ELSE latest[i]]
  /\ normal' = Append(normal, BarEvent)
  /\ fed' = fed + 1 /\ phase' = "joining"
  /\ UNCHANGED <<events, snapshots, requests, signals, omsVars, running, high, low,
                 dispatcher, inHand, logVars, told, late>>

NextPhase == IF fed = Len(events) THEN "stopping" ELSE "advancing"

\* Mutant: the engine waits for the queue to be empty, not for the handlers.
JoinReturns_QueueEmpty ==
  /\ phase = "joining" /\ QueueEmpty
  /\ snapshots' = Append(snapshots, ComputeEquity)
  /\ phase' = NextPhase
  /\ UNCHANGED <<events, fed, now, latest, requests, signals, omsVars, busVars,
                 logVars, told, late>>

\* Mutant: the engine does not wait for the bar it has just published.
JoinReturns_NoWait ==
  /\ phase = "joining"
  /\ snapshots' = Append(snapshots, ComputeEquity)
  /\ phase' = NextPhase
  /\ UNCHANGED <<events, fed, now, latest, requests, signals, omsVars, busVars,
                 logVars, told, late>>

\* Mutant: the price of the next bar is noted before the clock is advanced.
JoinReturns_PricesAhead ==
  /\ phase = "joining" /\ Idle
  /\ snapshots' = Append(snapshots, ComputeEquity)
  /\ phase' = NextPhase
  /\ latest' = IF fed = Len(events) THEN latest
               ELSE LET bar == events[fed + 1]
                    IN  [i \in DOMAIN latest \cup {bar.instrument} |->
                           IF i = bar.instrument THEN bar.close ELSE latest[i]]
  /\ UNCHANGED <<events, fed, now, requests, signals, omsVars, busVars, logVars, told,
                 late>>

\* The bus is idle: the equity is noted, the next turn or on_stop() begins.
JoinReturns ==
  /\ phase = "joining" /\ Idle
  /\ snapshots' = Append(snapshots, ComputeEquity)
  /\ phase' = NextPhase
  /\ UNCHANGED <<events, fed, now, latest, requests, signals, omsVars, busVars,
                 logVars, told, late>>

OnStopReturns ==
  /\ phase = "stopping" /\ phase' = "draining" /\ running' = FALSE
  /\ UNCHANGED <<events, fed, now, latest, snapshots, requests, signals, omsVars,
                 high, normal, low, dispatcher, inHand, logVars, told, late>>

\* The join() of bus.stop() returns, the dispatcher is cancelled, run() returns.
RunReturns ==
  /\ phase = "draining" /\ Idle
  /\ phase' = "done" /\ dispatcher' = "exited"
  /\ UNCHANGED <<events, fed, now, latest, snapshots, requests, signals, omsVars,
                 running, high, normal, low, inHand, logVars, told, late>>

-------------------------------------------------------------------------------
(* The dispatcher and the subscribers *)

Take(lane) == inHand' = Head(lane) /\ dispatcher' = "dispatching"

\* The first event of the most urgent lane; the strategy's handler is called.
TakeEvent ==
  /\ dispatcher = "getting"
  /\ \/ high # <<>> /\ Take(high) /\ high' = Tail(high) /\ UNCHANGED <<normal, low>>
     \/ /\ high = <<>> /\ normal # <<>>
        /\ Take(normal) /\ normal' = Tail(normal) /\ UNCHANGED <<high, low>>
     \/ /\ high = <<>> /\ normal = <<>> /\ low # <<>>
        /\ Take(low) /\ low' = Tail(low) /\ UNCHANGED <<high, normal>>
  /\ UNCHANGED <<engineVars, omsVars, logVars, requests, signals, told, late,
                 running>>

\* task_done(), and the loop condition.
EventDone == inHand' = Nothing /\ dispatcher' = IF running THEN "getting" ELSE "exited"

\* The time limit of get() on a bus that is being stopped.
GetTimesOut ==
  /\ dispatcher = "getting" /\ ~running
  /\ dispatcher' = "exited"
  /\ UNCHANGED <<engineVars, omsVars, logVars, requests, signals, told, late, running,
                 high, normal, low, inHand>>

\* What _route_order passes on as the price, and the venue fills at.
RoutedPrice(request) ==
  IF request.price # NoPrice THEN request.price
  ELSE IF request.instrument \in DOMAIN latest THEN latest[request.instrument]
  ELSE DefaultPrice

\* _route_order, oms.submit_order() and the venue's, which fills at once.
RouteOrder ==
  /\ inHand.kind = "OrderRequested" /\ running
  /\ LET k == inHand.order
         request == requests[k]
     IN  /\ orders' = [orders EXCEPT ![k] = AfterSubmit(NewOrder)]
         /\ venuePositions' = [venuePositions EXCEPT ![request.instrument] = @ + request.qty]
         /\ high' = high \o <<OrderEvent("OrderAccepted", k), FillEvent(k, RoutedPrice(request)),
                              OrderEvent("OrderSubmitted", k)>>
  /\ EventDone
  /\ UNCHANGED <<engineVars, positions, logVars, requests, signals, told, late,
                 running, normal, low>>

\* The venue's first publish() raises.
RouteOrderRefused ==
  /\ inHand.kind = "OrderRequested" /\ ~running
  /\ orders' = [orders EXCEPT ![inHand.order] = AfterFailedSubmit(NewOrder)]
  /\ EventDone
  /\ UNCHANGED <<engineVars, positions, venuePositions, logVars, requests, signals,
                 told, late, running, high, normal, low>>

\* _route_order leaves the OMS's own events alone.
OwnOrderSubmitted ==
  /\ inHand.kind = "OrderSubmitted"
  /\ EventDone
  /\ UNCHANGED <<engineVars, omsVars, logVars, requests, signals, told, late, running,
                 high, normal, low>>

OnOrderAccepted ==
  /\ inHand.kind = "OrderAccepted"
  /\ orders' = [orders EXCEPT ![inHand.order] = AfterAccepted(@)]
  /\ EventDone
  /\ UNCHANGED <<engineVars, positions, venuePositions, logVars, requests, signals,
                 told, late, running, high, normal, low>>

\* After the strategy the trade log, then the OMS, whose publish() a stopped
\* bus refuses.
OnFill ==
  /\ inHand.kind = "FillEvent"
  /\ LET k == inHand.order
         request == requests[k]
         cost == inHand.price * Abs(request.qty) * CommissionRate
     IN  /\ trades' = Append(trades, [time |-> now, order |-> k, qty |-> request.qty,
                                      instrument |-> request.instrument,
                                      price |-> inHand.price, commission |-> cost])
         /\ commissions' = commissions + cost
         /\ orders' = [orders EXCEPT ![k] = AfterFill(@, Abs(request.qty), "FILLED")]
         /\ positions' = [positions EXCEPT ![request.instrument] =
                            UpdatePosition(@, request.qty, inHand.price)]
         /\ low' = IF running
                   THEN Append(low, PositionEvent(request.instrument,
                                                  positions'[request.instrument].quantity))
                   ELSE low
  /\ EventDone
  /\ UNCHANGED <<engineVars, venuePositions, requests, signals, told, late, running,
                 high, normal>>

\* on_market_data() returns.
OnBar ==
  /\ inHand = BarEvent
  /\ EventDone
  /\ UNCHANGED <<engineVars, omsVars, logVars, requests, signals, told, late, running,
                 high, normal, low>>

\* No handler is called for a signal.
OnSignal ==
  /\ inHand = SignalEvent
  /\ EventDone
  /\ UNCHANGED <<engineVars, omsVars, logVars, requests, signals, told, late, running,
                 high, normal, low>>

\* on_position() returns.
OnPosition ==
  /\ inHand.kind = "PositionEvent"
  /\ told' = [told EXCEPT ![inHand.instrument] = inHand.quantity]
  /\ EventDone
  /\ UNCHANGED <<engineVars, omsVars, logVars, requests, signals, late, running, high,
                 normal, low>>

-------------------------------------------------------------------------------
Engine == OnStartReturns \/ FeedBar \/ JoinReturns \/ OnStopReturns \/ RunReturns

Dispatch == \/ TakeEvent \/ GetTimesOut \/ RouteOrder \/ RouteOrderRefused
            \/ OwnOrderSubmitted \/ OnOrderAccepted \/ OnFill \/ OnBar \/ OnSignal
            \/ OnPosition

Next ==
  \/ Engine \/ Dispatch \/ TimerFires \/ EmitSignal
  \/ \E i \in Instrument, qty \in Quantity, price \in LimitPrice \cup {NoPrice} :
       RequestOrder(i, qty, price)

Spec == Init /\ [][Next]_vars

\* Both tasks run whenever they can; handlers and callbacks return.
FairSpec == Spec /\ WF_vars(Engine) /\ WF_vars(Dispatch)

-------------------------------------------------------------------------------
(* Properties *)

TakesSnapshot == Len(snapshots') > Len(snapshots) /\ phase = "joining"

\* When the engine goes on to the next bar, every order requested so far has
\* been filled once, in the OMS and in the trade log, and the strategy, the OMS
\* and the venue agree about the positions: nothing spills into the next bar.
BarIsSettled ==
  [][TakesSnapshot =>
       /\ \A k \in DOMAIN requests :
            /\ orders[k] # Unknown /\ orders[k].status = "FILLED"
            /\ orders[k].filled = Abs(requests[k].qty)
            /\ \E t \in DOMAIN trades : trades[t].order = k
       /\ Len(trades) = Len(requests)
       /\ \A i \in Instrument : positions[i].quantity = venuePositions[i]
                                /\ told[i] = venuePositions[i]]_vars

\* What the account is worth by the trade log alone: what was bought less what
\* was sold, at the latest price, and the money received less the money paid.
Worth ==
  FoldLeft(LAMBDA sum, t : sum + t.qty * (latest[t.instrument] - t.price) - t.commission,
           Capital, trades)

\* The equity curve, computed from average prices and realized profits, is
\* what the trade log says the account is worth, once every instrument traded
\* has a price, through positions that grow, shrink and change sides.
EquityIsCash ==
  [][TakesSnapshot /\ (\A t \in DOMAIN trades : trades[t].instrument \in DOMAIN latest) =>
       Last(snapshots') = Whole(Worth)]_vars

BarOf(b, instrument) == events[b].instrument = instrument

\* A trade without a limit price is done at the close of a bar of its
\* instrument that was fed by the time of the trade and is not older than the
\* last one fed before the order was requested; at the default price only if
\* none had been fed then.  Wherever the strategy's handlers suspend, a price
\* never comes from a bar the engine has yet to feed, nor from a stale one.
\* (The close itself may be of the future: see the remark on `time'.)
PricedByFedBar ==
  \A t \in DOMAIN trades :
    LET request == requests[trades[t].order]
    IN  IF request.price # NoPrice THEN trades[t].price = request.price
        ELSE \/ /\ trades[t].price = DefaultPrice
                /\ \A b \in 1 .. request.after : ~BarOf(b, request.instrument)
             \/ \E b \in 1 .. fed :
                  /\ BarOf(b, request.instrument) /\ events[b].close = trades[t].price
                  /\ events[b].time <= trades[t].time
                  /\ \A c \in b + 1 .. request.after : ~BarOf(c, request.instrument)

\* The backtest comes to its end, whatever the strategy orders and signals,
\* unless it does so in on_stop(): what is published there may leave bus.stop()
\* waiting for ever.
ReplayReturns == <>(phase = "done" \/ late)
===============================================================================
