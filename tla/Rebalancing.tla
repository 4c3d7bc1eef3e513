----------------------------- MODULE Rebalancing ------------------------------
(***************************************************************************)
(* A strategy that rebalances its portfolio under the risk engine.  It     *)
(* computes orders from the positions of the OMS, sends those that pass    *)
(* the check one after the other, and may rebalance again before they are  *)
(* filled.  The engine learns of fills by PositionEvents, which the bus    *)
(* delivers later and in order.  The bus may be stopped, with one event    *)
(* in the hand of its dispatcher, and started again.  The order flow       *)
(* between sending to the paper venue and the position of the OMS is       *)
(* module OrderManagement, here one step.                                  *)
(***************************************************************************)
EXTENDS PortfolioConstructor, Sequences, SequencesExt

CONSTANTS Weight, Price,
          Value,            \* portfolio values
          MaxRebalances,    \* bound: calls of compute_rebalance_orders()
          MaxStarts         \* bound: calls of bus.start()

ASSUME InputAssumption ==
  /\ Weight \subseteq Int /\ Price \subseteq Nat \ {NoPrice}
  /\ Value \subseteq Nat \ {0} /\ MaxRebalances \in Nat /\ MaxStarts \in Nat \ {0}

VARIABLES
  engine,       \* the risk engine
  positions,    \* oms: net positions
  events,       \* PositionEvents on the bus, oldest first
  toSend,       \* orders that passed the check, not sent yet
  working,      \* orders sent and not filled
  rebalances,   \* number of rebalances so far
  running,      \* bus._running
  inHand,       \* the event the dispatcher of a stopped bus still handles
  starts,       \* number of bus.start() calls so far
  goal,         \* history: where the last rebalance was to lead
  overlapped,   \* history: instruments checked while a trade was under way
  unreported,   \* history: instruments whose newest PositionEvent was refused
  highest       \* history: the highest portfolio value ever reported

busVars == <<running, inHand, starts>>
vars == <<engine, positions, events, toSend, working, rebalances, busVars, goal,
          overlapped, unreported, highest>>

PositionEvent == [instrument : Instrument, quantity : Int]
SentOrder == [order : Order, number : Nat]

Nothing == [kind |-> "Nothing"]
FillOf(w) == [kind |-> "FillEvent", of |-> w]
OldestPosition == [kind |-> "PositionEvent"]

TypeOK ==
  /\ engine \in Engine
  /\ positions \in [Instrument -> Int]
  /\ events \in Seq(PositionEvent)
  /\ toSend \in SUBSET Order /\ working \in SUBSET SentOrder
  /\ rebalances \in 0 .. MaxRebalances
  /\ running \in BOOLEAN /\ starts \in 1 .. MaxStarts
  /\ inHand \in {Nothing, OldestPosition} \cup {FillOf(w) : w \in SentOrder}
  /\ DOMAIN goal \subseteq Instrument /\ \A i \in DOMAIN goal : goal[i] \in Int
  /\ overlapped \in SUBSET Instrument /\ unreported \in SUBSET Instrument
  /\ highest \in Nat

Init ==
  /\ engine = NewEngine
  /\ positions = [i \in Instrument |-> 0]
  /\ events = <<>> /\ toSend = {} /\ working = {} /\ rebalances = 0
  /\ running = TRUE /\ inHand = Nothing /\ starts = 1
  /\ goal = <<>>
  /\ overlapped = {} /\ unreported = {} /\ highest = 0

\* The dispatcher comes to the event: of a stopped bus it handles the one in hand.
Handles(event) == running \/ inHand = event

Traded == {w.order.instrument : w \in working}

\* Instruments with a trade the positions of the engine do not show.
UnderWay == Traded \cup {e.instrument : e \in ToSet(events)} \cup unreported

Rebalance(targets, value, prices) ==
  /\ toSend = {} /\ rebalances < MaxRebalances
  /\ rebalances' = rebalances + 1
  /\ LET orders == RebalanceOrders(targets, positions, value, prices)
         passed == PassedOrders(orders, prices, engine)
         traded == {order.instrument : order \in passed}
         excluded == {order.instrument : order \in orders \ passed}
         wanted == TargetQuantities(targets, value, prices)
     IN  /\ toSend' = passed
         /\ overlapped' = overlapped \cup (traded \cap UnderWay)
         /\ goal' = [i \in Instrument \ (excluded \cup Traded) |->
                       IF i \in DOMAIN wanted THEN wanted[i] ELSE 0]
  /\ UNCHANGED <<engine, positions, events, working, busVars, unreported, highest>>

\* The strategy submits the next order and tells the engine.
Send(order) ==
  /\ order \in toSend /\ MayComeFirst(order, toSend) /\ running
  /\ toSend' = toSend \ {order}
  /\ working' = working \cup {[order |-> order, number |-> rebalances]}
  /\ engine' = OnOrderSubmitted(engine)
  /\ UNCHANGED <<positions, events, rebalances, busVars, goal, overlapped, unreported,
                 highest>>

\* The venue's publish() raises on a stopped bus and the OMS rejects the order:
\* the strategy goes on with the next one, or gives the others up.
SendRefused(order) ==
  /\ order \in toSend /\ MayComeFirst(order, toSend) /\ ~running
  /\ toSend' \in {toSend \ {order}, {}}
  /\ LET dropped == {o.instrument : o \in toSend \ toSend'}
     IN  goal' = [i \in DOMAIN goal \ dropped |-> goal[i]]
  /\ UNCHANGED <<engine, positions, events, working, rebalances, busVars, overlapped,
                 unreported, highest>>

\* The order is filled: the OMS books it and publishes the new position, which a
\* stopped bus refuses; the dispatcher logs the error.
Fill(w) ==
  /\ w \in working /\ Handles(FillOf(w))
  /\ LET i == w.order.instrument
     IN  /\ positions' = [positions EXCEPT ![i] = @ + Signed(w.order)]
         /\ IF running
            THEN /\ events' = Append(events, [instrument |-> i, quantity |-> positions'[i]])
                 /\ unreported' = unreported \ {i}
            ELSE events' = events /\ unreported' = unreported \cup {i}
  /\ working' = working \ {w} /\ inHand' = Nothing
  /\ engine' = OnOrderCompleted(engine)
  /\ UNCHANGED <<toSend, rebalances, running, starts, goal, overlapped, highest>>

\* The bus hands the oldest PositionEvent to the engine.
Deliver ==
  /\ events # <<>> /\ Handles(OldestPosition) /\ inHand' = Nothing
  /\ engine' = OnPosition(engine, Head(events).instrument, Head(events).quantity)
  /\ events' = Tail(events)
  /\ UNCHANGED <<positions, toSend, working, rebalances, running, starts, goal,
                 overlapped, unreported, highest>>

\* The dispatcher may have taken an event that it handles only now.
StopBus ==
  /\ running /\ running' = FALSE
  /\ inHand' \in {Nothing} \cup {FillOf(w) : w \in working}
                 \cup {OldestPosition : e \in ToSet(events)}
  /\ UNCHANGED <<engine, positions, events, toSend, working, rebalances, starts, goal,
                 overlapped, unreported, highest>>

\* Only once the dispatcher is out of its handlers: two of them are EventBus's.
StartBus ==
  /\ ~running /\ inHand = Nothing /\ starts < MaxStarts
  /\ running' = TRUE /\ starts' = starts + 1
  /\ UNCHANGED <<engine, positions, events, toSend, working, rebalances, inHand, goal,
                 overlapped, unreported, highest>>

ReportValue(value) ==
  /\ engine' = UpdatePortfolioValue(engine, value)
  /\ highest' = IF value > highest THEN value ELSE highest
  /\ UNCHANGED <<positions, events, toSend, working, rebalances, busVars, goal,
                 overlapped, unreported>>

Next ==
  \/ \E targets \in Targets(Weight), value \in Value,
        prices \in [Instrument -> Price \cup {NoPrice}] : Rebalance(targets, value, prices)
  \/ \E order \in toSend : Send(order) \/ SendRefused(order)
  \/ \E w \in working : Fill(w)
  \/ Deliver \/ StopBus \/ StartBus
  \/ \E value \in Value : ReportValue(value)

Spec == Init /\ [][Next]_vars

-------------------------------------------------------------------------------
(* Properties *)

\* A position exceeds its limit only where an order was checked while the engine
\* did not know of another trade in the instrument: one sent and not filled, one
\* whose PositionEvent is on the bus, or one whose PositionEvent the bus refused.
PositionWithinLimit ==
  \A limit \in Limit, i \in Instrument :
    /\ limit.kind = "MaxPosition" /\ limit.enabled
    /\ limit.instrument \in {AnyInstrument, i}
    => AbsOf(positions[i]) <= limit.max \/ i \in overlapped

\* When nothing is left to send or to fill, each instrument is at its target, or
\* flat if it has none or no price, unless its order was excluded, was refused by
\* a stopped bus, or was computed while an earlier one was still working.
RebalanceReachesTarget ==
  (toSend = {} /\ working = {}) =>
    \A i \in DOMAIN goal : positions[i] = goal[i]

\* No order passes the check while the portfolio is further below the highest
\* value it ever had than a drawdown limit allows.
DrawdownStopsTrading ==
  [][\A limit \in Limit :
       /\ limit.kind = "MaxDrawdown" /\ limit.enabled
       /\ (highest - engine.value) * 100 > limit.max * highest
       => toSend' \subseteq toSend]_vars

\* The engine's position is that of the OMS except where a PositionEvent is on
\* the bus, or where the newest one was refused because its fill was handled after
\* the bus was stopped: that one is lost, and the next one for the instrument, after
\* a restart, makes up for it.
EngineCatchesUp ==
  \A i \in Instrument :
    i \notin {e.instrument : e \in ToSet(events)} \cup unreported =>
      engine.positions[i] = positions[i]
===============================================================================
