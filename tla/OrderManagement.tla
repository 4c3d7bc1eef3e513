---------------------------- MODULE OrderManagement ----------------------------
(***************************************************************************)
(* The order management system (oms.py) and the paper venue (paper.py)     *)
(* over an unbounded event bus, which the two see as one FIFO lane per     *)
(* priority (module PriorityLanes, implemented by EventBus).               *)
(*                                                                         *)
(* With an unbounded queue publish() never suspends, so oms.submit_order() *)
(* is one step, or two when the venue sleeps for its fill latency.  The    *)
(* dispatcher takes an event and hands it to the OMS in two steps: another *)
(* subscriber of the same event may be served first and suspend it.        *)
(***************************************************************************)
EXTENDS OrderLifecycle, FiniteSets, Sequences, SequencesExt

CONSTANTS Order,         \* the orders submitted, each once
          Instrument,
          InstrumentOf, SideOf, OrderTypeOf,
          QuantityOf,    \* even: a unit is half of the smallest lot
          MaxCancels     \* bound: cancel_order() calls per order

OrderType == {"MARKET", "LIMIT", "STOP", "STOP_LIMIT"}

ASSUME RequestAssumption ==
  /\ InstrumentOf \in [Order -> Instrument]
  /\ SideOf \in [Order -> {"BUY", "SELL"}]
  /\ OrderTypeOf \in [Order -> OrderType]
  /\ QuantityOf \in [Order -> Nat]
  /\ \A o \in Order : QuantityOf[o] > 0 /\ QuantityOf[o] % 2 = 0

ASSUME BoundAssumption == MaxCancels \in Nat

Signed(o, qty) == IF SideOf[o] = "BUY" THEN qty ELSE -qty

-------------------------------------------------------------------------------
\* OrderAccepted, FillEvent, OrderSubmitted, OrderCancelled, PositionEvent.
Event(kind, o) == [kind |-> kind, order |-> o, qty |-> 0, status |-> "PENDING"]
FillEvent(o, qty, status) ==
  [kind |-> "FillEvent", order |-> o, qty |-> qty, status |-> status]

EventKind == {"OrderAccepted", "FillEvent", "OrderSubmitted", "OrderCancelled",
              "PositionEvent"}
BusEvent == [kind : EventKind, order : Order, qty : Nat, status : OrderStatus]

Nothing == [kind |-> "Nothing"]
Unknown == [status |-> "Unknown"]

VARIABLES
  orders,          \* oms._orders
  positions,       \* oms._positions: net quantity
  venueOrders,     \* venue._orders: status and filled quantity
  venuePositions,  \* venue._positions
  fillLatency,     \* venue._fill_latency_ms > 0: a setting, never changed
  submitCall,      \* progress of the oms.submit_order() call of each order
  cancels,         \* number of oms.cancel_order() calls for each order
  running,         \* bus._running
  high, low,       \* the bus: order and fill events, position events
  inHand           \* the event the dispatcher took, not yet seen by the OMS

omsVars == <<orders, positions>>
venueVars == <<venueOrders, venuePositions, fillLatency>>
callVars == <<submitCall, cancels>>
busVars == <<running, high, low, inHand>>
vars == <<omsVars, venueVars, callVars, busVars>>

VenueOrder == [status : OrderStatus, filled : Nat]

TypeOK ==
  /\ orders \in [Order -> OrderState \cup {Unknown}]
  /\ positions \in [Instrument -> Int]
  /\ venueOrders \in [Order -> VenueOrder \cup {Unknown}]
  /\ venuePositions \in [Instrument -> Int]
  /\ fillLatency \in BOOLEAN
  /\ submitCall \in [Order -> {"notCalled", "sleeping", "returned", "raised"}]
  /\ cancels \in [Order -> 0 .. MaxCancels]
  /\ running \in BOOLEAN
  /\ high \in Seq(BusEvent) /\ low \in Seq(BusEvent)
  /\ inHand \in BusEvent \cup {Nothing}

Init ==
  /\ orders = [o \in Order |-> Unknown]
  /\ positions = [i \in Instrument |-> 0]
  /\ venueOrders = [o \in Order |-> Unknown]
  /\ venuePositions = [i \in Instrument |-> 0]
  /\ fillLatency \in BOOLEAN
  /\ submitCall = [o \in Order |-> "notCalled"]
  /\ cancels = [o \in Order |-> 0]
  /\ running = TRUE
  /\ high = <<>> /\ low = <<>> /\ inHand = Nothing

-------------------------------------------------------------------------------
(* The paper venue *)

\* Mutant: the first half is reported with the final status.
Fills_EarlyStatus(o, partial) ==
  LET qty == QuantityOf[o]
  IN  IF partial
      THEN <<FillEvent(o, qty \div 2, "FILLED"), FillEvent(o, qty - qty \div 2, "FILLED")>>
      ELSE <<FillEvent(o, qty, "FILLED")>>

\* The FillEvents of a fill: all at once, or half and then the rest.
Fills(o, partial) ==
  LET qty == QuantityOf[o]
  IN  IF partial
      THEN <<FillEvent(o, qty \div 2, "PARTIALLY_FILLED"),
             FillEvent(o, qty - qty \div 2, "FILLED")>>
      ELSE <<FillEvent(o, qty, "FILLED")>>

\* Mutant: a sale is booked like a purchase.
ExecuteFill_Unsigned(o) ==
  /\ venueOrders' = [venueOrders EXCEPT ![o] =
                       [status |-> "FILLED", filled |-> QuantityOf[o]]]
  /\ venuePositions' = [venuePositions EXCEPT ![InstrumentOf[o]] = @ + QuantityOf[o]]

\* _execute_fill() of which no publish() is refused: the order is filled, then
\* the whole quantity is booked.
ExecuteFill(o) ==
  /\ venueOrders' = [venueOrders EXCEPT ![o] =
                       [status |-> "FILLED", filled |-> QuantityOf[o]]]
  /\ venuePositions' = [venuePositions EXCEPT ![InstrumentOf[o]] =
                          @ + Signed(o, QuantityOf[o])]

\* The bus refuses its first FillEvent: the order is marked, nothing is booked.
ExecuteFillRefused(o, partial) ==
  /\ venueOrders' = [venueOrders EXCEPT ![o] =
       [status |-> Fills(o, partial)[1].status, filled |-> Fills(o, partial)[1].qty]]
  /\ UNCHANGED venuePositions

VenueAccepts(o) ==
  venueOrders' = [venueOrders EXCEPT ![o] = [status |-> "ACCEPTED", filled |-> 0]]

-------------------------------------------------------------------------------
(* oms.submit_order(), with the venue's submit_order() inside it *)

IsMarket(o) == OrderTypeOf[o] = "MARKET"

\* LIMIT and STOP orders rest at the venue.
SubmitResting(o) ==
  /\ submitCall[o] = "notCalled" /\ running /\ ~ IsMarket(o)
  /\ VenueAccepts(o)
  /\ orders' = [orders EXCEPT ![o] = AfterSubmit(NewOrder)]
  /\ submitCall' = [submitCall EXCEPT ![o] = "returned"]
  /\ high' = high \o <<Event("OrderAccepted", o), Event("OrderSubmitted", o)>>
  /\ UNCHANGED <<positions, venuePositions, fillLatency, cancels, running, low, inHand>>

SubmitMarket(o) ==
  /\ submitCall[o] = "notCalled" /\ running /\ IsMarket(o) /\ ~fillLatency
  /\ ExecuteFill(o)
  /\ orders' = [orders EXCEPT ![o] = AfterSubmit(NewOrder)]
  /\ submitCall' = [submitCall EXCEPT ![o] = "returned"]
  /\ \E partial \in BOOLEAN :
       high' = high \o <<Event("OrderAccepted", o)>> \o Fills(o, partial)
                    \o <<Event("OrderSubmitted", o)>>
  /\ UNCHANGED <<positions, fillLatency, cancels, running, low, inHand>>

\* The venue acknowledges the order and sleeps.
SubmitSleeps(o) ==
  /\ submitCall[o] = "notCalled" /\ running /\ IsMarket(o) /\ fillLatency
  /\ VenueAccepts(o)
  /\ orders' = [orders EXCEPT ![o] = NewOrder]
  /\ submitCall' = [submitCall EXCEPT ![o] = "sleeping"]
  /\ high' = Append(high, Event("OrderAccepted", o))
  /\ UNCHANGED <<positions, venuePositions, fillLatency, cancels, running, low, inHand>>

\* The venue wakes up, fills, and the call of the OMS ends.
SubmitFills(o) ==
  /\ submitCall[o] = "sleeping" /\ running
  /\ ExecuteFill(o)
  /\ orders' = [orders EXCEPT ![o] = AfterSubmit(@)]
  /\ submitCall' = [submitCall EXCEPT ![o] = "returned"]
  /\ \E partial \in BOOLEAN :
       high' = high \o Fills(o, partial) \o <<Event("OrderSubmitted", o)>>
  /\ UNCHANGED <<positions, fillLatency, cancels, running, low, inHand>>

\* On a stopped bus the venue stores the order, then its publish() raises and
\* the OMS takes the submission for failed.
SubmitRefused(o) ==
  /\ submitCall[o] = "notCalled" /\ ~running
  /\ VenueAccepts(o)
  /\ orders' = [orders EXCEPT ![o] = AfterFailedSubmit(NewOrder)]
  /\ submitCall' = [submitCall EXCEPT ![o] = "raised"]
  /\ UNCHANGED <<positions, venuePositions, fillLatency, cancels, busVars>>

\* The bus was stopped while the venue slept.
SubmitFillRefused(o) ==
  /\ submitCall[o] = "sleeping" /\ ~running
  /\ \E partial \in BOOLEAN : ExecuteFillRefused(o, partial)
  /\ orders' = [orders EXCEPT ![o] = AfterFailedSubmit(@)]
  /\ submitCall' = [submitCall EXCEPT ![o] = "raised"]
  /\ UNCHANGED <<positions, fillLatency, cancels, busVars>>

-------------------------------------------------------------------------------
(* oms.cancel_order(), with the venue's cancel_order() inside it *)

CanCancel(o) ==
  /\ orders[o] # Unknown
  /\ orders[o].status \in Cancellable /\ orders[o].venueIdKnown

\* The venue marks the order whatever its status; the OMS waits for the event.
CancelOrder(o) ==
  /\ cancels[o] < MaxCancels /\ CanCancel(o)
  /\ cancels' = [cancels EXCEPT ![o] = @ + 1]
  /\ venueOrders' = [venueOrders EXCEPT ![o].status = "CANCELLED"]
  /\ high' = IF running THEN Append(high, Event("OrderCancelled", o)) ELSE high
  /\ UNCHANGED <<omsVars, venuePositions, fillLatency, submitCall, running, low, inHand>>

-------------------------------------------------------------------------------
(* The dispatcher, and the OMS handlers it calls *)

TakeEvent ==
  /\ running /\ inHand = Nothing
  /\ \/ high # <<>> /\ inHand' = Head(high) /\ high' = Tail(high) /\ UNCHANGED low
     \/ high = <<>> /\ low # <<>> /\ inHand' = Head(low) /\ low' = Tail(low)
        /\ UNCHANGED high
  /\ UNCHANGED <<omsVars, venueVars, callVars, running>>

\* Mutant: the OMS is subscribed twice, the fill is handled again.
OnFill_Again ==
  /\ inHand # Nothing /\ inHand.kind = "FillEvent"
  /\ LET o == inHand.order
     IN  /\ orders' = [orders EXCEPT ![o] = AfterFill(@, inHand.qty, inHand.status)]
         /\ positions' = [positions EXCEPT ![InstrumentOf[o]] = @ + Signed(o, inHand.qty)]
  /\ UNCHANGED <<venueVars, callVars, busVars>>

\* _on_fill(): the order, then the position, then a PositionEvent that a
\* stopped bus refuses.
OnFill ==
  /\ inHand # Nothing /\ inHand.kind = "FillEvent"
  /\ LET o == inHand.order
     IN  /\ orders' = [orders EXCEPT ![o] = AfterFill(@, inHand.qty, inHand.status)]
         /\ positions' = [positions EXCEPT ![InstrumentOf[o]] =
                             @ + Signed(o, inHand.qty)]
         /\ low' = IF running THEN Append(low, Event("PositionEvent", o)) ELSE low
  /\ inHand' = Nothing
  /\ UNCHANGED <<venueVars, callVars, running, high>>

OnOrderAccepted ==
  /\ inHand # Nothing /\ inHand.kind = "OrderAccepted"
  /\ orders' = [orders EXCEPT ![inHand.order] = AfterAccepted(@)]
  /\ inHand' = Nothing
  /\ UNCHANGED <<positions, venueVars, callVars, running, high, low>>

\* Mutant: the event is looked up under another id and not found.
OnOrderCancelled_NotFound ==
  /\ inHand # Nothing /\ inHand.kind = "OrderCancelled"
  /\ inHand' = Nothing
  /\ UNCHANGED <<omsVars, venueVars, callVars, running, high, low>>

OnOrderCancelled ==
  /\ inHand # Nothing /\ inHand.kind = "OrderCancelled"
  /\ orders' = [orders EXCEPT ![inHand.order] = AfterCancelled(@)]
  /\ inHand' = Nothing
  /\ UNCHANGED <<positions, venueVars, callVars, running, high, low>>

\* The OMS does not subscribe to OrderSubmitted and PositionEvent.
NotForOMS ==
  /\ inHand # Nothing /\ inHand.kind \in {"OrderSubmitted", "PositionEvent"}
  /\ inHand' = Nothing
  /\ UNCHANGED <<omsVars, venueVars, callVars, running, high, low>>

\* bus.stop(): what is still in the lanes is never taken (EventBus).
StopBus ==
  /\ running
  /\ running' = FALSE
  /\ UNCHANGED <<omsVars, venueVars, callVars, high, low, inHand>>

-------------------------------------------------------------------------------
(* The position reconciler (reconcile.py); the paper venue answers at once *)

Held(quantities) == {i \in Instrument : quantities[i] # 0}

Reconcile(omsPositions, atVenue) ==
  [omsOnly |-> Held(omsPositions) \ Held(atVenue),
   venueOnly |-> Held(atVenue) \ Held(omsPositions),
   discrepancies |-> {i \in Held(omsPositions) \cap Held(atVenue) :
                        omsPositions[i] # atVenue[i]}]

IsConsistent(report) ==
  report.omsOnly = {} /\ report.venueOnly = {} /\ report.discrepancies = {}

-------------------------------------------------------------------------------
Submit(o) == SubmitResting(o) \/ SubmitMarket(o) \/ SubmitSleeps(o) \/ SubmitRefused(o)

WakeUp(o) == SubmitFills(o) \/ SubmitFillRefused(o)

Dispatch == TakeEvent \/ OnFill \/ OnOrderAccepted \/ OnOrderCancelled \/ NotForOMS

Next == \/ \E o \in Order : Submit(o) \/ WakeUp(o) \/ CancelOrder(o)
        \/ Dispatch
        \/ StopBus

Spec == Init /\ [][Next]_vars

\* The dispatcher runs while there are events, and a sleep ends; nobody has to
\* submit, to cancel or to stop.
Fairness == WF_vars(Dispatch) /\ \A o \in Order : WF_vars(WakeUp(o))

FairSpec == Spec /\ Fairness

-------------------------------------------------------------------------------
(* Properties *)

Executed(o) == IF venueOrders[o] = Unknown THEN 0 ELSE venueOrders[o].filled
Reported(o) == IF orders[o] = Unknown THEN 0 ELSE orders[o].filled

\* No order event is on its way to the OMS.
AtRest == high = <<>> /\ inHand = Nothing

\* When no order event is on its way a reconciliation of the OMS with the venue
\* finds no discrepancy, whatever mix of fills, cancellations and sides led there,
\* and also when a stopped bus refused the events of some orders.
PositionsAgreeAtRest ==
  AtRest => IsConsistent(Reconcile(positions, venuePositions))

\* An order the OMS shows FILLED has been filled in full, though its fills
\* arrive one by one and status and quantity come from different events.
FilledMeansAll ==
  \A o \in Order : orders[o] # Unknown /\ orders[o].status = "FILLED" =>
                    orders[o].filled = QuantityOf[o]

\* The OMS is a lagging but never wrong report of the venue's executions.
Report == INSTANCE ExecutionReport
  WITH Size <- QuantityOf,
       executed <- [o \in Order |-> Executed(o)],
       reported <- [o \in Order |-> Reported(o)]

ImplementsReport == Report!Spec

\* A market order the venue has taken ends FILLED in the OMS, unless the bus is
\* stopped.
MarketOrderIsFilled ==
  \A o \in Order :
    venueOrders[o] # Unknown /\ IsMarket(o) ~>
      ~running \/ (orders[o] # Unknown /\ orders[o].status = "FILLED")

\* An order cancelled at the venue ends in a terminal status in the OMS, unless
\* the bus is stopped.
CancelIsReported ==
  \A o \in Order : cancels[o] > 0 ~> ~running \/ orders[o].status \in Terminal
===============================================================================
