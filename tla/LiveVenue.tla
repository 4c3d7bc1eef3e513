------------------------------- MODULE LiveVenue -------------------------------
(***************************************************************************)
(* The order management system on a live venue adapter: ccxt, Interactive  *)
(* Brokers or tastytrade (execution/venues/).  They are alike: a request   *)
(* to the exchange, during which other tasks run, then one event on the    *)
(* bus; what they translate is in VenueAdapters.  (The tastytrade adapter  *)
(* blocks the event loop for a request: of the behaviours here it has      *)
(* those in which only the exchange acts meanwhile.)  The exchange is      *)
(* external: it may take, refuse, fill, cancel or end an order, late too,  *)
(* and its answer may be lost.                                             *)
(***************************************************************************)
EXTENDS OrderLifecycle, VenueAdapters, Sequences, SequencesExt, FiniteSetsExt

CONSTANTS Order,        \* the orders submitted, each once, by their order_id
          VenueId,      \* the id the exchange gives to each order
          Requested,    \* the requests each order may be, by adapter
          MaxCancels,   \* bound: cancel_order() calls per order
          MaxConnects   \* bound: connect() calls

\* order_id is a UUID by default, no exchange issues it.
ASSUME IdAssumption ==
  /\ \A o \in Order : VenueId[o] \notin Order
  /\ \A o, p \in Order : VenueId[o] = VenueId[p] => o = p

ASSUME RequestAssumption ==
  \A a \in Adapter : \A o \in Order : Requested[a][o] \subseteq OrderRequest

ASSUME BoundAssumption == MaxCancels \in Nat /\ MaxConnects \in Nat

VARIABLES
  adapter,       \* the adapter in use
  request,       \* the OrderRequest of each order
  client,        \* _exchange, _ib or _session is not None
  up,            \* ccxt: _connected; ibkr: ib.isConnected()
  connecting,    \* a connect() awaits the exchange
  connects,      \* number of connect() calls
  overlapped,    \* history: ccxt connected when connected, or disconnected meanwhile
  orders,        \* oms._orders
  submitCall,    \* progress of the submit_order() call of each order
  cancelCall,    \* progress of its cancel_order() calls
  cancels,       \* number of those calls
  venueOrders,   \* the orders at the exchange ("ended": expired or refused later)
  running,       \* bus._running
  queue,         \* order events on the bus, oldest first
  inHand         \* the event the dispatcher took, not yet seen by the OMS

callVars == <<submitCall, cancelCall, cancels>>
busVars == <<running, queue, inHand>>
sessionVars == <<client, up, connecting, connects, overlapped>>
orderVars == <<orders, callVars, venueOrders, busVars>>
vars == <<adapter, request, sessionVars, orderVars>>

Unknown == [status |-> "Unknown"]
Nothing == [kind |-> "Nothing"]
AnyId == Order \cup {VenueId[o] : o \in Order}
BusEvent == [kind : {"OrderAccepted", "OrderSubmitted", "OrderCancelled"}, id : AnyId]
Event(kind, id) == [kind |-> kind, id |-> id]

TypeOK ==
  /\ adapter \in Adapter /\ request \in [Order -> OrderRequest]
  /\ client \in BOOLEAN /\ up \in BOOLEAN /\ connecting \in BOOLEAN /\ overlapped \in BOOLEAN
  /\ connects \in 0 .. MaxConnects
  /\ orders \in [Order -> OrderState \cup {Unknown}]
  /\ submitCall \in [Order -> {"notCalled", "calling", "returned", "raised", "refused"}]
  /\ cancelCall \in [Order -> {"idle", "calling"}]
  /\ cancels \in [Order -> 0 .. MaxCancels]
  /\ venueOrders \in [Order -> {"none", "open", "filled", "cancelled", "ended"}]
  /\ running \in BOOLEAN
  /\ queue \in Seq(BusEvent) /\ inHand \in BusEvent \cup {Nothing}

Init ==
  /\ adapter \in Adapter
  /\ request \in {r \in [Order -> UNION {Requested[adapter][o] : o \in Order}] :
                     \A o \in Order : r[o] \in Requested[adapter][o]}
  /\ client = FALSE /\ up = FALSE /\ connecting = FALSE /\ overlapped = FALSE
  /\ connects = 0
  /\ orders = [o \in Order |-> Unknown]
  /\ submitCall = [o \in Order |-> "notCalled"]
  /\ cancelCall = [o \in Order |-> "idle"] /\ cancels = [o \in Order |-> 0]
  /\ venueOrders = [o \in Order |-> "none"]
  /\ running = TRUE /\ queue = <<>> /\ inHand = Nothing

-------------------------------------------------------------------------------
(* The session *)

\* _require_exchange(), _require_ib(), _require_session()
Served == client /\ (adapter = "tastytrade" \/ up)

IsConnected ==
  CASE adapter = "ccxt" -> up
    [] adapter = "ibkr" -> client /\ up
    [] OTHER -> client

\* Mutant: connected before the markets are loaded.
ConnectCalls_Early ==
  /\ ~connecting /\ connects < MaxConnects
  /\ connecting' = TRUE /\ connects' = connects + 1
  /\ client' = (client \/ adapter = "ccxt")
  /\ up' = (up \/ adapter = "ccxt")
  /\ overlapped' = (overlapped \/ (adapter = "ccxt" /\ up))
  /\ UNCHANGED <<adapter, request, orderVars>>

\* ccxt has its client before it awaits the markets, the others after.
ConnectCalls ==
  /\ ~connecting /\ connects < MaxConnects
  /\ connecting' = TRUE /\ connects' = connects + 1
  /\ client' = (client \/ adapter = "ccxt")
  /\ overlapped' = (overlapped \/ (adapter = "ccxt" /\ up))
  /\ UNCHANGED <<adapter, request, up, orderVars>>

ConnectReturns ==
  /\ connecting /\ connecting' = FALSE
  /\ client' = (client \/ adapter # "ccxt")
  /\ up' = TRUE
  /\ UNCHANGED <<adapter, request, connects, overlapped, orderVars>>

\* On an error of its library ccxt forgets its client, also one that served before;
\* any other exception, or the end of the task, leaves the client it has.
ConnectFails ==
  /\ connecting /\ connecting' = FALSE
  /\ client' \in {client, client /\ adapter # "ccxt"}
  /\ UNCHANGED <<adapter, request, up, connects, overlapped, orderVars>>

Disconnect ==
  /\ client \/ up
  /\ client' = FALSE /\ up' = FALSE
  /\ overlapped' = (overlapped \/ connecting)
  /\ UNCHANGED <<adapter, request, connecting, connects, orderVars>>

\* TWS goes away: external.
Drops ==
  /\ adapter = "ibkr" /\ client /\ up /\ up' = FALSE
  /\ UNCHANGED <<adapter, request, client, connecting, connects, overlapped, orderVars>>

-------------------------------------------------------------------------------
(* The exchange *)

Native(o) == NativeOrder(adapter, request[o])
ContractOf(o) == Contract(adapter, request[o].instrument)

\* The filled orders for a contract, each for so much, taken together.
TotalFilled(quantity, c) ==
  MapThenSumSet(LAMBDA o : quantity[o],
                {o \in Order : venueOrders[o] = "filled" /\ ContractOf(o) = c})

\* Net quantity of a contract the account holds.
Net(c) == TotalFilled([o \in Order |-> Sign(request[o]) * Native(o).quantity], c)

\* An exchange takes complete orders only.
Complete(o) ==
  /\ Native(o).quantity > 0
  /\ Native(o).type \in Limited => Native(o).price # 0
  /\ Native(o).type \in Stopped => Native(o).stop # 0
  /\ ContractOf(o).kind = "OPT" => request[o].instrument.symbol.written = "parts"

\* tastytrade was told that a sell closes a long position.
MayExecute(o) ==
  (adapter = "tastytrade" /\ request[o].side = "SELL") => Net(ContractOf(o)) >= Native(o).quantity

ExchangeActs(o, new) ==
  /\ venueOrders' = [venueOrders EXCEPT ![o] = new]
  /\ UNCHANGED <<adapter, request, sessionVars, orders, callVars, busVars>>

Takes(o) == /\ submitCall[o] \in {"calling", "returned", "raised"} /\ venueOrders[o] = "none"
            /\ Complete(o)
            /\ ExchangeActs(o, "open")

\* No adapter reports executions to the bus.
Executes(o) == venueOrders[o] = "open" /\ MayExecute(o) /\ ExchangeActs(o, "filled")

Cancels(o) == venueOrders[o] = "open" /\ cancels[o] > 0 /\ ExchangeActs(o, "cancelled")

Ends(o) == venueOrders[o] = "open" /\ ExchangeActs(o, "ended")

-------------------------------------------------------------------------------
(* oms.submit_order() and the submit_order() of the adapter *)

SubmitCalls(o) ==
  /\ submitCall[o] = "notCalled"
  /\ Served /\ Translatable(adapter, request[o])
  /\ orders' = [orders EXCEPT ![o] = NewOrder]
  /\ submitCall' = [submitCall EXCEPT ![o] = "calling"]
  /\ UNCHANGED <<adapter, request, sessionVars, cancelCall, cancels, venueOrders, busVars>>

\* The adapter raises before it asks the exchange.
SubmitRefused(o) ==
  /\ submitCall[o] = "notCalled"
  /\ ~ (Served /\ Translatable(adapter, request[o]))
  /\ orders' = [orders EXCEPT ![o] = AfterFailedSubmit(NewOrder)]
  /\ submitCall' = [submitCall EXCEPT ![o] = "refused"]
  /\ UNCHANGED <<adapter, request, sessionVars, cancelCall, cancels, venueOrders, busVars>>

\* The adapter publishes OrderAccepted under the order_id, the OMS OrderSubmitted.
\* placeOrder() of Interactive Brokers returns when the order is sent.
SubmitAnswered(o) ==
  /\ submitCall[o] = "calling" /\ running
  /\ venueOrders[o] # "none" \/ adapter = "ibkr"
  /\ orders' = [orders EXCEPT ![o] = AfterSubmit(@)]
  /\ queue' = queue \o <<Event("OrderAccepted", o), Event("OrderSubmitted", o)>>
  /\ submitCall' = [submitCall EXCEPT ![o] = "returned"]
  /\ UNCHANGED <<adapter, request, sessionVars, cancelCall, cancels, venueOrders, running, inHand>>

\* The request raises, whatever the exchange did, or the stopped bus refuses
\* the event: the order counts as rejected.
SubmitFails(o) ==
  /\ submitCall[o] = "calling"
  /\ orders' = [orders EXCEPT ![o] = AfterFailedSubmit(@)]
  /\ submitCall' = [submitCall EXCEPT ![o] = "raised"]
  /\ UNCHANGED <<adapter, request, sessionVars, cancelCall, cancels, venueOrders, busVars>>

-------------------------------------------------------------------------------
(* oms.cancel_order() and the cancel_order() of the adapter *)

\* The adapter asks the exchange; Interactive Brokers only for an open trade.
CancelCalls(o) ==
  /\ cancels[o] < MaxCancels /\ cancelCall[o] = "idle"
  /\ orders[o] # Unknown
  /\ orders[o].status \in Cancellable /\ orders[o].venueIdKnown /\ Served
  /\ adapter = "ibkr" => venueOrders[o] \in {"none", "open"}
  /\ cancelCall' = [cancelCall EXCEPT ![o] = "calling"]
  /\ cancels' = [cancels EXCEPT ![o] = @ + 1]
  /\ UNCHANGED <<adapter, request, sessionVars, orders, submitCall, venueOrders, busVars>>

\* The adapter knows the order by the id of the exchange and publishes that.
\* Only ccxt waits until the order is cancelled.
CancelAnswered(o) ==
  /\ cancelCall[o] = "calling"
  /\ venueOrders[o] = "cancelled" \/ adapter # "ccxt"
  /\ cancelCall' = [cancelCall EXCEPT ![o] = "idle"]
  /\ queue' = IF running THEN Append(queue, Event("OrderCancelled", VenueId[o])) ELSE queue
  /\ UNCHANGED <<adapter, request, sessionVars, orders, submitCall, cancels, venueOrders, running, inHand>>

\* Not served, not open any more, or the answer is lost: the caller gets the
\* exception.
CancelFails(o) ==
  /\ cancelCall[o] = "calling"
  /\ cancelCall' = [cancelCall EXCEPT ![o] = "idle"]
  /\ UNCHANGED <<adapter, request, sessionVars, orders, submitCall, cancels, venueOrders, busVars>>

-------------------------------------------------------------------------------
(* The dispatcher and the OMS handlers *)

TakeEvent ==
  /\ running /\ inHand = Nothing /\ queue # <<>>
  /\ inHand' = Head(queue) /\ queue' = Tail(queue)
  /\ UNCHANGED <<adapter, request, sessionVars, orders, callVars, venueOrders, running>>

\* Mutant: the OMS looks for the id of the exchange.
OnOrderAccepted_ByVenueId ==
  /\ inHand # Nothing /\ inHand.kind = "OrderAccepted"
  /\ orders' = [o \in Order |-> IF inHand.id = VenueId[o] THEN AfterAccepted(orders[o])
                                ELSE orders[o]]
  /\ inHand' = Nothing
  /\ UNCHANGED <<adapter, request, sessionVars, callVars, venueOrders, running, queue>>

\* An event is for the order of that id, if the OMS knows it.
OnOrderAccepted ==
  /\ inHand # Nothing /\ inHand.kind = "OrderAccepted"
  /\ orders' = [o \in Order |-> IF inHand.id = o THEN AfterAccepted(orders[o]) ELSE orders[o]]
  /\ inHand' = Nothing
  /\ UNCHANGED <<adapter, request, sessionVars, callVars, venueOrders, running, queue>>

OnOrderCancelled ==
  /\ inHand # Nothing /\ inHand.kind = "OrderCancelled"
  /\ orders' = [o \in Order |-> IF inHand.id = o THEN AfterCancelled(orders[o]) ELSE orders[o]]
  /\ inHand' = Nothing
  /\ UNCHANGED <<adapter, request, sessionVars, callVars, venueOrders, running, queue>>

\* The OMS does not subscribe to OrderSubmitted.
NotForOMS ==
  /\ inHand # Nothing /\ inHand.kind = "OrderSubmitted"
  /\ inHand' = Nothing
  /\ UNCHANGED <<adapter, request, sessionVars, orders, callVars, venueOrders, running, queue>>

StopBus == /\ running /\ running' = FALSE
           /\ UNCHANGED <<adapter, request, sessionVars, orders, callVars, venueOrders, queue, inHand>>

Answer(o) == SubmitAnswered(o) \/ SubmitFails(o) \/ CancelAnswered(o) \/ CancelFails(o)

Dispatch == TakeEvent \/ OnOrderAccepted \/ OnOrderCancelled \/ NotForOMS

Next ==
  \/ \E o \in Order : \/ Takes(o) \/ Executes(o) \/ Cancels(o) \/ Ends(o)
                      \/ SubmitCalls(o) \/ SubmitRefused(o) \/ CancelCalls(o) \/ Answer(o)
  \/ ConnectCalls \/ ConnectReturns \/ ConnectFails \/ Disconnect \/ Drops
  \/ Dispatch
  \/ StopBus

Spec == Init /\ [][Next]_vars

\* The dispatcher runs, and a request ends with an answer or an exception.
FairSpec == Spec /\ WF_vars(Dispatch) /\ \A o \in Order : WF_vars(Answer(o))

-------------------------------------------------------------------------------
(* Properties *)

\* What is left of the terms of a request.  The type and the prices of the type are
\* those asked for, and the quantity too, but for the fraction of a unit that
\* tastytrade cuts off.  The time in force is lost everywhere except at tastytrade,
\* which knows all but FOK: an order that should have been executed at once or not
\* at all goes on working.
TermsKept(o) ==
  /\ Native(o).type = request[o].type
  /\ request[o].type \in Limited => Native(o).price = request[o].price
  /\ request[o].type \in Stopped => Native(o).stop = request[o].stop
  /\ Native(o).quantity + (IF adapter = "tastytrade" THEN request[o].quantity % WholeUnit ELSE 0)
       = request[o].quantity
  /\ Native(o).tif = request[o].tif <=> (adapter = "tastytrade" /\ request[o].tif # "FOK")

\* An order the OMS shows as working, and would let a strategy cancel, has been
\* taken by the exchange, whatever answers were lost (at Interactive Brokers it
\* may only have been sent), at the prices asked for and for no more than the whole
\* units asked for.  An order whose stop price is lost, as on ccxt, is one no
\* exchange takes.  A time in force that is lost does not keep an order from working:
\* TermsKept says exactly where that happens.
WorkingIsAtVenue ==
  \A o \in Order :
    (orders[o] # Unknown /\ orders[o].status \in Cancellable) =>
      IF venueOrders[o] = "none" THEN adapter = "ibkr" ELSE TermsKept(o)

\* What get_positions() maps the instrument to.
Reported(i) ==
  LET held == {c \in {ContractOf(o) : o \in {p \in Order : venueOrders[p] = "filled"}} :
                 Net(c) # 0 /\ IsPosition(adapter, c) /\ BuildInstrument(adapter, c) = i}
  IN {ReportedQuantity(adapter, Net(c)) : c \in held}

\* The exchange takes the order, and its instrument comes back as it was sent.
Comparable(o) ==
  /\ Translatable(adapter, request[o]) /\ Complete(o)
  /\ BuildInstrument(adapter, ContractOf(o)) = request[o].instrument
  /\ IsPosition(adapter, ContractOf(o))

\* The net quantity asked for by the filled orders of a contract.
WantedNet(c) == TotalFilled([o \in Order |-> Sign(request[o]) * request[o].quantity], c)

\* The position a live adapter reports for an instrument, which the reconciler
\* compares with the books by the instrument, is what the filled orders for its
\* contract asked for: long and short, under whatever symbols they were ordered.
PositionsComparable ==
  \A o \in Order :
    Comparable(o) /\ (\A p \in Order : Native(p).quantity = request[p].quantity) =>
      Reported(request[o].instrument) =
        IF WantedNet(ContractOf(o)) = 0 THEN {} ELSE {WantedNet(ContractOf(o))}

\* How the exchange may name the state of an order, and what get_order_status()
\* makes of it.
NativeStatuses(o) ==
  LET asked == cancels[o] > 0 IN
  CASE adapter = "ccxt" ->
         CASE venueOrders[o] = "filled" -> {"closed"}
           [] venueOrders[o] = "cancelled" -> {"canceled"}
           [] venueOrders[o] = "ended" -> {"expired", "rejected"}
           [] OTHER -> {"open", "unnamed"}
    [] adapter = "ibkr" ->
         CASE venueOrders[o] = "filled" -> {"Filled"}
           [] venueOrders[o] = "cancelled" -> {"Cancelled", "ApiCancelled"}
           [] venueOrders[o] = "ended" -> {"Inactive"}
           [] OTHER -> {"ApiPending", "PendingSubmit", "PreSubmitted", "Submitted"} \cup
                       (IF asked THEN {"PendingCancel"} ELSE {})
    [] OTHER ->
         CASE venueOrders[o] = "filled" -> {"Filled"}
           [] venueOrders[o] = "cancelled" -> {"Cancelled", "Removed", "PartiallyRemoved"}
           [] venueOrders[o] = "ended" -> {"Expired", "Rejected"}
           [] OTHER -> {"Received", "Routed", "InFlight", "Live", "Contingent", "ReplaceRequested"}
                       \cup (IF asked THEN {"CancelRequested"} ELSE {})

Polled(o) == {MapStatus(adapter, n) : n \in NativeStatuses(o)}

\* A poll that shows an order ended shows its last state: the exchange does not
\* fill it any more, even when a cancellation was asked for and races the fill.
PolledEndIsFinal ==
  [][\A o \in Order : Polled(o) \cap Terminal # {} => venueOrders'[o] = venueOrders[o]]_venueOrders

\* is_connected is true of an adapter only when it serves requests, as long as
\* connect() is not called on a connected ccxt adapter or overtaken by disconnect().
ConnectedIsServed == IsConnected /\ ~overlapped => Served

\* The status of a live order only moves along the transition table, although
\* the calls of the OMS and the handlers both assign it.
StatusFollowsTable ==
  [][\A o \in Order :
       orders[o] # Unknown /\ orders'[o].status # orders[o].status =>
         IsValidTransition(orders[o].status, orders'[o].status)]_orders

\* An order whose submission returned is shown ACCEPTED in the end, or an end
\* state, unless the bus is stopped: no later step puts it back to SUBMITTED.
AcceptanceIsReported ==
  \A o \in Order :
    submitCall[o] = "returned" ~>
      ~running \/ [](orders[o].status \in {"ACCEPTED"} \cup Terminal)

\* The adapter confirmed a cancellation.
CancelConfirmed(o) ==
  \E i \in DOMAIN queue : queue[i] = Event("OrderCancelled", VenueId[o])

\* The OMS moves an order whose cancellation was confirmed to CANCELLED when the
\* event arrives, unless the bus is stopped.
ConfirmedIsCancelled ==
  \A o \in Order : CancelConfirmed(o) ~> ~running \/ orders[o].status = "CANCELLED"
===============================================================================
