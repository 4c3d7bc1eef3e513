---------------------------- MODULE LiveVenueProofs ----------------------------
(***************************************************************************)
(* Proofs about the OMS on a live venue, for each of the three adapters,   *)
(* any orders and requests, and any number of calls and connections.       *)
(*                                                                         *)
(* The inductive invariant says what the progress of a submission tells of *)
(* the order at both ends, which events can be on the bus for it, and what *)
(* a ccxt session without overlapping calls looks like.                    *)
(***************************************************************************)
EXTENDS LiveVenue, TLAPS, SequenceTheorems, FiniteSetTheorems, WellFoundedInduction

\* ccxt without overlapping calls: connected means that there is a client, and a
\* connect() in progress started from a session that was not connected.
SessionInv ==
  adapter = "ccxt" /\ ~overlapped =>
    /\ up => client
    /\ connecting => client /\ ~up

\* The order in the books, by the progress of its submission.
Booked(o) ==
  CASE submitCall[o] = "notCalled" -> orders[o] = Unknown
    [] submitCall[o] = "calling" -> orders[o] \in OrderState /\ orders[o].status = "PENDING"
    [] submitCall[o] = "returned" -> /\ orders[o] \in OrderState
                                     /\ orders[o].status \in {"SUBMITTED", "ACCEPTED"}
    [] OTHER -> orders[o] \in OrderState /\ orders[o].status = "REJECTED"

\* The order at the exchange: nothing is there that was not asked for in complete
\* terms, and an answer means that it is there, or at least sent.
AtVenue(o) ==
  /\ submitCall[o] \in {"calling", "returned", "raised"} => Translatable(adapter, request[o])
  /\ submitCall[o] = "returned" => venueOrders[o] # "none" \/ adapter = "ibkr"
  /\ venueOrders[o] # "none" =>
       Complete(o) /\ submitCall[o] \in {"calling", "returned", "raised"}

CallInv == \A o \in Order : Booked(o) /\ AtVenue(o)

\* An acknowledgement is for an order whose submission returned; a cancellation
\* carries an id that is not one of the OMS.
Expected(e, answered) ==
  IF e.kind = "OrderCancelled" THEN e.id \notin Order ELSE e.id \in answered

Answered == {o \in Order : submitCall[o] = "returned"}

EventInv ==
  /\ \A k \in 1 .. Len(queue) : Expected(queue[k], Answered)
  /\ inHand # Nothing => Expected(inHand, Answered)

IInv == TypeOK /\ SessionInv /\ CallInv /\ EventInv

\* What the OMS knows of a live order: no end other than a failed submission.
NeverEnds ==
  \A o \in Order : orders[o] # Unknown =>
    orders[o].status \in {"PENDING", "SUBMITTED", "ACCEPTED", "REJECTED"}

-------------------------------------------------------------------------------
(* Data *)

LEMMA Distinct ==
  /\ Unknown \notin OrderState /\ Nothing \notin BusEvent
BY DEF Unknown, OrderState, OrderStatus, Nothing, BusEvent

LEMMA Lifecycle ==
  /\ NewOrder \in OrderState /\ NewOrder.status = "PENDING"
  /\ \A st \in OrderState :
       /\ AfterSubmit(st) \in OrderState /\ AfterSubmit(st).status = "SUBMITTED"
       /\ AfterFailedSubmit(st) \in OrderState /\ AfterFailedSubmit(st).status = "REJECTED"
       /\ AfterAccepted(st) \in OrderState
       /\ st.status \in {"SUBMITTED", "ACCEPTED"} => AfterAccepted(st).status = "ACCEPTED"
BY DEF OrderState, OrderStatus, NewOrder, AfterSubmit, AfterFailedSubmit, AfterAccepted, Transition,
       IsValidTransition, ValidTransitions

\* The moves the live OMS makes are in the transition table.
LEMMA Moves ==
  /\ IsValidTransition("PENDING", "SUBMITTED") /\ IsValidTransition("PENDING", "REJECTED")
  /\ IsValidTransition("SUBMITTED", "ACCEPTED")
BY DEF IsValidTransition, ValidTransitions

\* What becomes of a request that an adapter translates and the exchange takes.
LEMMA TakenKeepsTerms ==
  ASSUME TypeOK, NEW o \in Order, Translatable(adapter, request[o]), Complete(o)
  PROVE  TermsKept(o)
<1>1. /\ request[o] \in OrderRequest /\ adapter \in Adapter
      /\ request[o].quantity \in Nat /\ request[o].tif \in TimeInForce
  BY DEF TypeOK, OrderRequest
<1>2. request[o].tif # "default"
  BY <1>1 DEF TimeInForce
<1>3. CASE adapter = "ccxt"
  <2>1. Native(o) = CcxtOrder(request[o])
    BY <1>3 DEF Native, NativeOrder
  <2>2. /\ Native(o).type = request[o].type /\ Native(o).price = request[o].price
        /\ Native(o).stop = 0 /\ Native(o).quantity = request[o].quantity
        /\ Native(o).tif = "default"
    BY <2>1 DEF CcxtOrder
  <2>3. request[o].type \notin Stopped
    BY <2>2 DEF Complete
  <2> QED
    BY <1>1, <1>2, <1>3, <2>2, <2>3 DEF TermsKept
<1>4. CASE adapter = "ibkr"
  <2>1. Native(o) = IbOrder(request[o])
    BY <1>4 DEF Native, NativeOrder
  <2>2. /\ Native(o).type = request[o].type /\ Native(o).quantity = request[o].quantity
        /\ request[o].type \in Limited => Native(o).price = request[o].price
        /\ request[o].type \in Stopped => Native(o).stop = request[o].stop
        /\ Native(o).tif = "default"
    BY <2>1 DEF IbOrder
  <2> QED
    BY <1>1, <1>2, <1>4, <2>2 DEF TermsKept
<1>5. CASE adapter = "tastytrade"
  <2>1. Native(o) = TtOrder(request[o])
    BY <1>5 DEF Native, NativeOrder
  <2>2. /\ Native(o).type = request[o].type /\ Native(o).price = request[o].price
        /\ Native(o).stop = request[o].stop
        /\ Native(o).quantity = request[o].quantity - (request[o].quantity % WholeUnit)
        /\ Native(o).tif = MapTimeInForce(request[o].tif)
    BY <2>1 DEF TtOrder
  <2>3. Native(o).quantity + (request[o].quantity % WholeUnit) = request[o].quantity
    BY <1>1, <2>2 DEF WholeUnit
  <2>4. Native(o).tif = request[o].tif <=> request[o].tif # "FOK"
    BY <2>2 DEF MapTimeInForce
  <2> QED
    BY <1>5, <2>2, <2>3, <2>4 DEF TermsKept
<1> QED
  BY <1>1, <1>3, <1>4, <1>5 DEF Adapter

-------------------------------------------------------------------------------
(* Steps *)

\* A step that leaves an order and its calls alone leaves what is said of it alone.
LEMMA SameCall ==
  ASSUME UNCHANGED <<adapter, request, orders, submitCall, venueOrders>>
  PROVE  (CallInv' <=> CallInv) /\ Answered' = Answered
BY DEF CallInv, Booked, AtVenue, Complete, Native, ContractOf, Answered

\* The bus and the exchange are not touched by connecting and disconnecting.
LEMMA Session_Inv ==
  ASSUME IInv, ConnectCalls \/ ConnectReturns \/ ConnectFails \/ Disconnect \/ Drops
  PROVE  IInv'
<1>1. UNCHANGED <<adapter, request, orders, submitCall, cancelCall, cancels, venueOrders,
                  running, queue, inHand>>
  BY DEF ConnectCalls, ConnectReturns, ConnectFails, Disconnect, Drops, orderVars, callVars, busVars
<1>2. client' \in BOOLEAN /\ up' \in BOOLEAN /\ connecting' \in BOOLEAN /\ overlapped' \in BOOLEAN
  BY Zenon DEF IInv, TypeOK, ConnectCalls, ConnectReturns, ConnectFails, Disconnect, Drops
<1>3. connects' \in 0 .. MaxConnects
  <2>1. connects' = connects \/ (connects < MaxConnects /\ connects' = connects + 1)
    BY DEF ConnectCalls, ConnectReturns, ConnectFails, Disconnect, Drops
  <2> QED
    BY <2>1, BoundAssumption DEF IInv, TypeOK
<1>4. TypeOK'
  BY <1>1, <1>2, <1>3, Zenon DEF IInv, TypeOK
<1>5. SessionInv'
  BY <1>1 DEF IInv, TypeOK, SessionInv, ConnectCalls, ConnectReturns, ConnectFails, Disconnect, Drops
<1>6. CallInv' /\ EventInv'
  BY <1>1, SameCall DEF IInv, EventInv
<1> QED
  BY <1>4, <1>5, <1>6 DEF IInv

LEMMA Exchange_Inv ==
  ASSUME IInv, NEW o \in Order, Takes(o) \/ Executes(o) \/ Cancels(o) \/ Ends(o)
  PROVE  IInv'
<1>1. UNCHANGED <<adapter, request, client, up, connecting, connects, overlapped, orders,
                  submitCall, cancelCall, cancels, running, queue, inHand>>
  BY DEF Takes, Executes, Cancels, Ends, ExchangeActs, sessionVars, callVars, busVars
<1>2. PICK new \in {"open", "filled", "cancelled", "ended"} :
        venueOrders' = [venueOrders EXCEPT ![o] = new]
  BY DEF Takes, Executes, Cancels, Ends, ExchangeActs
<1>3. venueOrders[o] # "none" \/ (Complete(o) /\ submitCall[o] \in {"calling", "returned", "raised"})
  BY DEF Takes, Executes, Cancels, Ends
<1>4. TypeOK'
  BY <1>1, <1>2 DEF IInv, TypeOK
<1>5. SessionInv' /\ EventInv'
  BY <1>1 DEF IInv, SessionInv, EventInv, Answered
<1>6. \A p \in Order : (Complete(p)' <=> Complete(p)) /\ (Booked(p)' <=> Booked(p))
  BY <1>1 DEF Complete, Native, ContractOf, Booked
<1>7. CallInv'
  BY <1>1, <1>2, <1>3, <1>6 DEF IInv, TypeOK, CallInv, AtVenue
<1> QED
  BY <1>4, <1>5, <1>7 DEF IInv

\* The cancellation calls change nothing but their own progress and the bus.
LEMMA Cancel_Inv ==
  ASSUME IInv, NEW o \in Order, CancelCalls(o) \/ CancelAnswered(o) \/ CancelFails(o)
  PROVE  IInv'
<1>1. UNCHANGED <<adapter, request, client, up, connecting, connects, overlapped, orders,
                  submitCall, venueOrders, running, inHand>>
  BY DEF CancelCalls, CancelAnswered, CancelFails, sessionVars, busVars
<1> DEFINE e == Event("OrderCancelled", VenueId[o])
<1>2. e \in BusEvent /\ e.kind = "OrderCancelled" /\ e.id \notin Order
  BY IdAssumption DEF Event, BusEvent, AnyId
<1> HIDE DEF e
<1>3. queue \in Seq(BusEvent) /\ queue' \in {queue, Append(queue, e)}
  BY DEF CancelCalls, CancelAnswered, CancelFails, busVars, IInv, TypeOK, e
<1>4. queue' \in Seq(BusEvent)
  BY <1>2, <1>3, AppendProperties
<1>5. TypeOK'
  <2>1. cancels' \in [Order -> 0 .. MaxCancels]
    <3>1. CASE CancelCalls(o)
      <4>1. cancels[o] \in 0 .. MaxCancels /\ cancels[o] < MaxCancels
        BY <3>1 DEF CancelCalls, IInv, TypeOK
      <4>2. cancels[o] + 1 \in 0 .. MaxCancels
        BY <4>1, BoundAssumption
      <4> QED
        BY <3>1, <4>2 DEF CancelCalls, IInv, TypeOK
    <3>2. CASE CancelAnswered(o) \/ CancelFails(o)
      BY <3>2 DEF CancelAnswered, CancelFails, IInv, TypeOK
    <3> QED
      BY <3>1, <3>2
  <2>2. cancelCall' \in [Order -> {"idle", "calling"}]
    BY DEF CancelCalls, CancelAnswered, CancelFails, IInv, TypeOK
  <2> QED
    BY <1>1, <1>4, <2>1, <2>2, Zenon DEF IInv, TypeOK
<1>6. SessionInv'
  BY <1>1 DEF IInv, SessionInv
<1>7. CallInv' /\ Answered' = Answered
  BY <1>1, SameCall DEF IInv
<1>8. EventInv'
  <2>1. Expected(e, Answered)
    BY <1>2 DEF Expected
  <2>2. /\ Len(queue) \in Nat /\ Len(Append(queue, e)) = Len(queue) + 1
        /\ \A k \in 1 .. Len(queue) : Append(queue, e)[k] = queue[k]
        /\ Append(queue, e)[Len(queue) + 1] = e
    BY <1>2, <1>3, AppendProperties, LenProperties
  <2>3. \A k \in 1 .. Len(queue') : Expected(queue'[k], Answered)
    BY <1>3, <2>1, <2>2 DEF IInv, EventInv
  <2> QED
    BY <1>1, <1>7, <2>3 DEF IInv, EventInv
<1> QED
  BY <1>5, <1>6, <1>7, <1>8 DEF IInv

\* The progress of one submission is that of its order alone.
LEMMA CallMoves ==
  ASSUME IInv, NEW o \in Order, submitCall[o] # "returned",
         NEW c \in {"calling", "returned", "raised", "refused"}, NEW st \in OrderState,
         submitCall' = [submitCall EXCEPT ![o] = c], orders' = [orders EXCEPT ![o] = st],
         UNCHANGED <<adapter, request, client, up, connecting, connects, overlapped,
                     cancelCall, cancels, venueOrders, running, inHand>>,
         queue' \in Seq(BusEvent), \A k \in 1 .. Len(queue') : Expected(queue'[k], Answered'),
         Booked(o)', AtVenue(o)'
  PROVE  IInv'
<1>1. TypeOK'
  <2>1. submitCall' \in [Order -> {"notCalled", "calling", "returned", "raised", "refused"}]
    BY DEF IInv, TypeOK
  <2>2. orders' \in [Order -> OrderState \cup {Unknown}]
    BY DEF IInv, TypeOK
  <2> QED
    BY <2>1, <2>2, Zenon DEF IInv, TypeOK
<1>2. SessionInv'
  BY DEF IInv, SessionInv
<1>3. CallInv'
  <2> SUFFICES ASSUME NEW p \in Order, p # o
               PROVE  Booked(p)' /\ AtVenue(p)'
    BY DEF CallInv
  <2>1. submitCall'[p] = submitCall[p] /\ orders'[p] = orders[p] /\ Booked(p) /\ AtVenue(p)
    BY DEF IInv, TypeOK, CallInv
  <2>2. Complete(p)' <=> Complete(p)
    BY DEF Complete, Native, ContractOf
  <2> QED
    BY <2>1, <2>2 DEF Booked, AtVenue
<1>4. Answered \subseteq Answered'
  BY DEF IInv, TypeOK, Answered
<1>5. EventInv'
  BY <1>4 DEF IInv, EventInv, Expected
<1> QED
  BY <1>1, <1>2, <1>3, <1>5 DEF IInv

LEMMA SubmitCalls_Inv ==
  ASSUME IInv, NEW o \in Order, SubmitCalls(o) \/ SubmitRefused(o)
  PROVE  IInv'
<1>1. UNCHANGED <<adapter, request, client, up, connecting, connects, overlapped,
                  cancelCall, cancels, venueOrders, running, queue, inHand>>
  BY DEF SubmitCalls, SubmitRefused, sessionVars, busVars
<1>2. PICK st \in {NewOrder, AfterFailedSubmit(NewOrder)}, c \in {"calling", "refused"} :
        /\ submitCall' = [submitCall EXCEPT ![o] = c]
        /\ orders' = [orders EXCEPT ![o] = st]
        /\ c = "calling" => st.status = "PENDING" /\ Translatable(adapter, request[o])
        /\ c = "refused" => st.status = "REJECTED"
  BY Lifecycle DEF SubmitCalls, SubmitRefused
<1>3. st \in OrderState
  BY Lifecycle
<1>4. submitCall[o] = "notCalled"
  BY DEF SubmitCalls, SubmitRefused
<1>5. submitCall'[o] = c /\ orders'[o] = st
  BY <1>2 DEF IInv, TypeOK
<1>6. Booked(o)'
  BY <1>2, <1>3, <1>5 DEF Booked
<1>7. AtVenue(o)'
  BY <1>1, <1>2, <1>4, <1>5 DEF AtVenue, IInv, CallInv
<1>8. queue' \in Seq(BusEvent) /\ \A k \in 1 .. Len(queue') : Expected(queue'[k], Answered')
  BY <1>1, <1>2, <1>4 DEF IInv, TypeOK, EventInv, Expected, Answered
<1> QED
  BY <1>1, <1>2, <1>3, <1>4, <1>6, <1>7, <1>8, CallMoves

LEMMA SubmitFails_Inv ==
  ASSUME IInv, NEW o \in Order, SubmitFails(o)
  PROVE  IInv'
<1>1. UNCHANGED <<adapter, request, client, up, connecting, connects, overlapped,
                  cancelCall, cancels, venueOrders, running, queue, inHand>>
  BY DEF SubmitFails, sessionVars, busVars
<1>2. submitCall[o] = "calling" /\ Booked(o) /\ AtVenue(o)
  BY DEF SubmitFails, IInv, CallInv
<1> DEFINE st == AfterFailedSubmit(orders[o])
<1>3. st \in OrderState /\ st.status = "REJECTED"
  BY <1>2, Lifecycle DEF Booked
<1>4. submitCall' = [submitCall EXCEPT ![o] = "raised"] /\ orders' = [orders EXCEPT ![o] = st]
  BY DEF SubmitFails
<1>5. PICK new \in OrderState : new = st
  BY <1>3
<1> HIDE DEF st
<1>6. submitCall'[o] = "raised" /\ orders'[o] = new
  BY <1>4, <1>5 DEF IInv, TypeOK
<1>7. Booked(o)'
  BY <1>3, <1>5, <1>6 DEF Booked
<1>8. AtVenue(o)'
  <2>1. Complete(o)' <=> Complete(o)
    BY <1>1 DEF Complete, Native, ContractOf
  <2> QED
    BY <1>1, <1>2, <1>6, <2>1 DEF AtVenue
<1>9. queue' \in Seq(BusEvent) /\ \A k \in 1 .. Len(queue') : Expected(queue'[k], Answered')
  BY <1>1, <1>2, <1>4 DEF IInv, TypeOK, EventInv, Expected, Answered
<1> QED
  BY <1>1, <1>2, <1>4, <1>5, <1>7, <1>8, <1>9, CallMoves

LEMMA SubmitAnswered_Inv ==
  ASSUME IInv, NEW o \in Order, SubmitAnswered(o)
  PROVE  IInv'
<1>1. UNCHANGED <<adapter, request, client, up, connecting, connects, overlapped,
                  cancelCall, cancels, venueOrders, running, inHand>>
  BY DEF SubmitAnswered, sessionVars
<1>2. submitCall[o] = "calling" /\ Booked(o) /\ AtVenue(o)
  BY DEF SubmitAnswered, IInv, CallInv
<1> DEFINE st == AfterSubmit(orders[o])
           es == <<Event("OrderAccepted", o), Event("OrderSubmitted", o)>>
<1>3. st \in OrderState /\ st.status = "SUBMITTED"
  BY <1>2, Lifecycle DEF Booked
<1>4. submitCall' = [submitCall EXCEPT ![o] = "returned"] /\ orders' = [orders EXCEPT ![o] = st]
  BY DEF SubmitAnswered
<1>5. PICK new \in OrderState : new = st
  BY <1>3
<1>6. queue' = queue \o es /\ queue \in Seq(BusEvent)
  BY DEF SubmitAnswered, IInv, TypeOK
<1>7. es \in Seq(BusEvent) /\ Len(es) = 2
      /\ \A k \in 1 .. 2 : es[k].id = o /\ es[k].kind # "OrderCancelled"
  BY DEF Event, BusEvent, AnyId
<1> HIDE DEF st, es
<1>8. submitCall'[o] = "returned" /\ orders'[o] = new
  BY <1>4, <1>5 DEF IInv, TypeOK
<1>9. Booked(o)'
  BY <1>3, <1>5, <1>8 DEF Booked
<1>10. AtVenue(o)'
  <2>1. Complete(o)' <=> Complete(o)
    BY <1>1 DEF Complete, Native, ContractOf
  <2>2. venueOrders[o] # "none" \/ adapter = "ibkr"
    BY DEF SubmitAnswered
  <2> QED
    BY <1>1, <1>2, <1>8, <2>1, <2>2 DEF AtVenue
<1>11. queue' \in Seq(BusEvent)
  BY <1>6, <1>7, ConcatProperties
<1>12. \A k \in 1 .. Len(queue') : Expected(queue'[k], Answered')
  <2>1. /\ Len(queue) \in Nat /\ Len(queue') = Len(queue) + 2
        /\ \A k \in 1 .. Len(queue) : queue'[k] = queue[k]
        /\ \A k \in Len(queue) + 1 .. Len(queue) + 2 : queue'[k] = es[k - Len(queue)]
    BY <1>6, <1>7, ConcatProperties, LenProperties
  <2>2. \A k \in 1 .. Len(queue) : Expected(queue[k], Answered')
    BY <1>1, <1>2, <1>4 DEF IInv, TypeOK, EventInv, Expected, Answered
  <2>3. \A k \in 1 .. 2 : Expected(es[k], Answered')
    BY <1>7, <1>8 DEF Expected, Answered
  <2>4. ASSUME NEW k \in 1 .. Len(queue'), k > Len(queue)
        PROVE  Expected(queue'[k], Answered')
    <3>1. k - Len(queue) \in 1 .. 2 /\ queue'[k] = es[k - Len(queue)]
      BY <2>1, <2>4
    <3> QED
      BY <2>3, <3>1
  <2> QED
    BY <2>1, <2>2, <2>4
<1> QED
  BY <1>1, <1>2, <1>4, <1>5, <1>9, <1>10, <1>11, <1>12, CallMoves

LEMMA TakeEvent_Inv ==
  ASSUME IInv, TakeEvent
  PROVE  IInv'
<1>1. UNCHANGED <<adapter, request, client, up, connecting, connects, overlapped, orders,
                  submitCall, cancelCall, cancels, venueOrders, running>>
  BY DEF TakeEvent, sessionVars, callVars
<1>2. queue \in Seq(BusEvent) /\ queue # <<>> /\ inHand' = Head(queue) /\ queue' = Tail(queue)
  BY DEF TakeEvent, IInv, TypeOK
<1>3. /\ Len(queue) \in Nat \ {0} /\ Tail(queue) \in Seq(BusEvent) /\ Len(Tail(queue)) = Len(queue) - 1
      /\ \A k \in 1 .. Len(queue) - 1 : Tail(queue)[k] = queue[k + 1]
      /\ Head(queue) = queue[1] /\ queue[1] \in BusEvent
  BY <1>2, HeadTailProperties, EmptySeq, LenProperties, ElementOfSeq
<1>4. CallInv' /\ Answered' = Answered
  BY <1>1, SameCall DEF IInv
<1>5. TypeOK'
  BY <1>1, <1>2, <1>3, Zenon DEF IInv, TypeOK
<1>6. EventInv'
  <2>1. Expected(inHand', Answered)
    BY <1>2, <1>3 DEF IInv, EventInv
  <2>2. \A k \in 1 .. Len(queue') : Expected(queue'[k], Answered)
    BY <1>2, <1>3 DEF IInv, EventInv
  <2> QED
    BY <1>4, <2>1, <2>2 DEF EventInv
<1>7. SessionInv'
  BY <1>1 DEF IInv, SessionInv
<1> QED
  BY <1>4, <1>5, <1>6, <1>7 DEF IInv

\* An acknowledgement arrives for an order that is SUBMITTED or ACCEPTED.
LEMMA Accepted_Moves ==
  ASSUME IInv, OnOrderAccepted
  PROVE  /\ inHand.id \in Order /\ submitCall[inHand.id] = "returned"
         /\ orders[inHand.id] \in OrderState
         /\ orders[inHand.id].status \in {"SUBMITTED", "ACCEPTED"}
         /\ orders' = [orders EXCEPT ![inHand.id] = AfterAccepted(@)]
<1>1. inHand.id \in Order /\ submitCall[inHand.id] = "returned"
  BY DEF OnOrderAccepted, IInv, EventInv, Expected, Answered
<1>2. /\ orders[inHand.id] \in OrderState
      /\ orders[inHand.id].status \in {"SUBMITTED", "ACCEPTED"}
  BY <1>1 DEF IInv, CallInv, Booked
<1>3. orders' = [orders EXCEPT ![inHand.id] = AfterAccepted(@)]
  BY <1>1 DEF OnOrderAccepted, IInv, TypeOK
<1> QED
  BY <1>1, <1>2, <1>3

LEMMA OnOrderAccepted_Inv ==
  ASSUME IInv, OnOrderAccepted
  PROVE  IInv'
<1>1. UNCHANGED <<adapter, request, client, up, connecting, connects, overlapped,
                  submitCall, cancelCall, cancels, venueOrders, running, queue>> /\ inHand' = Nothing
  BY DEF OnOrderAccepted, sessionVars, callVars
<1>2. PICK o \in Order : o = inHand.id
  BY Accepted_Moves
<1>3. /\ submitCall[o] = "returned" /\ orders[o] \in OrderState
      /\ orders[o].status \in {"SUBMITTED", "ACCEPTED"}
      /\ orders' = [orders EXCEPT ![o] = AfterAccepted(orders[o])]
  BY <1>2, Accepted_Moves
<1>4. PICK new \in OrderState : new = AfterAccepted(orders[o]) /\ new.status = "ACCEPTED"
  BY <1>3, Lifecycle
<1>5. orders' \in [Order -> OrderState \cup {Unknown}] /\ orders'[o] = new
      /\ \A p \in Order : p # o => orders'[p] = orders[p]
  BY <1>3, <1>4 DEF IInv, TypeOK
<1>6. TypeOK'
  BY <1>1, <1>5, Zenon DEF IInv, TypeOK
<1>7. CallInv'
  <2>1. \A p \in Order : Complete(p)' <=> Complete(p)
    BY <1>1 DEF Complete, Native, ContractOf
  <2>2. \A p \in Order : AtVenue(p)'
    BY <1>1, <2>1 DEF IInv, CallInv, AtVenue
  <2>3. \A p \in Order : Booked(p)'
    BY <1>1, <1>3, <1>4, <1>5 DEF IInv, CallInv, Booked
  <2> QED
    BY <2>2, <2>3 DEF CallInv
<1>8. SessionInv' /\ EventInv'
  BY <1>1 DEF IInv, SessionInv, EventInv, Answered
<1> QED
  BY <1>6, <1>7, <1>8 DEF IInv

\* A cancellation is for no order of the OMS.
LEMMA Cancelled_Ignored ==
  ASSUME IInv, OnOrderCancelled
  PROVE  UNCHANGED orders
<1>1. inHand.id \notin Order
  BY DEF OnOrderCancelled, IInv, EventInv, Expected
<1> QED
  BY <1>1 DEF OnOrderCancelled, IInv, TypeOK

LEMMA Ignored_Inv ==
  ASSUME IInv, OnOrderCancelled \/ NotForOMS \/ StopBus
  PROVE  IInv'
<1>1. UNCHANGED <<adapter, request, client, up, connecting, connects, overlapped, orders,
                  submitCall, cancelCall, cancels, venueOrders, queue>>
  BY Cancelled_Ignored DEF OnOrderCancelled, NotForOMS, StopBus, sessionVars, callVars
<1>2. running' \in BOOLEAN
  BY Zenon DEF OnOrderCancelled, NotForOMS, StopBus, IInv, TypeOK
<1>3. inHand' \in {inHand, Nothing}
  BY DEF OnOrderCancelled, NotForOMS, StopBus
<1>4. TypeOK'
  <2>1. inHand' \in BusEvent \cup {Nothing}
    BY <1>3 DEF IInv, TypeOK
  <2> QED
    BY <1>1, <1>2, <2>1, Zenon DEF IInv, TypeOK
<1>5. SessionInv' /\ EventInv'
  BY <1>1, <1>3 DEF IInv, SessionInv, EventInv, Answered
<1>6. CallInv'
  BY <1>1, SameCall DEF IInv
<1> QED
  BY <1>4, <1>5, <1>6 DEF IInv

LEMMA InitInv == Init => IInv
<1> SUFFICES ASSUME Init PROVE IInv
  OBVIOUS
<1>1. request \in [Order -> OrderRequest]
  <2>1. \A o \in Order : Requested[adapter][o] \subseteq OrderRequest
    BY RequestAssumption DEF Init
  <2> QED
    BY <2>1 DEF Init
<1>2. TypeOK
  <2>1. connects \in 0 .. MaxConnects /\ cancels \in [Order -> 0 .. MaxCancels]
    BY BoundAssumption DEF Init
  <2>2. queue \in Seq(BusEvent)
    BY EmptySeq DEF Init
  <2> QED
    BY <1>1, <2>1, <2>2 DEF Init, TypeOK
<1>3. SessionInv
  BY DEF Init, SessionInv
<1>4. CallInv
  BY DEF Init, CallInv, Booked, AtVenue
<1>5. EventInv
  BY DEF Init, EventInv
<1> QED
  BY <1>2, <1>3, <1>4, <1>5 DEF IInv

LEMMA StutterInv == IInv /\ UNCHANGED vars => IInv'
<1> SUFFICES ASSUME IInv, UNCHANGED vars PROVE IInv'
  OBVIOUS
<1>1. UNCHANGED <<adapter, request, client, up, connecting, connects, overlapped, orders,
                  submitCall, cancelCall, cancels, venueOrders, running, queue, inHand>>
  BY DEF vars, sessionVars, orderVars, callVars, busVars
<1>2. TypeOK' /\ SessionInv' /\ EventInv'
  BY <1>1 DEF IInv, TypeOK, SessionInv, EventInv, Answered
<1>3. CallInv'
  BY <1>1, SameCall DEF IInv
<1> QED
  BY <1>2, <1>3 DEF IInv

LEMMA NextInv == IInv /\ [Next]_vars => IInv'
<1> SUFFICES ASSUME IInv, [Next]_vars PROVE IInv'
  OBVIOUS
<1>1. CASE \E o \in Order : Takes(o) \/ Executes(o) \/ Cancels(o) \/ Ends(o)
  BY <1>1, Exchange_Inv
<1>2. CASE \E o \in Order : SubmitCalls(o) \/ SubmitRefused(o)
  BY <1>2, SubmitCalls_Inv
<1>3. CASE \E o \in Order : CancelCalls(o) \/ CancelAnswered(o) \/ CancelFails(o)
  BY <1>3, Cancel_Inv
<1>4. CASE \E o \in Order : SubmitAnswered(o)
  BY <1>4, SubmitAnswered_Inv
<1>5. CASE \E o \in Order : SubmitFails(o)
  BY <1>5, SubmitFails_Inv
<1>6. CASE ConnectCalls \/ ConnectReturns \/ ConnectFails \/ Disconnect \/ Drops
  BY <1>6, Session_Inv
<1>7. CASE TakeEvent
  BY <1>7, TakeEvent_Inv
<1>8. CASE OnOrderAccepted
  BY <1>8, OnOrderAccepted_Inv
<1>9. CASE OnOrderCancelled \/ NotForOMS \/ StopBus
  BY <1>9, Ignored_Inv
<1>10. CASE UNCHANGED vars
  BY <1>10, StutterInv
<1> QED
  BY <1>1, <1>2, <1>3, <1>4, <1>5, <1>6, <1>7, <1>8, <1>9, <1>10, Zenon DEF Next, Answer, Dispatch

THEOREM Invariance == Spec => []IInv
<1> QED
  BY InitInv, NextInv, PTL DEF Spec

-------------------------------------------------------------------------------
(* Theorems *)

\* Every call and event leaves the OMS, the adapter and the bus well formed.
THEOREM TypeCorrect == Spec => []TypeOK
<1>1. IInv => TypeOK
  BY DEF IInv
<1> QED
  BY <1>1, Invariance, PTL

\* An order the OMS shows as working is at the exchange at the prices asked for and for
\* no more than the units asked for, with the time in force kept or lost as TermsKept
\* says, or was sent to Interactive Brokers: for any orders and requests.
THEOREM WorkingCorrect == Spec => []WorkingIsAtVenue
<1>1. ASSUME IInv, NEW o \in Order, orders[o] # Unknown, orders[o].status \in Cancellable
      PROVE  IF venueOrders[o] = "none" THEN adapter = "ibkr" ELSE TermsKept(o)
  <2>1. submitCall[o] = "returned"
    BY <1>1 DEF IInv, CallInv, Booked, Cancellable
  <2>2. AtVenue(o) /\ TypeOK
    BY <1>1 DEF IInv, CallInv
  <2> QED
    BY <2>1, <2>2, TakenKeepsTerms DEF AtVenue
<1>2. IInv => WorkingIsAtVenue
  BY <1>1 DEF WorkingIsAtVenue
<1> QED
  BY <1>2, Invariance, PTL

\* An adapter that says it is connected serves requests, for any number of
\* connect() calls that do not overlap.
THEOREM ConnectedCorrect == Spec => []ConnectedIsServed
<1>1. IInv => ConnectedIsServed
  BY DEF IInv, TypeOK, SessionInv, ConnectedIsServed, IsConnected, Served, Adapter
<1> QED
  BY <1>1, Invariance, PTL

\* The OMS never learns of the end of a live order: no fill, cancellation, expiry
\* or late refusal is ever seen in its books, whatever the exchange did.
THEOREM EndsUnseen == Spec => []NeverEnds
<1>1. IInv => NeverEnds
  BY DEF IInv, CallInv, Booked, NeverEnds
<1> QED
  BY <1>1, Invariance, PTL

\* What a step may do to the status of an order.
LEMMA StatusStep ==
  ASSUME IInv, [Next]_vars, NEW o \in Order, orders[o] # Unknown,
         orders'[o].status # orders[o].status
  PROVE  IsValidTransition(orders[o].status, orders'[o].status)
<1>1. orders \in [Order -> OrderState \cup {Unknown}] /\ Booked(o)
  BY DEF IInv, TypeOK, CallInv
<1>2. CASE \E p \in Order : SubmitCalls(p) \/ SubmitRefused(p)
  <2>1. PICK p \in Order : SubmitCalls(p) \/ SubmitRefused(p)
    BY <1>2
  <2>2. p # o
    BY <1>1, <2>1 DEF SubmitCalls, SubmitRefused, Booked
  <2> QED
    BY <1>1, <2>1, <2>2 DEF SubmitCalls, SubmitRefused
<1>3. CASE \E p \in Order : SubmitAnswered(p)
  <2>1. PICK p \in Order : SubmitAnswered(p)
    BY <1>3
  <2>2. p = o
    BY <1>1, <2>1 DEF SubmitAnswered
  <2>3. orders[o] \in OrderState /\ orders[o].status = "PENDING"
    BY <1>1, <2>1, <2>2 DEF SubmitAnswered, Booked
  <2>4. orders'[o] = AfterSubmit(orders[o])
    BY <1>1, <2>1, <2>2 DEF SubmitAnswered
  <2> QED
    BY <2>3, <2>4, Lifecycle, Moves
<1>4. CASE \E p \in Order : SubmitFails(p)
  <2>1. PICK p \in Order : SubmitFails(p)
    BY <1>4
  <2>2. p = o
    BY <1>1, <2>1 DEF SubmitFails
  <2>3. orders[o] \in OrderState /\ orders[o].status = "PENDING"
    BY <1>1, <2>1, <2>2 DEF SubmitFails, Booked
  <2>4. orders'[o] = AfterFailedSubmit(orders[o])
    BY <1>1, <2>1, <2>2 DEF SubmitFails
  <2> QED
    BY <2>3, <2>4, Lifecycle, Moves
<1>5. CASE OnOrderAccepted
  <2>1. inHand.id = o /\ orders'[o] = AfterAccepted(orders[o])
    BY <1>1, <1>5, Accepted_Moves
  <2>2. orders[o] \in OrderState /\ orders[o].status \in {"SUBMITTED", "ACCEPTED"}
    BY <1>5, <2>1, Accepted_Moves
  <2> QED
    BY <2>1, <2>2, Lifecycle, Moves
<1>6. CASE OnOrderCancelled
  BY <1>6, Cancelled_Ignored
<1>7. CASE \E p \in Order : \/ Takes(p) \/ Executes(p) \/ Cancels(p) \/ Ends(p)
                           \/ CancelCalls(p) \/ CancelAnswered(p) \/ CancelFails(p)
  BY <1>7 DEF Takes, Executes, Cancels, Ends, ExchangeActs, CancelCalls, CancelAnswered, CancelFails
<1>8. CASE \/ ConnectCalls \/ ConnectReturns \/ ConnectFails \/ Disconnect \/ Drops
           \/ TakeEvent \/ NotForOMS \/ StopBus \/ UNCHANGED vars
  BY <1>8 DEF ConnectCalls, ConnectReturns, ConnectFails, Disconnect, Drops,
              TakeEvent, NotForOMS, StopBus, vars, orderVars
<1> QED
  BY <1>2, <1>3, <1>4, <1>5, <1>6, <1>7, <1>8, Zenon DEF Next, Answer, Dispatch

\* The status of a live order follows the transition table, for any interleaving
\* of calls, answers and events.
THEOREM StatusCorrect == Spec => StatusFollowsTable
<1>1. IInv /\ [Next]_vars =>
        [\A o \in Order :
           orders[o] # Unknown /\ orders'[o].status # orders[o].status =>
             IsValidTransition(orders[o].status, orders'[o].status)]_orders
  BY StatusStep
<1> QED
  BY <1>1, Invariance, PTL DEF Spec, StatusFollowsTable

LEMMA TerminalStatuses == Terminal = {"FILLED", "CANCELLED", "REJECTED", "EXPIRED"}
BY DEF Terminal, OrderStatus, IsValidTransition, ValidTransitions

\* Only the exchange ends an order, and each adapter polls an open order as one
\* that can still move.
LEMMA OpenIsPolledOpen ==
  ASSUME TypeOK, NEW o \in Order, venueOrders[o] \in {"none", "open"}
  PROVE  Polled(o) \cap Terminal = {}
<1> SUFFICES ASSUME NEW n \in NativeStatuses(o)
             PROVE  MapStatus(adapter, n) \notin {"FILLED", "CANCELLED", "REJECTED", "EXPIRED"}
  BY TerminalStatuses DEF Polled
<1>1. CASE adapter = "ccxt"
  BY <1>1 DEF NativeStatuses, MapStatus, CcxtStatusMap
<1>2. CASE adapter = "ibkr"
  BY <1>2 DEF NativeStatuses, MapStatus, IbStatusMap
<1>3. CASE adapter = "tastytrade"
  BY <1>3 DEF NativeStatuses, MapStatus, TtStatusMap
<1> QED
  BY <1>1, <1>2, <1>3 DEF TypeOK, Adapter

LEMMA VenueStep ==
  ASSUME IInv, [Next]_vars, NEW o \in Order, venueOrders'[o] # venueOrders[o]
  PROVE  venueOrders[o] \in {"none", "open"}
<1>1. venueOrders \in [Order -> {"none", "open", "filled", "cancelled", "ended"}]
  BY DEF IInv, TypeOK
<1>2. CASE \E p \in Order : Takes(p) \/ Executes(p) \/ Cancels(p) \/ Ends(p)
  BY <1>1, <1>2 DEF Takes, Executes, Cancels, Ends, ExchangeActs
<1>3. CASE \E p \in Order : \/ SubmitCalls(p) \/ SubmitRefused(p) \/ SubmitAnswered(p)
                           \/ SubmitFails(p) \/ CancelCalls(p) \/ CancelAnswered(p) \/ CancelFails(p)
  BY <1>3 DEF SubmitCalls, SubmitRefused, SubmitAnswered, SubmitFails, CancelCalls,
              CancelAnswered, CancelFails
<1>4. CASE \/ ConnectCalls \/ ConnectReturns \/ ConnectFails \/ Disconnect \/ Drops
           \/ Dispatch \/ StopBus \/ UNCHANGED vars
  BY <1>4 DEF ConnectCalls, ConnectReturns, ConnectFails, Disconnect, Drops, Dispatch,
              TakeEvent, OnOrderAccepted, OnOrderCancelled, NotForOMS, StopBus, vars, orderVars
<1> QED
  BY <1>2, <1>3, <1>4, Zenon DEF Next, Answer

\* A poll that shows an order ended shows its last state, on every adapter.
THEOREM PolledCorrect == Spec => PolledEndIsFinal
<1>1. ASSUME IInv, [Next]_vars, NEW o \in Order, Polled(o) \cap Terminal # {}
      PROVE  venueOrders'[o] = venueOrders[o]
  BY <1>1, VenueStep, OpenIsPolledOpen DEF IInv
<1>2. IInv /\ [Next]_vars =>
        [\A o \in Order : Polled(o) \cap Terminal # {} => venueOrders'[o] = venueOrders[o]]_venueOrders
  BY <1>1
<1> QED
  BY <1>2, Invariance, PTL DEF Spec, PolledEndIsFinal

-------------------------------------------------------------------------------
(* Sums                                                                     *)
(*                                                                          *)
(* A sum over a set is a recursive function of its subsets.  That it is an  *)
(* integer follows from there being no smallest set for which it is not.    *)

LEMMA NatBelow == \E R : IsWellFoundedOn(R, Nat) /\ \A m, n \in Nat : <<n, m>> \in R <=> n < m
<1> DEFINE R == OpToRel(<, Nat)
<1>1. IsWellFoundedOn(R, Nat)
  BY NatLessThanWellFounded
<1>2. \A m, n \in Nat : <<n, m>> \in R <=> n < m
  BY DEF OpToRel
<1> HIDE DEF R
<1> QED
  BY <1>1, <1>2, Zenon

LEMMA LeastNat ==
  ASSUME NEW T, T \subseteq Nat, T # {}
  PROVE  \E m \in T : \A n \in T : m <= n
<1>1. PICK R : IsWellFoundedOn(R, Nat) /\ \A m, n \in Nat : <<n, m>> \in R <=> n < m
  BY NatBelow
<1>2. \E m \in T : \A n \in T : ~ (<<n, m>> \in R)
  BY <1>1, WFMin
<1>3. PICK m \in T : \A n \in T : ~ (<<n, m>> \in R)
  BY <1>2
<1>4. \A n \in T : ~ (n < m)
  BY <1>1, <1>3, Zenon
<1>5. \A n \in T : m <= n
  BY <1>4
<1> QED
  BY <1>5


\* The sum over a set, as a function of its subsets.
Pick(s) == CHOOSE x \in s : TRUE
SumOf(q, f, s) == IF s = {} THEN 0 ELSE q[Pick(s)] + f[s \ {Pick(s)}]
Sums(q, S) == CHOOSE f : f = [s \in SUBSET S |-> SumOf(q, f, s)]

\* The subsets of at most n elements.
UpTo(S, n) == {s \in SUBSET S : Cardinality(s) <= n}

LEMMA LessOne ==
  ASSUME NEW S, IsFiniteSet(S), NEW s \in SUBSET S, s # {}
  PROVE  /\ Pick(s) \in S /\ s \ {Pick(s)} \in SUBSET S
         /\ Cardinality(s) \in Nat /\ Cardinality(s \ {Pick(s)}) = Cardinality(s) - 1
         /\ Cardinality(s) - 1 \in Nat
<1>1. Pick(s) \in s
  BY DEF Pick
<1>2. IsFiniteSet(s)
  BY FS_Subset
<1>3. Cardinality(s \ {Pick(s)}) = Cardinality(s) - 1
  BY <1>1, <1>2, FS_RemoveElement
<1>4. IsFiniteSet(s \ {Pick(s)})
  BY <1>1, <1>2, FS_RemoveElement
<1>5. Cardinality(s) \in Nat /\ Cardinality(s \ {Pick(s)}) \in Nat
  BY <1>2, <1>4, FS_CardinalityType
<1> QED
  BY <1>1, <1>3, <1>5

LEMMA SumsUpTo ==
  ASSUME NEW S, IsFiniteSet(S), NEW q, \A x \in S : q[x] \in Int, NEW n \in Nat
  PROVE  \E f \in [UpTo(S, n) -> Int] : \A s \in UpTo(S, n) : f[s] = SumOf(q, f, s)
<1> DEFINE Have(m) == \E f \in [UpTo(S, m) -> Int] : \A s \in UpTo(S, m) : f[s] = SumOf(q, f, s)
           Lacking == {m \in Nat : ~Have(m)}
<1>1. Have(0)
  <2>1. \A s \in UpTo(S, 0) : s = {}
    <3> SUFFICES ASSUME NEW s \in UpTo(S, 0), s # {} PROVE FALSE
      OBVIOUS
    <3>1. s \in SUBSET S /\ Cardinality(s) <= 0
      BY DEF UpTo
    <3>2. Cardinality(s) \in Nat /\ Cardinality(s) - 1 \in Nat
      BY <3>1, LessOne
    <3> QED
      BY <3>1, <3>2
  <2> DEFINE f == [s \in UpTo(S, 0) |-> 0]
  <2>2. f \in [UpTo(S, 0) -> Int] /\ \A s \in UpTo(S, 0) : f[s] = SumOf(q, f, s)
    BY <2>1 DEF SumOf
  <2> QED
    BY <2>2
<1>2. ASSUME NEW m \in Nat, Have(m)
      PROVE  Have(m + 1)
  <2>1. PICK f \in [UpTo(S, m) -> Int] : \A s \in UpTo(S, m) : f[s] = SumOf(q, f, s)
    BY <1>2
  <2> DEFINE g == [s \in UpTo(S, m + 1) |-> SumOf(q, f, s)]
  <2>2. ASSUME NEW s \in UpTo(S, m + 1), s # {}
        PROVE  s \ {Pick(s)} \in UpTo(S, m) /\ s \ {Pick(s)} \in UpTo(S, m + 1) /\ Pick(s) \in S
    <3>1. s \in SUBSET S /\ Cardinality(s) <= m + 1
      BY DEF UpTo
    <3>2. /\ Pick(s) \in S /\ s \ {Pick(s)} \in SUBSET S
          /\ Cardinality(s) \in Nat /\ Cardinality(s \ {Pick(s)}) = Cardinality(s) - 1
      BY <2>2, <3>1, LessOne
    <3>3. Cardinality(s \ {Pick(s)}) <= m /\ Cardinality(s \ {Pick(s)}) <= m + 1
      BY <3>1, <3>2
    <3> QED
      BY <3>2, <3>3 DEF UpTo
  <2>3. g \in [UpTo(S, m + 1) -> Int]
    <3> SUFFICES ASSUME NEW s \in UpTo(S, m + 1) PROVE SumOf(q, f, s) \in Int
      OBVIOUS
    <3>1. CASE s = {}
      BY <3>1 DEF SumOf
    <3>2. CASE s # {}
      <4>1. f[s \ {Pick(s)}] \in Int /\ q[Pick(s)] \in Int
        BY <2>2, <3>2
      <4> QED
        BY <3>2, <4>1 DEF SumOf
    <3> QED
      BY <3>1, <3>2
  <2>4. ASSUME NEW s \in UpTo(S, m + 1)
        PROVE  g[s] = SumOf(q, g, s)
    <3>1. CASE s = {}
      BY <3>1 DEF SumOf
    <3>2. CASE s # {}
      <4>1. PICK r : r = s \ {Pick(s)}
        OBVIOUS
      <4>2. r \in UpTo(S, m) /\ r \in UpTo(S, m + 1)
        BY <2>2, <3>2, <4>1
      <4>3. g[r] = f[r]
        BY <2>1, <4>2
      <4>4. g[s] = q[Pick(s)] + f[r]
        BY <3>2, <4>1 DEF SumOf
      <4>5. SumOf(q, g, s) = q[Pick(s)] + g[r]
        BY <3>2, <4>1 DEF SumOf
      <4> QED
        BY <4>3, <4>4, <4>5
    <3> QED
      BY <3>1, <3>2
  <2> HIDE DEF g
  <2> QED
    BY <2>3, <2>4
<1> HIDE DEF Have
<1>3. CASE Lacking = {}
  BY <1>3 DEF Have
<1>4. CASE Lacking # {}
  <2>1. PICK m \in Lacking : \A k \in Lacking : m <= k
    <3>1. Lacking \subseteq Nat
      OBVIOUS
    <3> HIDE DEF Lacking
    <3> QED
      BY <1>4, <3>1, LeastNat
  <2>2. m # 0 /\ m \in Nat
    BY <1>1
  <2>3. m - 1 \in Nat /\ m - 1 \notin Lacking /\ (m - 1) + 1 = m
    BY <2>1, <2>2
  <2>4. Have(m - 1)
    BY <2>3
  <2>5. Have((m - 1) + 1)
    BY <1>2, <2>3, <2>4
  <2> QED
    BY <2>3, <2>5
<1> QED
  BY <1>3, <1>4

\* The sum of integers is one.
LEMMA SumIsInt ==
  ASSUME NEW S, IsFiniteSet(S), NEW q, \A x \in S : q[x] \in Int
  PROVE  Sums(q, S)[S] \in Int /\ (S = {} => Sums(q, S)[S] = 0)
<1>1. PICK n \in Nat : n = Cardinality(S)
  BY FS_CardinalityType
<1>2. UpTo(S, n) = SUBSET S
  BY <1>1, FS_Subset DEF UpTo
<1>3. PICK f \in [SUBSET S -> Int] : \A s \in SUBSET S : f[s] = SumOf(q, f, s)
  <2>1. \E f \in [UpTo(S, n) -> Int] : \A s \in UpTo(S, n) : f[s] = SumOf(q, f, s)
    BY SumsUpTo
  <2> QED
    BY <1>2, <2>1
<1>4. f = [s \in SUBSET S |-> SumOf(q, f, s)]
  BY <1>3
<1>5. PICK g : g = Sums(q, S)
  OBVIOUS
<1>6. g = [s \in SUBSET S |-> SumOf(q, g, s)]
  BY <1>4, <1>5 DEF Sums
<1>7. \A s \in SUBSET S : g[s] = SumOf(q, g, s)
  BY <1>6
<1> DEFINE Bad == {k \in Nat : \E s \in SUBSET S : Cardinality(s) = k /\ g[s] \notin Int}
<1>8. CASE Bad = {}
  <2>1. g[S] \in Int
    BY <1>1, <1>8
  <2>2. S = {} => g[S] = 0
    BY <1>7 DEF SumOf
  <2> QED
    BY <1>5, <2>1, <2>2
<1>9. CASE Bad # {}
  <2>1. PICK k \in Bad : \A l \in Bad : k <= l
    <3>1. Bad \subseteq Nat
      OBVIOUS
    <3> HIDE DEF Bad
    <3> QED
      BY <1>9, <3>1, LeastNat
  <2>2. PICK s \in SUBSET S : Cardinality(s) = k /\ g[s] \notin Int
    OBVIOUS
  <2>3. s # {}
    <3> SUFFICES ASSUME s = {} PROVE FALSE
      OBVIOUS
    <3>1. g[s] = SumOf(q, g, s)
      BY <1>7
    <3>2. SumOf(q, g, s) = 0
      BY DEF SumOf
    <3> QED
      BY <2>2, <3>1, <3>2
  <2>4. /\ Pick(s) \in S /\ s \ {Pick(s)} \in SUBSET S
        /\ k \in Nat /\ Cardinality(s \ {Pick(s)}) = k - 1 /\ k - 1 \in Nat
    BY <2>2, <2>3, LessOne
  <2>5. k - 1 \notin Bad
    BY <2>1, <2>4
  <2>6. g[s \ {Pick(s)}] \in Int
    BY <2>4, <2>5
  <2>7. g[s] = q[Pick(s)] + g[s \ {Pick(s)}]
    BY <1>7, <2>3 DEF SumOf
  <2> QED
    BY <2>2, <2>4, <2>6, <2>7
<1> QED
  BY <1>8, <1>9

-------------------------------------------------------------------------------
(* Positions *)

Filled == {o \in Order : venueOrders[o] = "filled"}

\* Orders are filled one at a time.
LEMMA FilledStep ==
  ASSUME IInv, [Next]_vars, IsFiniteSet(Filled)
  PROVE  IsFiniteSet(Filled')
<1>1. venueOrders \in [Order -> {"none", "open", "filled", "cancelled", "ended"}]
  BY DEF IInv, TypeOK
<1>2. CASE \E p \in Order : Takes(p) \/ Executes(p) \/ Cancels(p) \/ Ends(p)
  <2>1. PICK p \in Order : Takes(p) \/ Executes(p) \/ Cancels(p) \/ Ends(p)
    BY <1>2
  <2>2. \A o \in Order : o # p => venueOrders'[o] = venueOrders[o]
    BY <1>1, <2>1 DEF Takes, Executes, Cancels, Ends, ExchangeActs
  <2>3. Filled' \subseteq Filled \cup {p}
    BY <2>2 DEF Filled
  <2>4. IsFiniteSet(Filled \cup {p})
    BY FS_AddElement
  <2> QED
    BY <2>3, <2>4, FS_Subset
<1>3. CASE venueOrders' = venueOrders
  BY <1>3 DEF Filled
<1>4. CASE \E p \in Order : \/ SubmitCalls(p) \/ SubmitRefused(p) \/ SubmitAnswered(p)
                           \/ SubmitFails(p) \/ CancelCalls(p) \/ CancelAnswered(p) \/ CancelFails(p)
  BY <1>3, <1>4 DEF SubmitCalls, SubmitRefused, SubmitAnswered, SubmitFails, CancelCalls,
              CancelAnswered, CancelFails
<1>5. CASE \/ ConnectCalls \/ ConnectReturns \/ ConnectFails \/ Disconnect \/ Drops
           \/ Dispatch \/ StopBus \/ UNCHANGED vars
  BY <1>3, <1>5 DEF ConnectCalls, ConnectReturns, ConnectFails, Disconnect, Drops, Dispatch,
              TakeEvent, OnOrderAccepted, OnOrderCancelled, NotForOMS, StopBus, vars, orderVars
<1> QED
  BY <1>2, <1>4, <1>5, Zenon DEF Next, Answer

\* At any time finitely many orders are filled, however many there are.
LEMMA FilledFinite == Spec => []IsFiniteSet(Filled)
<1>1. Init => IsFiniteSet(Filled)
  <2> SUFFICES ASSUME Init PROVE IsFiniteSet(Filled)
    OBVIOUS
  <2>1. Filled = {}
    BY DEF Init, Filled
  <2> QED
    BY <2>1, FS_EmptySet
<1>2. IInv /\ IsFiniteSet(Filled) /\ [Next]_vars => IsFiniteSet(Filled')
  BY FilledStep
<1>3. IsFiniteSet(Filled') <=> IsFiniteSet(Filled)'
  OBVIOUS
<1> QED
  BY <1>1, <1>2, <1>3, Invariance, PTL DEF Spec

LEMMA TotalIsSum ==
  ASSUME NEW quantity, NEW c, NEW S, S = {o \in Order : venueOrders[o] = "filled" /\ ContractOf(o) = c}
  PROVE  TotalFilled(quantity, c) = Sums(quantity, S)[S]
BY DEF TotalFilled, MapThenSumSet, MapThenFoldSet, Sums, SumOf, Pick

\* What the filled orders of a contract add up to.
LEMMA NetIsInt ==
  ASSUME IInv, IsFiniteSet(Filled), NEW c
  PROVE  /\ WantedNet(c) \in Int
         /\ (\A o \in Filled : ContractOf(o) # c) => WantedNet(c) = 0
<1> DEFINE q == [o \in Order |-> Sign(request[o]) * request[o].quantity]
           S == {o \in Order : venueOrders[o] = "filled" /\ ContractOf(o) = c}
<1>1. S \subseteq Filled /\ S \subseteq Order
  BY DEF Filled
<1>2. IsFiniteSet(S)
  BY <1>1, FS_Subset
<1>3. \A o \in S : q[o] \in Int
  <2> SUFFICES ASSUME NEW o \in Order PROVE q[o] \in Int
    OBVIOUS
  <2>1. request[o] \in OrderRequest
    BY DEF IInv, TypeOK
  <2>2. request[o].quantity \in Nat
    BY <2>1 DEF OrderRequest
  <2>3. q[o] = Sign(request[o]) * request[o].quantity /\ Sign(request[o]) \in {1, -1}
    BY DEF Sign
  <2> HIDE DEF q
  <2> QED
    BY <2>2, <2>3
<1>4. (\A o \in Filled : ContractOf(o) # c) => S = {}
  BY DEF Filled
<1>5. WantedNet(c) = Sums(q, S)[S]
  BY TotalIsSum DEF WantedNet
<1>6. PICK r : r = q
  OBVIOUS
<1>7. PICK s : s = S
  OBVIOUS
<1> HIDE DEF q, S
<1>8. IsFiniteSet(s) /\ \A o \in s : r[o] \in Int
  BY <1>2, <1>3, <1>6, <1>7, Zenon
<1>9. Sums(r, s)[s] \in Int /\ (s = {} => Sums(r, s)[s] = 0)
  BY <1>8, SumIsInt
<1> QED
  BY <1>4, <1>5, <1>6, <1>7, <1>9, Zenon

\* Among the orders an exchange took, an instrument that comes back as it was sent
\* comes back from no other contract.
LEMMA OneContract ==
  ASSUME IInv, NEW o \in Order, Comparable(o), NEW p \in Filled,
         BuildInstrument(adapter, ContractOf(p)) = request[o].instrument
  PROVE  ContractOf(p) = ContractOf(o)
<1>1. /\ p \in Order /\ Translatable(adapter, request[p])
      /\ Translatable(adapter, request[o]) /\ Complete(o)
  BY DEF Filled, IInv, CallInv, AtVenue, Comparable
<1>2. PICK c : c = ContractOf(p)
  OBVIOUS
<1>3. PICK d : d = ContractOf(o)
  OBVIOUS
<1>4. BuildInstrument(adapter, c) = BuildInstrument(adapter, d)
  BY <1>2, <1>3 DEF Comparable
<1>5. c = [kind |-> c.kind, name |-> c.name, rest |-> c.rest]
      /\ d = [kind |-> d.kind, name |-> d.name, rest |-> d.rest]
  BY <1>2, <1>3 DEF ContractOf, Contract
<1>6. CASE adapter = "ccxt"
  <2>1. c.kind \in {"spot", "swap", "future"} /\ d.kind \in {"spot", "swap", "future"}
    BY <1>2, <1>3, <1>6 DEF ContractOf, Contract, CcxtMarket
  <2>2. c.kind = d.kind /\ c.name = d.name /\ c.rest = d.rest
    BY <1>4, <1>6, <2>1 DEF BuildInstrument, CcxtWritten, CcxtClass
  <2> QED
    BY <1>2, <1>3, <1>5, <2>2
<1>7. CASE adapter = "ibkr"
  <2>1. c.kind \in {"STK", "OPT", "FUT", "CASH"} /\ d.kind \in {"STK", "OPT", "FUT", "CASH"}
    BY <1>1, <1>2, <1>3, <1>7 DEF ContractOf, Contract, Translatable, IbSecType
  <2>2. c.kind = d.kind /\ c.name = d.name
    BY <1>4, <1>7, <2>1 DEF BuildInstrument, IbClass
  <2>3. request[o].instrument.symbol.written = "bare"
    BY <1>7 DEF Comparable, BuildInstrument
  <2>4. d.kind # "OPT"
    BY <1>1, <1>3, <2>3 DEF Complete
  <2>5. c.rest = d.rest
    BY <1>4, <1>7, <2>2, <2>4 DEF BuildInstrument
  <2> QED
    BY <1>2, <1>3, <1>5, <2>2, <2>5
<1>8. CASE adapter = "tastytrade"
  <2>1. c.kind = d.kind /\ c.name = d.name /\ c.rest = d.rest
    BY <1>4, <1>8 DEF BuildInstrument
  <2> QED
    BY <1>2, <1>3, <1>5, <2>1
<1> QED
  BY <1>6, <1>7, <1>8 DEF IInv, TypeOK, Adapter

LEMMA ReportedAsHeld ==
  ASSUME NEW net \in Int
  PROVE  ReportedQuantity(adapter, net) = net
BY DEF ReportedQuantity

\* The reported position of an instrument is what the filled orders asked for.
LEMMA ReportedIsWanted ==
  ASSUME IInv, IsFiniteSet(Filled), NEW o \in Order, Comparable(o),
         \A p \in Order : Native(p).quantity = request[p].quantity
  PROVE  Reported(request[o].instrument) =
           IF WantedNet(ContractOf(o)) = 0 THEN {} ELSE {WantedNet(ContractOf(o))}
<1> DEFINE i == request[o].instrument
           d == ContractOf(o)
           held == {c \in {ContractOf(p) : p \in Filled} :
                      Net(c) # 0 /\ IsPosition(adapter, c) /\ BuildInstrument(adapter, c) = i}
<1>1. Reported(i) = {ReportedQuantity(adapter, Net(c)) : c \in held}
  BY DEF Reported, Filled
<1>2. ASSUME NEW c PROVE Net(c) = WantedNet(c)
  <2>1. [p \in Order |-> Sign(request[p]) * Native(p).quantity] =
        [p \in Order |-> Sign(request[p]) * request[p].quantity]
    OBVIOUS
  <2> QED
    BY <2>1, Zenon DEF Net, WantedNet
<1>3. IsPosition(adapter, d) /\ BuildInstrument(adapter, d) = i
  BY DEF Comparable
<1>4. WantedNet(d) \in Int /\ (WantedNet(d) # 0 => \E p \in Filled : ContractOf(p) = d)
  BY NetIsInt
<1>5. \A p \in Filled : BuildInstrument(adapter, ContractOf(p)) = i => ContractOf(p) = d
  BY OneContract
<1> HIDE DEF i, d
<1>6. held = IF WantedNet(d) = 0 THEN {} ELSE {d}
  BY <1>2, <1>3, <1>4, <1>5
<1> HIDE DEF held
<1>7. WantedNet(d) # 0 => Reported(i) = {ReportedQuantity(adapter, WantedNet(d))}
  BY <1>1, <1>2, <1>6
<1>8. WantedNet(d) = 0 => Reported(i) = {}
  BY <1>1, <1>6
<1>9. ReportedQuantity(adapter, WantedNet(d)) = WantedNet(d)
  BY <1>4, ReportedAsHeld
<1>10. Reported(i) = IF WantedNet(d) = 0 THEN {} ELSE {WantedNet(d)}
  BY <1>7, <1>8, <1>9
<1> QED
  BY <1>10 DEF i, d

\* The reported positions are what was asked for, for any number of orders filled
\* in any order, long and short.
THEOREM ComparableCorrect == Spec => []PositionsComparable
<1>1. IInv /\ IsFiniteSet(Filled) => PositionsComparable
  BY ReportedIsWanted DEF PositionsComparable
<1> QED
  BY <1>1, Invariance, FilledFinite, PTL
================================================================================
