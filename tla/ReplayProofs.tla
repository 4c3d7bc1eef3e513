----------------------------- MODULE ReplayProofs -----------------------------
(***************************************************************************)
(* Proofs about the replay engine, for any data, any strategy and any      *)
(* number of orders.                                                       *)
(***************************************************************************)
EXTENDS Replay, PositionsProofs, TLAPS, SequenceTheorems, FiniteSetTheorems, WellFoundedInduction

Priced == [instrument : Instrument, qty : Quantity, price : LimitPrice \cup {NoPrice},
           after : Nat]

OrderKind == {"OrderRequested", "OrderAccepted", "OrderSubmitted"}
HighEvent == [kind : OrderKind, order : Nat] \cup [kind : {"FillEvent"}, order : Nat, price : Nat]
LowEvent == [kind : {"PositionEvent"}, instrument : Instrument, quantity : Int] \cup {SignalEvent}

Row == UNION {Rows(data) : data \in History}

\* The bars are in the order of time.
EventsInv ==
  /\ events \in Seq(Row)
  /\ \A m, n \in 1 .. Len(events) : m < n => events[m].time <= events[n].time

EngineInv ==
  /\ fed \in 0 .. Len(events) /\ now \in Nat
  /\ phase \in {"starting", "advancing", "joining", "stopping", "draining", "done"}
  /\ phase = "starting" => fed = 0
  /\ phase \in {"starting", "advancing"} => fed < Len(events)

BusInv ==
  /\ high \in Seq(HighEvent) /\ normal \in Seq({BarEvent}) /\ low \in Seq(LowEvent)
  /\ inHand \in HighEvent \cup {BarEvent} \cup LowEvent \cup {Nothing}
  /\ dispatcher = "getting" => inHand = Nothing

\* On the bus, or in the hands of the dispatcher.
InFlight(e) == (\E m \in 1 .. Len(high) : high[m] = e) \/ inHand = e

OrderInv ==
  /\ requests \in Seq(Priced) /\ DOMAIN orders = DOMAIN requests
  /\ \A e \in HighEvent : InFlight(e) => e.order \in DOMAIN requests
  /\ \A k \in DOMAIN requests : requests[k].after <= fed

\* A bar that was fed is not stamped later than the clock.
TimeInv == \A b \in 1 .. fed : events[b].time <= now

\* No bar of the instrument was fed after the first n and up to the m-th.
Silent(n, m, instrument) == \A c \in n + 1 .. m : ~BarOf(c, instrument)

LatestInv ==
  /\ DOMAIN latest \subseteq Instrument
  /\ \A i \in DOMAIN latest :
       /\ latest[i] \in Nat
       /\ \E b \in 1 .. fed : BarOf(b, i) /\ events[b].close = latest[i] /\ Silent(b, fed, i)
  /\ \A i \in Instrument \ DOMAIN latest : Silent(0, fed, i)

\* A price an order may be filled at: its own, or that of a bar fed, the last one
\* before the request or a later one, or the default when there was none.
Known(k, price) ==
  IF requests[k].price # NoPrice THEN price = requests[k].price
  ELSE \/ price = DefaultPrice /\ Silent(0, requests[k].after, requests[k].instrument)
       \/ \E b \in 1 .. fed : /\ BarOf(b, requests[k].instrument) /\ events[b].close = price
                              /\ Silent(b, requests[k].after, requests[k].instrument)

KnownInv ==
  \A e \in HighEvent : InFlight(e) /\ e.kind = "FillEvent" => Known(e.order, e.price)

Trade == [time : Nat, order : Nat, qty : Int, instrument : Instrument, price : Nat,
          commission : Int]

TradesInv ==
  /\ trades \in Seq(Trade)
  /\ \A t \in 1 .. Len(trades) : /\ trades[t].order \in DOMAIN requests
                                 /\ trades[t].instrument = requests[trades[t].order].instrument

\* Only the quantity of a position matters here.
PositionsInv == DOMAIN positions = Instrument /\ \A i \in Instrument : Shaped(positions[i])

IInv == EventsInv /\ EngineInv /\ BusInv /\ OrderInv /\ TimeInv /\ LatestInv /\ KnownInv
        /\ TradesInv /\ PositionsInv /\ PricedByFedBar

-------------------------------------------------------------------------------
LEMMA NothingIsNone ==
  /\ Nothing.kind = "Nothing" /\ BarEvent.kind = "BarEvent"
  /\ \A e \in HighEvent : e.kind \in OrderKind \cup {"FillEvent"} /\ e.order \in Nat
                          /\ (e.kind = "FillEvent" => e.price \in Nat)
  /\ \A e \in LowEvent : e.kind \in {"PositionEvent", "SignalEvent"}
                         /\ (e.kind = "PositionEvent" =>
                               e.instrument \in Instrument /\ e.quantity \in Int)
  /\ SignalEvent \in LowEvent /\ SignalEvent.kind = "SignalEvent"
  /\ Nothing \notin HighEvent \cup {BarEvent} \cup LowEvent
  /\ BarEvent \notin HighEvent \cup LowEvent
BY DEF Nothing, BarEvent, SignalEvent, HighEvent, LowEvent, OrderKind

LEMMA RowTypes ==
  ASSUME NEW row \in Row
  PROVE  row.instrument \in Instrument /\ row.time \in Nat /\ row.close \in Nat
<1>1. PICK data \in History : row \in Rows(data)
  BY DEF Row
<1>2. PICK k \in DOMAIN Instruments : \E r \in DOMAIN data[Instruments[k]] :
        row = [place |-> <<k, r>>, instrument |-> Instruments[k],
               time |-> data[Instruments[k]][r].time,
               close |-> data[Instruments[k]][r].close]
  BY <1>1 DEF Rows
<1>3. PICK r \in DOMAIN data[Instruments[k]] :
        row = [place |-> <<k, r>>, instrument |-> Instruments[k],
               time |-> data[Instruments[k]][r].time,
               close |-> data[Instruments[k]][r].close]
  BY <1>2
<1>4. Instruments[k] \in Instrument
  BY DEF Instrument, Range
<1>5. data[Instruments[k]] \in Seq([time : Nat, close : Nat])
  BY <1>4, DataAssumption
<1>6. data[Instruments[k]][r] \in [time : Nat, close : Nat]
  BY <1>3, <1>5, ElementOfSeq, LenProperties
<1> QED
  BY <1>3, <1>4, <1>6

RowAt(data, k, r) ==
  [place |-> <<k, r>>, instrument |-> Instruments[k],
   time |-> data[Instruments[k]][r].time, close |-> data[Instruments[k]][r].close]

LEMMA ImageFinite ==
  ASSUME NEW S, IsFiniteSet(S), NEW f
  PROVE  IsFiniteSet({f[x] : x \in S})
<1> DEFINE T == {f[x] : x \in S}
           g == [x \in S |-> f[x]]
<1>1. g \in Surjection(S, T)
  BY DEF Surjection
<1> QED
  BY <1>1, FS_Surjection DEF ExistsSurjection

LEMMA RowsFinite ==
  ASSUME NEW data \in History
  PROVE  IsFiniteSet(Rows(data)) /\ Rows(data) # {}
<1> DEFINE Of(k) == {RowAt(data, k, r) : r \in DOMAIN data[Instruments[k]]}
           All == {Of(k) : k \in DOMAIN Instruments}
<1>1. Rows(data) = UNION All
  BY DEF Rows, RowAt
<1>2. IsFiniteSet(DOMAIN Instruments)
  <2>1. DOMAIN Instruments = 1 .. Len(Instruments) /\ Len(Instruments) \in Nat
    BY DataAssumption, LenProperties
  <2> QED
    BY <2>1, FS_Interval
<1>3. \A k \in DOMAIN Instruments : data[Instruments[k]] \in Seq([time : Nat, close : Nat])
  BY DataAssumption DEF Instrument, Range
<1>4. \A k \in DOMAIN Instruments : IsFiniteSet(Of(k))
  <2> SUFFICES ASSUME NEW k \in DOMAIN Instruments PROVE IsFiniteSet(Of(k))
    OBVIOUS
  <2>1. IsFiniteSet(DOMAIN data[Instruments[k]])
    BY <1>3, LenProperties, FS_Interval
  <2>2. PICK f : f = [r \in DOMAIN data[Instruments[k]] |-> RowAt(data, k, r)]
    OBVIOUS
  <2>3. Of(k) = {f[r] : r \in DOMAIN data[Instruments[k]]}
    BY <2>2
  <2> HIDE DEF Of
  <2> QED
    BY <2>1, <2>3, ImageFinite
<1>5. IsFiniteSet(All)
  <2> HIDE DEF Of
  <2>1. PICK f : f = [k \in DOMAIN Instruments |-> Of(k)]
    OBVIOUS
  <2>2. All = {f[k] : k \in DOMAIN Instruments}
    BY <2>1
  <2> HIDE DEF All
  <2> QED
    BY <1>2, <2>2, ImageFinite
<1>6. IsFiniteSet(Rows(data))
  <2>1. \A T \in All : IsFiniteSet(T)
    BY <1>4
  <2> HIDE DEF All
  <2> QED
    BY <1>1, <1>5, <2>1, FS_UNION
<1>7. Rows(data) # {}
  <2>1. PICK i \in Instrument : data[i] # <<>> /\ data[i] \in Seq([time : Nat, close : Nat])
    BY DataAssumption
  <2>2. PICK k \in DOMAIN Instruments : Instruments[k] = i
    BY DEF Instrument, Range
  <2>3. 1 \in DOMAIN data[i]
    BY <2>1, EmptySeq, LenProperties
  <2>4. RowAt(data, k, 1) \in Of(k) /\ Of(k) \in All
    BY <2>2, <2>3
  <2> HIDE DEF Of, All
  <2> QED
    BY <1>1, <2>4
<1> QED
  BY <1>6, <1>7

LEMMA StreamInv ==
  ASSUME NEW data \in History, NEW s \in EventStreams(data)
  PROVE  /\ s \in Seq(Row) /\ Len(s) \in Nat \ {0}
         /\ \A m, n \in 1 .. Len(s) : m < n => s[m].time <= s[n].time
<1>1. Rows(data) \subseteq Row
  BY DEF Row
<1>2. Cardinality(Rows(data)) \in Nat \ {0}
  BY RowsFinite, FS_CardinalityType, FS_EmptySet
<1>3. /\ s \in [1 .. Cardinality(Rows(data)) -> Row]
      /\ \A m, n \in 1 .. Cardinality(Rows(data)) : m < n => Earlier(s[m], s[n])
  BY <1>1 DEF EventStreams
<1>4. s \in Seq(Row) /\ Len(s) = Cardinality(Rows(data))
  BY <1>2, <1>3
<1>5. ASSUME NEW m \in 1 .. Len(s), NEW n \in 1 .. Len(s), m < n
      PROVE  s[m].time <= s[n].time
  <2>1. s[m].time \in Nat /\ s[n].time \in Nat
    BY <1>3, <1>4, <1>5, RowTypes
  <2>2. Earlier(s[m], s[n])
    BY <1>3, <1>4, <1>5
  <2> QED
    BY <2>1, <2>2 DEF Earlier
<1> QED
  BY <1>2, <1>4, <1>5

-------------------------------------------------------------------------------
(* Lanes that grow and shrink *)

LEMMA AppendMembers ==
  ASSUME NEW S, NEW s \in Seq(S), NEW x \in S
  PROVE  /\ Append(s, x) \in Seq(S) /\ Len(Append(s, x)) = Len(s) + 1 /\ Len(s) \in Nat
         /\ \A m \in 1 .. Len(s) : Append(s, x)[m] = s[m]
         /\ Append(s, x)[Len(s) + 1] = x
         /\ \A m \in 1 .. Len(s) + 1 : m \in 1 .. Len(s) \/ m = Len(s) + 1
BY AppendProperties, LenProperties

LEMMA ThreeMembers ==
  ASSUME NEW S, NEW s \in Seq(S), NEW a \in S, NEW b \in S, NEW c \in S
  PROVE  /\ s \o <<a, b, c>> \in Seq(S) /\ Len(s \o <<a, b, c>>) = Len(s) + 3 /\ Len(s) \in Nat
         /\ \A m \in 1 .. Len(s) : (s \o <<a, b, c>>)[m] = s[m]
         /\ (s \o <<a, b, c>>)[Len(s) + 1] = a
         /\ (s \o <<a, b, c>>)[Len(s) + 2] = b
         /\ (s \o <<a, b, c>>)[Len(s) + 3] = c
         /\ \A m \in 1 .. Len(s) + 3 :
              m \in 1 .. Len(s) \/ m = Len(s) + 1 \/ m = Len(s) + 2 \/ m = Len(s) + 3
<1>t. PICK t : t = <<a, b, c>>
  OBVIOUS
<1>1. t \in Seq(S) /\ Len(t) = 3 /\ t[1] = a /\ t[2] = b /\ t[3] = c
  BY <1>t
<1>2. s \o t \in Seq(S) /\ Len(s \o t) = Len(s) + 3 /\ Len(s) \in Nat
  <2>1. Len(s) \in Nat
    BY LenProperties
  <2>2. t \in Seq(S)
    BY <1>1
  <2>3. s \o t \in Seq(S)
    BY <2>2, ConcatProperties
  <2>4. Len(s \o t) = Len(s) + Len(t)
    BY <2>2, ConcatProperties
  <2> QED
    BY <1>1, <2>1, <2>3, <2>4
<1>3. \A m \in 1 .. Len(s) + 3 : (s \o t)[m] = IF m <= Len(s) THEN s[m] ELSE t[m - Len(s)]
  BY <1>1, <1>2, ConcatProperties, LenProperties
<1>4. /\ \A m \in 1 .. Len(s) : (s \o t)[m] = s[m]
      /\ (s \o t)[Len(s) + 1] = a /\ (s \o t)[Len(s) + 2] = b /\ (s \o t)[Len(s) + 3] = c
  BY <1>1, <1>2, <1>3
<1> QED
  BY <1>t, <1>2, <1>4

LEMMA TailMembers ==
  ASSUME NEW S, NEW s \in Seq(S), s # <<>>
  PROVE  /\ Tail(s) \in Seq(S) /\ Len(Tail(s)) = Len(s) - 1 /\ Len(s) \in Nat \ {0}
         /\ \A m \in 1 .. Len(s) - 1 : Tail(s)[m] = s[m + 1] /\ m + 1 \in 1 .. Len(s)
         /\ Head(s) = s[1] /\ Head(s) \in S /\ 1 \in 1 .. Len(s)
BY HeadTailProperties, LenProperties, EmptySeq

-------------------------------------------------------------------------------
(* Prices *)

\* More bars and more orders: what could be a price still can.
LEMMA StillKnown ==
  ASSUME NEW k, NEW price, Known(k, price), requests'[k] = requests[k],
         events' = events, fed \in Nat, fed' \in Nat, fed <= fed'
  PROVE  Known(k, price)'
BY DEF Known, Silent, BarOf

LEMMA RoutedPriceKnown ==
  ASSUME OrderInv, LatestInv, EngineInv, NEW k \in DOMAIN requests
  PROVE  RoutedPrice(requests[k]) \in Nat /\ Known(k, RoutedPrice(requests[k]))
<1>1. requests[k] \in Priced
  BY ElementOfSeq, LenProperties DEF OrderInv
<1>2. CASE requests[k].price # NoPrice
  BY <1>1, <1>2, OrderAssumption DEF RoutedPrice, Known, Priced
<1>3. /\ requests[k].after \in Nat /\ fed \in Nat /\ requests[k].after <= fed
      /\ requests[k].instrument \in Instrument
  BY <1>1 DEF Priced, OrderInv, EngineInv
<1>4. CASE requests[k].price = NoPrice /\ requests[k].instrument \in DOMAIN latest
  <2>1. PICK i \in DOMAIN latest : i = requests[k].instrument
    BY <1>4
  <2>2. PICK b \in 1 .. fed : BarOf(b, i) /\ events[b].close = latest[i] /\ Silent(b, fed, i)
    BY DEF LatestInv
  <2>3. Silent(b, requests[k].after, i)
    <3>1. b + 1 .. requests[k].after \subseteq b + 1 .. fed
      BY <1>3
    <3> QED
      BY <2>2, <3>1 DEF Silent
  <2>4. RoutedPrice(requests[k]) = latest[i] /\ latest[i] \in Nat
    BY <1>4, <2>1 DEF RoutedPrice, LatestInv
  <2> QED
    BY <1>4, <2>1, <2>2, <2>3, <2>4 DEF Known
<1>5. CASE requests[k].price = NoPrice /\ requests[k].instrument \notin DOMAIN latest
  <2>1. Silent(0, requests[k].after, requests[k].instrument)
    <3>1. 0 + 1 .. requests[k].after \subseteq 0 + 1 .. fed
      BY <1>3
    <3>2. Silent(0, fed, requests[k].instrument)
      BY <1>3, <1>5 DEF LatestInv
    <3> QED
      BY <3>1, <3>2 DEF Silent
  <2>2. RoutedPrice(requests[k]) = DefaultPrice
    BY <1>5 DEF RoutedPrice
  <2> QED
    BY <1>5, <2>1, <2>2, OrderAssumption DEF Known
<1> QED
  BY <1>2, <1>4, <1>5

LEMMA InitInv == Init => IInv
<1> SUFFICES ASSUME Init PROVE IInv
  OBVIOUS
<1>1. PICK data \in History : events \in EventStreams(data)
  BY DEF Init
<1>2. /\ events \in Seq(Row) /\ Len(events) \in Nat \ {0}
      /\ \A m, n \in 1 .. Len(events) : m < n => events[m].time <= events[n].time
  BY <1>1, StreamInv
<1>3. events[1].time \in Nat
  BY <1>2, ElementOfSeq, RowTypes
<1>4. EventsInv /\ EngineInv /\ TimeInv
  BY <1>2, <1>3 DEF Init, EventsInv, EngineInv, TimeInv
<1>5. BusInv /\ OrderInv /\ KnownInv
  BY NothingIsNone DEF Init, BusInv, OrderInv, KnownInv, InFlight
<1>6. PositionsInv
  <2>1. Shaped(Flat)
    <3>1. PICK z : z = Zero
      OBVIOUS
    <3>2. PICK f : f = Flat
      OBVIOUS
    <3>3. f = [quantity |-> 0, avgEntryPrice |-> z, realizedPnl |-> z]
      BY <3>1, <3>2 DEF Flat
    <3>4. f.quantity = 0
      BY <3>3
    <3>5. \E q, a, r : f = [quantity |-> q, avgEntryPrice |-> a, realizedPnl |-> r]
      BY <3>3, Zenon
    <3>6. f.quantity \in Int
      BY <3>4
    <3> QED
      <4>1. Shaped(f)
        BY <3>5, <3>6, Zenon DEF Shaped
      <4> QED
        BY <3>2, <4>1
  <2> QED
    BY <2>1 DEF Init, PositionsInv
<1>7. LatestInv /\ TradesInv /\ PricedByFedBar
  BY DEF Init, LatestInv, TradesInv, PricedByFedBar, Silent
<1> QED
  BY <1>4, <1>5, <1>6, <1>7 DEF IInv

LEMMA RequestOrder_Inv ==
  ASSUME IInv, NEW i \in Instrument, NEW qty \in Quantity, NEW price \in LimitPrice \cup {NoPrice},
         RequestOrder(i, qty, price)
  PROVE  IInv'
<1> DEFINE request == [instrument |-> i, qty |-> qty, price |-> price, after |-> fed]
           event == OrderEvent("OrderRequested", Len(requests) + 1)
<1>1. /\ requests' = Append(requests, request) /\ orders' = Append(orders, Unknown)
      /\ high' = Append(high, event)
      /\ UNCHANGED <<events, phase, fed, now, latest, positions, trades, inHand, normal, low, dispatcher>>
  BY DEF RequestOrder, engineVars, logVars
<1>2. /\ request \in Priced /\ requests \in Seq(Priced) /\ high \in Seq(HighEvent)
      /\ DOMAIN orders = DOMAIN requests /\ request.after = fed /\ fed \in Nat
  BY DEF Priced, IInv, OrderInv, BusInv, EngineInv
<1>3. event \in HighEvent /\ event.order = Len(requests) + 1 /\ event.kind = "OrderRequested"
  BY <1>2, LenProperties DEF OrderEvent, HighEvent, OrderKind
<1> HIDE DEF request, event
<1>4. /\ requests' \in Seq(Priced) /\ Len(requests') = Len(requests) + 1 /\ Len(requests) \in Nat
      /\ DOMAIN requests = 1 .. Len(requests) /\ DOMAIN requests' = 1 .. Len(requests) + 1
      /\ \A k \in DOMAIN requests : requests'[k] = requests[k] /\ k \in DOMAIN requests'
      /\ requests'[Len(requests) + 1] = request
  BY <1>1, <1>2, AppendMembers, LenProperties
<1>5. /\ high' \in Seq(HighEvent) /\ Len(high') = Len(high) + 1
      /\ \A m \in 1 .. Len(high) : high'[m] = high[m]
      /\ high'[Len(high) + 1] = event
      /\ \A m \in 1 .. Len(high) + 1 : m \in 1 .. Len(high) \/ m = Len(high) + 1
  BY <1>1, <1>2, <1>3, AppendMembers
<1>6. EventsInv' /\ EngineInv' /\ TimeInv' /\ LatestInv' /\ PositionsInv'
  BY <1>1 DEF IInv, EventsInv, EngineInv, TimeInv, LatestInv, PositionsInv, Shaped, Silent, BarOf
<1>7. BusInv'
  BY <1>1, <1>5 DEF IInv, BusInv
<1>8. \A e : InFlight(e)' => InFlight(e) \/ e = event
  BY <1>1, <1>5 DEF InFlight
<1>9. OrderInv'
  <2>1. DOMAIN orders' = DOMAIN requests'
    BY <1>1, <1>2, <1>4
  <2>2. \A e \in HighEvent : InFlight(e)' => e.order \in DOMAIN requests'
    BY <1>3, <1>4, <1>8 DEF IInv, OrderInv
  <2>3. \A k \in DOMAIN requests' : requests'[k].after <= fed'
    <3>1. \A k \in DOMAIN requests' : k \in DOMAIN requests \/ k = Len(requests) + 1
      BY <1>4
    <3>2. fed <= fed /\ fed' = fed
      BY <1>1, <1>2
    <3> QED
      BY <1>2, <1>4, <3>1, <3>2 DEF IInv, OrderInv
  <2> QED
    BY <1>4, <2>1, <2>2, <2>3 DEF OrderInv
<1>10. KnownInv'
  <2>1. \A k \in DOMAIN requests : \A p : Known(k, p) => Known(k, p)'
    BY <1>1, <1>4, StillKnown DEF IInv, EngineInv
  <2> QED
    BY <1>3, <1>8, <2>1 DEF IInv, KnownInv, OrderInv
<1>11. TradesInv' /\ PricedByFedBar'
  BY <1>1, <1>4, LenProperties DEF IInv, TradesInv, PricedByFedBar, BarOf
<1> QED
  BY <1>6, <1>7, <1>9, <1>10, <1>11 DEF IInv

\* Steps that leave the bus, the orders, the trades and the bars alone.
LEMMA AsideInv ==
  ASSUME IInv, EngineInv',
         UNCHANGED <<events, fed, latest, requests, orders, positions, trades, high, normal, low, inHand>>,
         now' \in Nat, now <= now', dispatcher' # "getting" \/ dispatcher' = dispatcher
  PROVE  IInv'
<1>1. EventsInv' /\ TradesInv' /\ PositionsInv' /\ BusInv' /\ LatestInv' /\ PricedByFedBar'
  <2>1. EventsInv' /\ TradesInv' /\ PositionsInv' /\ BusInv'
    BY DEF IInv, EventsInv, TradesInv, PositionsInv, Shaped, BusInv
  <2>2. LatestInv'
    BY DEF IInv, LatestInv, Silent, BarOf
  <2>3. PricedByFedBar'
    BY DEF IInv, PricedByFedBar, BarOf
  <2> QED
    BY <2>1, <2>2, <2>3
<1>2. OrderInv' /\ KnownInv'
  BY DEF IInv, OrderInv, KnownInv, InFlight, Known, Silent, BarOf
<1>3. TimeInv'
  <2> SUFFICES ASSUME NEW b \in 1 .. fed PROVE events[b].time <= now'
    BY DEF TimeInv
  <2>1. events[b].time \in Nat
    BY ElementOfSeq, RowTypes DEF IInv, EventsInv, EngineInv
  <2>2. events[b].time <= now /\ now \in Nat
    BY DEF IInv, TimeInv, EngineInv
  <2> QED
    BY <2>1, <2>2
<1> QED
  BY <1>1, <1>2, <1>3 DEF IInv

LEMMA NextBar ==
  ASSUME IInv, phase \in {"starting", "advancing"}
  PROVE  /\ fed \in Nat /\ fed + 1 \in 1 .. Len(events) /\ Len(events) \in Nat
         /\ events[fed + 1].instrument \in Instrument
         /\ events[fed + 1].time \in Nat /\ events[fed + 1].close \in Nat
<1>1. fed \in Nat /\ fed + 1 \in 1 .. Len(events) /\ Len(events) \in Nat
  BY LenProperties DEF IInv, EngineInv, EventsInv
<1> QED
  BY <1>1, ElementOfSeq, RowTypes DEF IInv, EventsInv

LEMMA EngineAside_Inv ==
  ASSUME IInv, OnStartReturns \/ TimerFires \/ JoinReturns \/ OnStopReturns \/ RunReturns
  PROVE  IInv'
<1>1. /\ UNCHANGED <<events, fed, latest, requests, orders, positions, trades, high, normal, low, inHand>>
      /\ dispatcher' # "getting" \/ dispatcher' = dispatcher
  BY DEF OnStartReturns, TimerFires, JoinReturns, OnStopReturns, RunReturns,
         engineVars, omsVars, busVars, logVars
<1>2. now' \in Nat /\ now <= now'
  <2>1. CASE TimerFires
    BY <2>1, NextBar DEF TimerFires, IInv, EngineInv
  <2>2. CASE now' = now
    BY <2>2 DEF IInv, EngineInv
  <2> QED
    BY <2>1, <2>2 DEF OnStartReturns, JoinReturns, OnStopReturns, RunReturns
<1>3. EngineInv'
  <2>1. fed \in 0 .. Len(events) /\ Len(events) \in Nat
    BY LenProperties DEF IInv, EngineInv, EventsInv
  <2>2. CASE OnStartReturns
    BY <1>1, <1>2, <2>2 DEF OnStartReturns, IInv, EngineInv
  <2>3. CASE TimerFires
    BY <1>1, <1>2, <2>3 DEF TimerFires, IInv, EngineInv
  <2>4. CASE JoinReturns
    BY <1>1, <1>2, <2>1, <2>4 DEF JoinReturns, NextPhase, IInv, EngineInv
  <2>5. CASE OnStopReturns
    BY <1>1, <1>2, <2>5 DEF OnStopReturns, IInv, EngineInv
  <2>6. CASE RunReturns
    BY <1>1, <1>2, <2>6 DEF RunReturns, IInv, EngineInv
  <2> QED
    BY <2>2, <2>3, <2>4, <2>5, <2>6
<1> QED
  BY <1>1, <1>2, <1>3, AsideInv

LEMMA FeedBar_Inv ==
  ASSUME IInv, FeedBar
  PROVE  IInv'
<1> DEFINE bar == events[fed + 1]
<1>1. /\ phase = "advancing" /\ now' = bar.time
      /\ latest' = [i \in DOMAIN latest \cup {bar.instrument} |->
                      IF i = bar.instrument THEN bar.close ELSE latest[i]]
      /\ normal' = Append(normal, BarEvent) /\ fed' = fed + 1 /\ phase' = "joining"
      /\ UNCHANGED <<events, requests, orders, positions, high, low, dispatcher, inHand, trades>>
  BY DEF FeedBar, omsVars, logVars
<1>2. /\ fed \in Nat /\ fed + 1 \in 1 .. Len(events) /\ Len(events) \in Nat
      /\ bar.instrument \in Instrument /\ bar.time \in Nat /\ bar.close \in Nat
  BY <1>1, NextBar
<1>3. EventsInv' /\ EngineInv'
  BY <1>1, <1>2 DEF IInv, EventsInv, EngineInv
<1>4. BusInv'
  <2>1. normal' \in Seq({BarEvent})
    BY <1>1, AppendProperties DEF IInv, BusInv
  <2> QED
    BY <1>1, <2>1 DEF IInv, BusInv
<1>5. OrderInv' /\ TradesInv' /\ PositionsInv'
  <2>1. \A k \in DOMAIN requests : requests[k].after \in Nat /\ requests[k].after <= fed
    <3> SUFFICES ASSUME NEW k \in DOMAIN requests
                 PROVE  requests[k].after \in Nat /\ requests[k].after <= fed
      OBVIOUS
    <3>1. requests[k] \in Priced
      BY ElementOfSeq, LenProperties DEF IInv, OrderInv
    <3> QED
      BY <3>1 DEF IInv, OrderInv, Priced
  <2>2. \A k \in DOMAIN requests : requests[k].after <= fed + 1
    BY <1>2, <2>1
  <2> QED
    BY <1>1, <2>2 DEF IInv, OrderInv, InFlight, TradesInv, PositionsInv, Shaped
<1>6. KnownInv'
  <2>1. \A k, p : Known(k, p) => Known(k, p)'
    BY <1>1, <1>2, StillKnown
  <2> QED
    BY <1>1, <2>1 DEF IInv, KnownInv, InFlight
<1>7. TimeInv'
  <2> SUFFICES ASSUME NEW b \in 1 .. fed + 1 PROVE events[b].time <= bar.time
    BY <1>1 DEF TimeInv
  <2>1. CASE b = fed + 1
    BY <1>2, <2>1
  <2>2. CASE b # fed + 1
    BY <1>2, <2>2 DEF IInv, EventsInv
  <2> QED
    BY <2>1, <2>2
<1>8. LatestInv'
  <2>1. ASSUME NEW i \in DOMAIN latest'
        PROVE  /\ i \in Instrument /\ latest'[i] \in Nat
               /\ \E b \in 1 .. fed + 1 : BarOf(b, i) /\ events[b].close = latest'[i]
                                           /\ Silent(b, fed + 1, i)
    <3>1. CASE i = bar.instrument
      <4>1. latest'[i] = bar.close /\ fed + 1 \in 1 .. fed + 1
        BY <1>1, <1>2, <3>1
      <4>2. Silent(fed + 1, fed + 1, i)
        BY <1>2 DEF Silent
      <4>3. BarOf(fed + 1, i) /\ events[fed + 1].close = latest'[i]
        BY <3>1, <4>1 DEF BarOf
      <4> QED
        BY <1>2, <3>1, <4>1, <4>2, <4>3
    <3>2. CASE i # bar.instrument
      <4>1. i \in DOMAIN latest /\ latest'[i] = latest[i]
        BY <1>1, <2>1, <3>2
      <4>2. PICK b \in 1 .. fed : BarOf(b, i) /\ events[b].close = latest[i] /\ Silent(b, fed, i)
        BY <4>1 DEF IInv, LatestInv
      <4>3. b \in 1 .. fed + 1
        BY <1>2
      <4>4. Silent(b, fed + 1, i)
        <5>1. \A c \in b + 1 .. fed + 1 : c \in b + 1 .. fed \/ c = fed + 1
          BY <1>2
        <5> QED
          BY <3>2, <4>2, <5>1 DEF Silent, BarOf
      <4> QED
        BY <4>1, <4>2, <4>3, <4>4 DEF IInv, LatestInv
    <3> QED
      BY <3>1, <3>2
  <2>2. ASSUME NEW i \in Instrument, i \notin DOMAIN latest'
        PROVE  Silent(0, fed + 1, i)
    <3>1. i \notin DOMAIN latest /\ i # bar.instrument
      BY <1>1, <2>2
    <3>2. Silent(0, fed, i)
      BY <3>1 DEF IInv, LatestInv
    <3>3. \A c \in 0 + 1 .. fed + 1 : c \in 0 + 1 .. fed \/ c = fed + 1
      BY <1>2
    <3> QED
      BY <3>1, <3>2, <3>3 DEF Silent, BarOf
  <2>3. \A m, n, i : Silent(m, n, i)' <=> Silent(m, n, i)
    BY <1>1 DEF Silent, BarOf
  <2>4. \A b, i : BarOf(b, i)' <=> BarOf(b, i)
    BY <1>1 DEF BarOf
  <2> HIDE DEF bar
  <2>5. DOMAIN latest' \subseteq Instrument
    BY <2>1
  <2>6. \A i \in DOMAIN latest' :
          /\ latest'[i] \in Nat
          /\ \E b \in 1 .. fed' : BarOf(b, i)' /\ events'[b].close = latest'[i] /\ Silent(b, fed, i)'
    <3> SUFFICES ASSUME NEW i \in DOMAIN latest'
                 PROVE  /\ latest'[i] \in Nat
                        /\ \E b \in 1 .. fed' : BarOf(b, i)' /\ events'[b].close = latest'[i]
                                               /\ Silent(b, fed, i)'
      OBVIOUS
    <3>1. PICK b \in 1 .. fed + 1 : BarOf(b, i) /\ events[b].close = latest'[i]
                                    /\ Silent(b, fed + 1, i)
      BY <2>1
    <3>2. Silent(b, fed, i)'
      BY <1>1, <3>1 DEF Silent, BarOf
    <3> QED
      BY <1>1, <2>1, <2>4, <3>1, <3>2
  <2>7. \A i \in Instrument \ DOMAIN latest' : Silent(0, fed, i)'
    BY <1>1, <2>2 DEF Silent, BarOf
  <2> QED
    BY <2>5, <2>6, <2>7 DEF LatestInv
<1>9. PricedByFedBar'
  <2>1. 1 .. fed \subseteq 1 .. fed'
    BY <1>1, <1>2
  <2> QED
    BY <1>1, <2>1 DEF IInv, PricedByFedBar, BarOf
<1> QED
  BY <1>3, <1>4, <1>5, <1>6, <1>7, <1>8, <1>9 DEF IInv

LEMMA TakeEvent_Inv ==
  ASSUME IInv, TakeEvent
  PROVE  IInv'
<1>1. UNCHANGED <<events, phase, fed, now, latest, requests, orders, positions, trades>>
  BY DEF TakeEvent, engineVars, omsVars, logVars
<1>2. /\ high' \in Seq(HighEvent) /\ normal' \in Seq({BarEvent}) /\ low' \in Seq(LowEvent)
      /\ inHand' \in HighEvent \cup {BarEvent} \cup LowEvent /\ dispatcher' = "dispatching"
      /\ \A e \in HighEvent : InFlight(e)' => InFlight(e)
  <2>1. CASE high # <<>> /\ Take(high) /\ high' = Tail(high) /\ UNCHANGED <<normal, low>>
    <3>1. /\ high' \in Seq(HighEvent) /\ inHand' = high[1] /\ high[1] \in HighEvent
          /\ \A m \in 1 .. Len(high') : high'[m] = high[m + 1] /\ m + 1 \in 1 .. Len(high)
          /\ 1 \in 1 .. Len(high)
      BY <2>1, TailMembers DEF IInv, BusInv, Take
    <3> QED
      BY <2>1, <3>1 DEF IInv, BusInv, Take, InFlight
  <2>2. CASE normal # <<>> /\ Take(normal) /\ normal' = Tail(normal) /\ UNCHANGED <<high, low>>
    <3>1. normal' \in Seq({BarEvent}) /\ inHand' = BarEvent
      BY <2>2, TailMembers DEF IInv, BusInv, Take
    <3> QED
      BY <2>2, <3>1, NothingIsNone DEF IInv, BusInv, Take, InFlight
  <2>3. CASE low # <<>> /\ Take(low) /\ low' = Tail(low) /\ UNCHANGED <<high, normal>>
    <3>1. low' \in Seq(LowEvent) /\ inHand' \in LowEvent
      BY <2>3, TailMembers DEF IInv, BusInv, Take
    <3>2. \A e \in HighEvent : e # inHand'
      BY <3>1, NothingIsNone DEF OrderKind
    <3> QED
      BY <2>3, <3>1, <3>2 DEF IInv, BusInv, Take, InFlight
  <2> QED
    BY <2>1, <2>2, <2>3 DEF TakeEvent
<1>3. EventsInv' /\ EngineInv' /\ TimeInv' /\ LatestInv' /\ TradesInv'
      /\ PositionsInv' /\ PricedByFedBar'
  BY <1>1 DEF IInv, EventsInv, EngineInv, TimeInv, LatestInv, TradesInv, PositionsInv, Shaped,
              PricedByFedBar, Silent, BarOf
<1>4. BusInv'
  BY <1>2 DEF BusInv
<1>5. OrderInv' /\ KnownInv'
  BY <1>1, <1>2 DEF IInv, OrderInv, KnownInv, Known, Silent, BarOf
<1> QED
  BY <1>3, <1>4, <1>5 DEF IInv

\* The event is done with, and may have led to others.
LEMMA HandledInv ==
  ASSUME IInv,
         UNCHANGED <<events, phase, fed, now, latest, requests, positions, trades, normal, low>>,
         DOMAIN orders' = DOMAIN requests, high' \in Seq(HighEvent), inHand' = Nothing,
         \A e \in HighEvent : InFlight(e)' =>
           InFlight(e) \/ (e.order \in DOMAIN requests
                           /\ (e.kind = "FillEvent" => Known(e.order, e.price)))
  PROVE  IInv'
<1>1. EventsInv' /\ EngineInv' /\ TimeInv' /\ LatestInv' /\ TradesInv'
      /\ PositionsInv' /\ PricedByFedBar' /\ BusInv'
  BY DEF IInv, EventsInv, EngineInv, TimeInv, LatestInv, TradesInv, PositionsInv, Shaped,
         PricedByFedBar, BusInv, Silent, BarOf
<1>2. OrderInv' /\ KnownInv'
  BY DEF IInv, OrderInv, KnownInv, Known, Silent, BarOf
<1> QED
  BY <1>1, <1>2 DEF IInv

LEMMA QuietHandler_Inv ==
  ASSUME IInv, RouteOrderRefused \/ OwnOrderSubmitted \/ OnOrderAccepted \/ OnBar \/ OnSignal \/ OnPosition
  PROVE  IInv'
<1>1. /\ UNCHANGED <<events, phase, fed, now, latest, requests, positions, trades, high, normal, low>>
      /\ inHand' = Nothing
  BY DEF RouteOrderRefused, OwnOrderSubmitted, OnOrderAccepted, OnBar, OnSignal, OnPosition,
         EventDone, engineVars, omsVars, logVars
<1>2. DOMAIN orders' = DOMAIN requests
  BY DEF RouteOrderRefused, OwnOrderSubmitted, OnOrderAccepted, OnBar, OnSignal, OnPosition, omsVars,
         IInv, OrderInv
<1>3. \A e \in HighEvent : InFlight(e)' => InFlight(e)
  BY <1>1, NothingIsNone DEF InFlight
<1> QED
  BY <1>1, <1>2, <1>3, HandledInv DEF IInv, BusInv

LEMMA RouteOrder_Inv ==
  ASSUME IInv, RouteOrder
  PROVE  IInv'
<1> DEFINE k == inHand.order
           price == RoutedPrice(requests[k])
           a == OrderEvent("OrderAccepted", k)
           f == FillEvent(k, price)
           s == OrderEvent("OrderSubmitted", k)
<1>1. /\ UNCHANGED <<events, phase, fed, now, latest, requests, positions, trades, normal, low>>
      /\ orders' = [orders EXCEPT ![k] = AfterSubmit(NewOrder)]
      /\ high' = high \o <<a, f, s>> /\ inHand' = Nothing
      /\ inHand.kind = "OrderRequested"
  BY DEF RouteOrder, EventDone, engineVars, logVars
<1>2. inHand \in HighEvent /\ k \in Nat /\ k \in DOMAIN requests
  BY <1>1, NothingIsNone DEF IInv, BusInv, OrderInv, InFlight
<1>3. price \in Nat /\ Known(k, price)
  BY <1>2, RoutedPriceKnown DEF IInv
<1> HIDE DEF price
<1>4. a \in HighEvent /\ f \in HighEvent /\ s \in HighEvent
  BY <1>2, <1>3 DEF OrderEvent, FillEvent, HighEvent, OrderKind
<1>5. /\ a.order = k /\ f.order = k /\ s.order = k /\ f.price = price
      /\ a.kind # "FillEvent" /\ s.kind # "FillEvent"
  BY DEF OrderEvent, FillEvent
<1>6. PICK n : n = k
  OBVIOUS
<1> HIDE DEF a, f, s
<1>7. high' \in Seq(HighEvent) /\ \A e \in HighEvent : InFlight(e)' => InFlight(e) \/ e \in {a, f, s}
  <2>1. high \in Seq(HighEvent)
    BY DEF IInv, BusInv
  <2>2. /\ high' \in Seq(HighEvent) /\ Len(high') = Len(high) + 3
        /\ \A m \in 1 .. Len(high) : high'[m] = high[m]
        /\ high'[Len(high) + 1] = a /\ high'[Len(high) + 2] = f /\ high'[Len(high) + 3] = s
        /\ \A m \in 1 .. Len(high) + 3 : m \in 1 .. Len(high) \/ m = Len(high) + 1
                                         \/ m = Len(high) + 2 \/ m = Len(high) + 3
    BY <1>1, <1>4, <2>1, ThreeMembers
  <2> QED
    BY <1>1, <2>2, NothingIsNone DEF InFlight
<1>8. \A e \in {a, f, s} : e.order \in DOMAIN requests
                           /\ (e.kind = "FillEvent" => Known(e.order, e.price))
  BY <1>2, <1>3, <1>5
<1>9. DOMAIN orders' = DOMAIN requests
  BY <1>1 DEF IInv, OrderInv
<1> QED
  BY <1>1, <1>7, <1>8, <1>9, HandledInv

LEMMA OnFill_Inv ==
  ASSUME IInv, OnFill
  PROVE  IInv'
<1> DEFINE k == inHand.order
           request == requests[k]
           cost == inHand.price * Abs(request.qty) * CommissionRate
           trade == [time |-> now, order |-> k, qty |-> request.qty,
                     instrument |-> request.instrument,
                     price |-> inHand.price, commission |-> cost]
           quantity == positions'[request.instrument].quantity
<1>1. /\ UNCHANGED <<events, phase, fed, now, latest, requests, high, normal>>
      /\ trades' = Append(trades, trade)
      /\ DOMAIN orders' = DOMAIN orders
      /\ low' = IF running THEN Append(low, PositionEvent(request.instrument, quantity)) ELSE low
      /\ inHand' = Nothing /\ inHand.kind = "FillEvent"
  BY DEF OnFill, EventDone, engineVars
<1>2. inHand \in HighEvent /\ k \in Nat /\ k \in DOMAIN requests /\ inHand.price \in Nat
  BY <1>1, NothingIsNone DEF IInv, BusInv, OrderInv, InFlight
<1>3. request.qty \in Int /\ request.instrument \in Instrument
  <2>1. request \in Priced
    BY <1>2, ElementOfSeq, LenProperties DEF IInv, OrderInv
  <2> QED
    BY <2>1, OrderAssumption DEF Priced
<1>4. /\ DOMAIN positions' = Instrument
      /\ \A i \in Instrument : Shaped(positions'[i])
      /\ quantity \in Int
  <2>1. positions' = [positions EXCEPT ![request.instrument] =
                        UpdatePosition(@, request.qty, inHand.price)]
    BY DEF OnFill
  <2>2. \A i \in Instrument : positions'[i] =
          IF i = request.instrument THEN UpdatePosition(positions[i], request.qty, inHand.price)
          ELSE positions[i]
    BY <2>1 DEF IInv, PositionsInv
  <2>3. \A i \in Instrument : Shaped(positions'[i])
    BY <1>3, <2>2, UpdateShaped DEF IInv, PositionsInv
  <2> QED
    BY <1>3, <2>1, <2>3 DEF IInv, PositionsInv, Shaped
<1>5. PositionsInv'
  BY <1>4 DEF PositionsInv, Shaped
<1>6. trade \in Trade
  <2>1. cost \in Int
    BY <1>2, <1>3, OrderAssumption DEF Abs
  <2> HIDE DEF cost
  <2> QED
    BY <1>2, <1>3, <2>1 DEF Trade, IInv, EngineInv
<1>7. /\ trades' \in Seq(Trade) /\ Len(trades') = Len(trades) + 1 /\ Len(trades) \in Nat
      /\ DOMAIN trades = 1 .. Len(trades) /\ DOMAIN trades' = 1 .. Len(trades) + 1
      /\ \A t \in 1 .. Len(trades) : trades'[t] = trades[t]
      /\ trades'[Len(trades) + 1] = trade
      /\ \A t \in 1 .. Len(trades) + 1 : t \in 1 .. Len(trades) \/ t = Len(trades) + 1
  <2> HIDE DEF trade
  <2>1. trades \in Seq(Trade)
    BY DEF IInv, TradesInv
  <2>2. trades' \in Seq(Trade) /\ Len(trades') = Len(trades) + 1
    BY <1>1, <1>6, <2>1, AppendMembers
  <2> QED
    BY <1>1, <1>6, <2>1, <2>2, AppendMembers, LenProperties
<1>8. TradesInv'
  BY <1>1, <1>2, <1>7 DEF IInv, TradesInv
<1>9. PricedByFedBar'
  <2> DEFINE Good(t) ==
        LET r == requests[trades'[t].order]
        IN  IF r.price # NoPrice THEN trades'[t].price = r.price
            ELSE \/ /\ trades'[t].price = DefaultPrice
                    /\ \A b \in 1 .. r.after : ~BarOf(b, r.instrument)
                 \/ \E b \in 1 .. fed :
                      /\ BarOf(b, r.instrument) /\ events[b].close = trades'[t].price
                      /\ events[b].time <= trades'[t].time
                      /\ \A c \in b + 1 .. r.after : ~BarOf(c, r.instrument)
  <2> SUFFICES ASSUME NEW t \in 1 .. Len(trades) + 1
               PROVE  Good(t)
    BY <1>1, <1>7 DEF PricedByFedBar, BarOf
  <2>1. CASE t \in 1 .. Len(trades)
    BY <1>7, <2>1 DEF IInv, PricedByFedBar
  <2>2. CASE t = Len(trades) + 1
    <3>1. trades'[t].price = inHand.price /\ trades'[t].order = k /\ trades'[t].time = now
      BY <1>7, <2>2
    <3>2. Known(k, inHand.price)
      BY <1>1, <1>2 DEF IInv, KnownInv, InFlight
    <3>3. \A b \in 1 .. fed : events[b].time <= now
      BY DEF IInv, TimeInv
    <3> QED
      BY <3>1, <3>2, <3>3 DEF Known, Silent
  <2> QED
    BY <1>7, <2>1, <2>2
<1>10. BusInv'
  <2>1. PositionEvent(request.instrument, quantity) \in LowEvent
    BY <1>3, <1>4 DEF PositionEvent, LowEvent
  <2>2. low' \in Seq(LowEvent)
    <3> HIDE DEF quantity, request
    <3> QED
      BY <1>1, <2>1, AppendProperties DEF IInv, BusInv
  <2> QED
    BY <1>1, <2>2 DEF IInv, BusInv
<1>11. \A e \in HighEvent : InFlight(e)' => InFlight(e)
  BY <1>1, NothingIsNone DEF InFlight
<1>12. OrderInv' /\ KnownInv'
  BY <1>1, <1>11 DEF IInv, OrderInv, KnownInv, Known, Silent, BarOf
<1>13. EventsInv' /\ EngineInv' /\ TimeInv' /\ LatestInv'
  <2>1. EventsInv' /\ EngineInv' /\ TimeInv'
    BY <1>1 DEF IInv, EventsInv, EngineInv, TimeInv
  <2>2. LatestInv'
    BY <1>1 DEF IInv, LatestInv, Silent, BarOf
  <2> QED
    BY <2>1, <2>2
<1> QED
  BY <1>5, <1>8, <1>9, <1>10, <1>12, <1>13 DEF IInv

LEMMA EmitSignal_Inv ==
  ASSUME IInv, EmitSignal
  PROVE  IInv'
<1>1. /\ UNCHANGED <<events, phase, fed, now, latest, requests, orders, positions, trades, high,
                     normal, inHand, dispatcher>>
      /\ low' = Append(low, SignalEvent)
  BY DEF EmitSignal, engineVars, omsVars, logVars
<1>2. low' \in Seq(LowEvent)
  BY <1>1, NothingIsNone, AppendProperties DEF IInv, BusInv
<1>3. BusInv'
  BY <1>1, <1>2 DEF IInv, BusInv
<1>4. EventsInv' /\ EngineInv' /\ TimeInv' /\ LatestInv' /\ TradesInv'
      /\ PositionsInv' /\ PricedByFedBar'
  <2>1. EventsInv' /\ EngineInv' /\ TimeInv' /\ TradesInv' /\ PositionsInv'
    BY <1>1 DEF IInv, EventsInv, EngineInv, TimeInv, TradesInv, PositionsInv, Shaped
  <2>2. LatestInv'
    BY <1>1 DEF IInv, LatestInv, Silent, BarOf
  <2>3. PricedByFedBar'
    BY <1>1 DEF IInv, PricedByFedBar, BarOf
  <2> QED
    BY <2>1, <2>2, <2>3
<1>5. OrderInv' /\ KnownInv'
  BY <1>1 DEF IInv, OrderInv, KnownInv, InFlight, Known, Silent, BarOf
<1> QED
  BY <1>3, <1>4, <1>5 DEF IInv

LEMMA GetTimesOut_Inv ==
  ASSUME IInv, GetTimesOut \/ UNCHANGED vars
  PROVE  IInv'
<1>1. /\ UNCHANGED <<events, phase, fed, now, latest, requests, orders, positions, trades, high,
                     normal, low, inHand>>
      /\ dispatcher' # "getting" \/ dispatcher' = dispatcher
  BY DEF GetTimesOut, vars, engineVars, omsVars, busVars, logVars
<1>2. EngineInv' /\ now \in Nat
  BY <1>1 DEF IInv, EngineInv
<1> QED
  BY <1>1, <1>2, AsideInv

LEMMA NextInv == IInv /\ [Next]_vars => IInv'
<1> SUFFICES ASSUME IInv, [Next]_vars PROVE IInv'
  OBVIOUS
<1>1. CASE Engine \/ TimerFires
  BY <1>1, EngineAside_Inv, FeedBar_Inv DEF Engine
<1>2. CASE Dispatch
  BY <1>2, TakeEvent_Inv, GetTimesOut_Inv, RouteOrder_Inv, QuietHandler_Inv, OnFill_Inv DEF Dispatch
<1>3. CASE \E i \in Instrument, qty \in Quantity, price \in LimitPrice \cup {NoPrice} :
             RequestOrder(i, qty, price)
  BY <1>3, RequestOrder_Inv
<1>4. CASE EmitSignal \/ UNCHANGED vars
  BY <1>4, EmitSignal_Inv, GetTimesOut_Inv
<1> QED
  BY <1>1, <1>2, <1>3, <1>4 DEF Next

LEMMA Invariance == Spec => []IInv
<1> QED
  BY InitInv, NextInv, PTL DEF Spec

\* Every trade is priced by its order, or by a bar of its instrument that has been
\* fed and is not older than the last one before the request, or by default when
\* there was none, whatever the strategy orders and wherever it is suspended.
THEOREM PricesCorrect == Spec => []PricedByFedBar
<1>1. IInv => PricedByFedBar
  BY DEF IInv
<1> QED
  BY <1>1, Invariance, PTL

-------------------------------------------------------------------------------
(* Bars that are settled *)

\* In flight are the events of this kind of the orders after a and up to b, in the
\* order of the orders.
Queued(kind, a, b) ==
  /\ \A k \in a + 1 .. b : \E e \in HighEvent : InFlight(e) /\ e.kind = kind /\ e.order = k
  /\ \A e \in HighEvent : InFlight(e) /\ e.kind = kind => e.order \in a + 1 .. b
  /\ \A m, n \in 1 .. Len(high) :
       m < n /\ high[m].kind = kind /\ high[n].kind = kind => high[m].order < high[n].order
  /\ inHand.kind = kind =>
       \A m \in 1 .. Len(high) : high[m].kind = kind => inHand.order < high[m].order

\* Of the n orders requested the first r have been routed, and the first t of
\* those have been filled.
Stages(t, r, n) ==
  /\ t = Len(trades) /\ n = Len(requests) /\ t <= r /\ r <= n
  /\ orders \in Seq(OrderState \cup {Unknown})
  /\ \A k \in 1 .. r : orders[k] \in OrderState
  /\ \A k \in r + 1 .. n : orders[k] = Unknown
  /\ \A k \in 1 .. t : /\ trades[k].order = k /\ orders[k].status = "FILLED"
                       /\ orders[k].filled = Abs(requests[k].qty)
  /\ \A k \in t + 1 .. r : /\ orders[k].status \in {"SUBMITTED", "ACCEPTED"}
                           /\ orders[k].filled = 0

Lanes(t, r, n) ==
  /\ Queued("OrderRequested", r, n)
  /\ Queued("FillEvent", t, r)
  /\ \A e \in HighEvent : InFlight(e) /\ e.kind = "OrderAccepted" => e.order \in 1 .. r

\* What the k-th order adds to the position in an instrument.
Bought(k, i) == IF requests[k].instrument = i THEN requests[k].qty ELSE 0

\* The OMS and the venue book the orders one after the other: the OMS is where it
\* is after the orders that are filled, the venue after those that are routed.
Booked(t, r, n, i) ==
  \E p \in [0 .. n -> Int] :
    /\ \A k \in 1 .. n : p[k] = p[k - 1] + Bought(k, i)
    /\ p[t] = positions[i].quantity
    /\ p[r] = venuePositions[i]

Progress(t, r, n) == Stages(t, r, n) /\ Lanes(t, r, n) /\ \A i \in Instrument : Booked(t, r, n, i)

Tells(e, i) == e.kind = "PositionEvent" /\ e.instrument = i

\* The last position event of an instrument on the bus.
LastFor(i, m) == Tells(low[m], i) /\ \A n \in 1 .. Len(low) : m < n => ~Tells(low[n], i)

\* It tells the position of the OMS; without one the event in hand does, or the
\* strategy has been told.
Reported(i) ==
  /\ \A m \in 1 .. Len(low) : LastFor(i, m) => low[m].quantity = positions[i].quantity
  /\ (\A m \in 1 .. Len(low) : ~Tells(low[m], i)) =>
       /\ Tells(inHand, i) => inHand.quantity = positions[i].quantity
       /\ ~Tells(inHand, i) => told[i] = positions[i].quantity

SettleInv ==
  /\ ~running => phase \in {"draining", "done"}
  /\ running =>
       /\ \E t, r, n \in Nat : Progress(t, r, n)
       /\ \A i \in Instrument : Reported(i)
       /\ DOMAIN venuePositions = Instrument /\ DOMAIN told = Instrument

QueueKind == {"OrderRequested", "FillEvent"}

\* Events of other kinds come and go.
LEMMA QueuedAside ==
  ASSUME IInv, IInv', NEW kind \in QueueKind, NEW a \in Nat, NEW b \in Nat, Queued(kind, a, b),
         Len(high) <= Len(high'), \A m \in 1 .. Len(high) : high'[m] = high[m],
         \A m \in Len(high) + 1 .. Len(high') : high'[m].kind # kind,
         inHand' = inHand \/ (inHand.kind # kind /\ inHand'.kind # kind)
  PROVE  Queued(kind, a, b)'
<1>1. /\ Len(high) \in Nat /\ Len(high') \in Nat
      /\ \A m \in 1 .. Len(high') : m \in 1 .. Len(high) \/ m \in Len(high) + 1 .. Len(high')
      /\ \A m \in 1 .. Len(high) : m \in 1 .. Len(high')
  BY LenProperties DEF IInv, BusInv
<1>2. \A e : e.kind = kind => (InFlight(e)' <=> InFlight(e))
  BY <1>1, NothingIsNone DEF InFlight, QueueKind
<1>3. \A k \in a + 1 .. b : \E e \in HighEvent : InFlight(e)' /\ e.kind = kind /\ e.order = k
  BY <1>2 DEF Queued
<1>4. \A e \in HighEvent : InFlight(e)' /\ e.kind = kind => e.order \in a + 1 .. b
  BY <1>2 DEF Queued
<1>5. \A m, n \in 1 .. Len(high') :
        m < n /\ high'[m].kind = kind /\ high'[n].kind = kind => high'[m].order < high'[n].order
  BY <1>1 DEF Queued
<1>6. inHand'.kind = kind =>
        \A m \in 1 .. Len(high') : high'[m].kind = kind => inHand'.order < high'[m].order
  BY <1>1, NothingIsNone DEF Queued, QueueKind
<1> QED
  BY <1>3, <1>4, <1>5, <1>6 DEF Queued

\* The event of the next order is put on the bus.
LEMMA QueuedAdd ==
  ASSUME IInv, IInv', NEW kind \in QueueKind, NEW a \in Nat, NEW b \in Nat, Queued(kind, a, b),
         a <= b, Len(high) <= Len(high'), \A m \in 1 .. Len(high) : high'[m] = high[m],
         NEW j \in Len(high) + 1 .. Len(high'), high'[j].kind = kind, high'[j].order = b + 1,
         \A m \in Len(high) + 1 .. Len(high') : m # j => high'[m].kind # kind,
         inHand' = inHand \/ (inHand' = Nothing /\ inHand.kind # kind)
  PROVE  Queued(kind, a, b + 1)'
<1>1. /\ Len(high) \in Nat /\ Len(high') \in Nat /\ j \in 1 .. Len(high') /\ j \notin 1 .. Len(high)
      /\ \A m \in 1 .. Len(high') : m \in 1 .. Len(high) \/ m \in Len(high) + 1 .. Len(high')
      /\ \A m \in 1 .. Len(high) : m \in 1 .. Len(high') /\ m < j
  BY LenProperties DEF IInv, BusInv
<1>2. /\ high'[j] \in HighEvent
      /\ \A m \in 1 .. Len(high) : high[m] \in HighEvent
  BY <1>1, ElementOfSeq DEF IInv, BusInv
<1>3. \A e : e.kind = kind => (InFlight(e)' <=> InFlight(e) \/ e = high'[j])
  BY <1>1, NothingIsNone DEF InFlight, QueueKind
<1>4. \A k \in a + 1 .. b + 1 : \E e \in HighEvent : InFlight(e)' /\ e.kind = kind /\ e.order = k
  <2> SUFFICES ASSUME NEW k \in a + 1 .. b + 1
               PROVE  \E e \in HighEvent : InFlight(e)' /\ e.kind = kind /\ e.order = k
    OBVIOUS
  <2>1. CASE k = b + 1
    BY <1>2, <1>3, <2>1
  <2>2. CASE k # b + 1
    <3>1. k \in a + 1 .. b
      BY <2>2
    <3> QED
      BY <1>3, <3>1 DEF Queued
  <2> QED
    BY <2>1, <2>2
<1>5. \A e \in HighEvent : InFlight(e)' /\ e.kind = kind => e.order \in a + 1 .. b + 1
  <2> SUFFICES ASSUME NEW e \in HighEvent, InFlight(e)', e.kind = kind
               PROVE  e.order \in a + 1 .. b + 1
    OBVIOUS
  <2>1. CASE e = high'[j]
    BY <2>1
  <2>2. CASE InFlight(e)
    <3>1. e.order \in a + 1 .. b
      BY <2>2 DEF Queued
    <3> QED
      BY <3>1
  <2> QED
    BY <1>3, <2>1, <2>2
<1>6. \A m \in 1 .. Len(high) : high[m].kind = kind => high[m].order < b + 1
  <2> SUFFICES ASSUME NEW m \in 1 .. Len(high), high[m].kind = kind PROVE high[m].order < b + 1
    OBVIOUS
  <2>1. high[m].order \in a + 1 .. b
    BY <1>2 DEF Queued, InFlight
  <2> QED
    BY <2>1
<1>7. \A m, n \in 1 .. Len(high') :
        m < n /\ high'[m].kind = kind /\ high'[n].kind = kind => high'[m].order < high'[n].order
  <2> SUFFICES ASSUME NEW m \in 1 .. Len(high'), NEW n \in 1 .. Len(high'),
                      m < n, high'[m].kind = kind, high'[n].kind = kind
               PROVE  high'[m].order < high'[n].order
    OBVIOUS
  <2>1. m \in 1 .. Len(high)
    BY <1>1
  <2>2. CASE n \in 1 .. Len(high)
    BY <2>1, <2>2 DEF Queued
  <2>3. CASE n = j
    BY <1>6, <2>1, <2>3
  <2> QED
    BY <1>1, <2>2, <2>3
<1>8. inHand'.kind = kind =>
        \A m \in 1 .. Len(high') : high'[m].kind = kind => inHand'.order < high'[m].order
  <2> SUFFICES ASSUME inHand'.kind = kind, NEW m \in 1 .. Len(high'), high'[m].kind = kind
               PROVE  inHand'.order < high'[m].order
    OBVIOUS
  <2>1. inHand' = inHand
    BY NothingIsNone DEF QueueKind
  <2>2. CASE m \in 1 .. Len(high)
    BY <2>1, <2>2 DEF Queued
  <2>3. CASE m = j
    <3>1. inHand \in HighEvent
      BY <2>1, NothingIsNone DEF IInv, BusInv, QueueKind
    <3>2. inHand.order \in a + 1 .. b
      BY <2>1, <3>1 DEF Queued, InFlight
    <3> QED
      BY <2>1, <2>3, <3>2
  <2> QED
    BY <1>1, <2>2, <2>3
<1> QED
  BY <1>4, <1>5, <1>7, <1>8 DEF Queued

\* The event in hand is that of the first order, and is done with.
LEMMA QueuedDone ==
  ASSUME IInv, IInv', NEW kind \in QueueKind, NEW a \in Nat, NEW b \in Nat, Queued(kind, a, b),
         Len(high) <= Len(high'), \A m \in 1 .. Len(high) : high'[m] = high[m],
         \A m \in Len(high) + 1 .. Len(high') : high'[m].kind # kind,
         inHand.kind = kind, inHand' = Nothing
  PROVE  inHand.order = a + 1 /\ a + 1 <= b /\ Queued(kind, a + 1, b)'
<1>1. /\ Len(high) \in Nat /\ Len(high') \in Nat
      /\ \A m \in 1 .. Len(high') : m \in 1 .. Len(high) \/ m \in Len(high) + 1 .. Len(high')
      /\ \A m \in 1 .. Len(high) : m \in 1 .. Len(high')
  BY LenProperties DEF IInv, BusInv
<1>2. inHand \in HighEvent /\ \A m \in 1 .. Len(high) : high[m] \in HighEvent
  BY ElementOfSeq, NothingIsNone DEF IInv, BusInv, QueueKind
<1>3. inHand.order \in a + 1 .. b
  BY <1>2 DEF Queued, InFlight
<1>4. a + 1 \in a + 1 .. b
  BY <1>3
<1>5. PICK e \in HighEvent : InFlight(e) /\ e.kind = kind /\ e.order = a + 1
  BY <1>4 DEF Queued
<1>6. inHand.order = a + 1
  <2>1. CASE \E m \in 1 .. Len(high) : high[m] = e
    <3>1. inHand.order < a + 1
      BY <1>5, <2>1 DEF Queued
    <3> QED
      BY <1>3, <3>1
  <2> QED
    BY <1>5, <2>1 DEF InFlight
<1>7. \A f : f.kind = kind => (InFlight(f)' <=> \E m \in 1 .. Len(high) : high[m] = f)
  BY <1>1, NothingIsNone DEF InFlight, QueueKind
<1>8. \A k \in a + 1 + 1 .. b : \E f \in HighEvent : InFlight(f)' /\ f.kind = kind /\ f.order = k
  <2> SUFFICES ASSUME NEW k \in a + 1 + 1 .. b
               PROVE  \E f \in HighEvent : InFlight(f)' /\ f.kind = kind /\ f.order = k
    OBVIOUS
  <2>1. k \in a + 1 .. b /\ k # a + 1
    OBVIOUS
  <2>2. PICK f \in HighEvent : InFlight(f) /\ f.kind = kind /\ f.order = k
    BY <2>1 DEF Queued
  <2>3. f # inHand
    BY <1>6, <2>1, <2>2
  <2> QED
    BY <1>7, <2>2, <2>3 DEF InFlight
<1>9. \A f \in HighEvent : InFlight(f)' /\ f.kind = kind => f.order \in a + 1 + 1 .. b
  <2> SUFFICES ASSUME NEW f \in HighEvent, InFlight(f)', f.kind = kind
               PROVE  f.order \in a + 1 + 1 .. b
    OBVIOUS
  <2>1. PICK m \in 1 .. Len(high) : high[m] = f
    BY <1>7
  <2>2. f.order \in a + 1 .. b
    BY <2>1 DEF Queued, InFlight
  <2>3. a + 1 < f.order
    BY <1>6, <2>1 DEF Queued
  <2> QED
    BY <2>2, <2>3
<1>10. \A m, n \in 1 .. Len(high') :
        m < n /\ high'[m].kind = kind /\ high'[n].kind = kind => high'[m].order < high'[n].order
  BY <1>1 DEF Queued
<1>11. inHand'.kind # kind
  BY NothingIsNone DEF QueueKind
<1> QED
  BY <1>4, <1>6, <1>8, <1>9, <1>10, <1>11 DEF Queued

LEMMA Lifecycle ==
  /\ AfterSubmit(NewOrder) \in OrderState
  /\ AfterSubmit(NewOrder).status = "SUBMITTED" /\ AfterSubmit(NewOrder).filled = 0
  /\ \A s \in OrderState :
       /\ s # Unknown
       /\ AfterAccepted(s) \in OrderState /\ AfterAccepted(s).filled = s.filled
       /\ s.status \in {"SUBMITTED", "ACCEPTED"} => AfterAccepted(s).status = "ACCEPTED"
       /\ s.status = "FILLED" => AfterAccepted(s).status = "FILLED"
<1>1. /\ AfterSubmit(NewOrder) \in OrderState
      /\ AfterSubmit(NewOrder).status = "SUBMITTED" /\ AfterSubmit(NewOrder).filled = 0
  BY DEF AfterSubmit, NewOrder, OrderState, OrderStatus
<1>2. ASSUME NEW s \in OrderState
      PROVE  /\ s # Unknown
             /\ AfterAccepted(s) \in OrderState /\ AfterAccepted(s).filled = s.filled
             /\ s.status \in {"SUBMITTED", "ACCEPTED"} => AfterAccepted(s).status = "ACCEPTED"
             /\ s.status = "FILLED" => AfterAccepted(s).status = "FILLED"
  <2>1. s # Unknown
    BY DEF OrderState, OrderStatus, Unknown
  <2>2. /\ AfterAccepted(s) \in OrderState /\ AfterAccepted(s).filled = s.filled
        /\ AfterAccepted(s).status = IF IsValidTransition(s.status, "ACCEPTED")
                                     THEN "ACCEPTED" ELSE s.status
    BY DEF AfterAccepted, Transition, OrderState, OrderStatus
  <2>3. s.status = "SUBMITTED" => IsValidTransition(s.status, "ACCEPTED")
    BY DEF IsValidTransition, ValidTransitions
  <2>4. s.status = "FILLED" => ~IsValidTransition(s.status, "ACCEPTED")
    BY DEF IsValidTransition, ValidTransitions
  <2> QED
    BY <2>1, <2>2, <2>3, <2>4
<1> QED
  BY <1>1, <1>2

LEMMA LifecycleFill ==
  ASSUME NEW s \in OrderState, s.status \in {"SUBMITTED", "ACCEPTED"}, NEW qty \in Nat
  PROVE  /\ AfterFill(s, qty, "FILLED") \in OrderState
         /\ AfterFill(s, qty, "FILLED").status = "FILLED"
         /\ AfterFill(s, qty, "FILLED").filled = s.filled + qty
<1> DEFINE more == [s EXCEPT !.filled = @ + qty]
<1>1. more \in OrderState /\ more.filled = s.filled + qty /\ more.status = s.status
  BY DEF OrderState
<1> HIDE DEF more
<1>2. IsValidTransition(more.status, "FILLED")
  BY <1>1 DEF IsValidTransition, ValidTransitions
<1>3. /\ Transition(more, "FILLED") \in OrderState /\ Transition(more, "FILLED").filled = more.filled
      /\ Transition(more, "FILLED").status = "FILLED"
  BY <1>1, <1>2 DEF OrderState, OrderStatus, Transition
<1>4. AfterFill(s, qty, "FILLED") = Transition(more, "FILLED")
  BY DEF AfterFill, more
<1> QED
  BY <1>1, <1>3, <1>4

\* Steps that request, route, fill and tell nothing.
LEMMA ProgressAside ==
  ASSUME IInv, IInv', NEW t \in Nat, NEW r \in Nat, NEW n \in Nat, Progress(t, r, n),
         UNCHANGED <<requests, orders, positions, venuePositions, trades, high>>,
         \/ inHand' = inHand
         \/ /\ inHand.kind \in {"Nothing", "BarEvent", "PositionEvent", "SignalEvent", "OrderSubmitted"}
            /\ inHand'.kind \in {"Nothing", "BarEvent", "PositionEvent", "SignalEvent"}
  PROVE  Progress(t, r, n)'
<1>1. Stages(t, r, n)'
  BY DEF Progress, Stages
<1>2. Queued("OrderRequested", r, n)' /\ Queued("FillEvent", t, r)'
  <2>1. /\ Len(high) <= Len(high')
        /\ \A m \in Len(high) + 1 .. Len(high') : high'[m].kind \notin QueueKind
        /\ \A m \in 1 .. Len(high) : high'[m] = high[m]
        /\ \A kind \in QueueKind : inHand' = inHand \/ (inHand.kind # kind /\ inHand'.kind # kind)
    BY LenProperties DEF QueueKind, IInv, BusInv
  <2>2. "OrderRequested" \in QueueKind /\ "FillEvent" \in QueueKind
    BY DEF QueueKind
  <2> QED
    BY <2>1, <2>2, QueuedAside DEF Progress, Lanes
<1>3. \A e \in HighEvent : InFlight(e)' => InFlight(e)
  BY NothingIsNone DEF InFlight, OrderKind
<1>4. Lanes(t, r, n)'
  BY <1>2, <1>3 DEF Progress, Lanes
<1>5. \A i \in Instrument : Booked(t, r, n, i)'
  BY DEF Progress, Booked, Bought
<1> QED
  BY <1>1, <1>4, <1>5 DEF Progress

\* What is taken from the bus is in hand.
LEMMA QueuedTake ==
  ASSUME IInv, IInv', NEW kind \in QueueKind, NEW a \in Nat, NEW b \in Nat, Queued(kind, a, b),
         high # <<>>, inHand = Nothing, inHand' = Head(high), high' = Tail(high)
  PROVE  Queued(kind, a, b)'
<1>1. /\ Len(high') = Len(high) - 1 /\ Len(high) \in Nat \ {0} /\ 1 \in 1 .. Len(high)
      /\ \A m \in 1 .. Len(high') : high'[m] = high[m + 1] /\ m + 1 \in 1 .. Len(high)
      /\ inHand' = high[1]
  BY TailMembers DEF IInv, BusInv
<1>2. \A e \in HighEvent : InFlight(e)' <=> InFlight(e)
  <2>1. \A e \in HighEvent : InFlight(e) <=> \E m \in 1 .. Len(high) : high[m] = e
    BY NothingIsNone DEF InFlight
  <2>2. \A e : InFlight(e)' => \E m \in 1 .. Len(high) : high[m] = e
    BY <1>1 DEF InFlight
  <2>3. ASSUME NEW e, NEW m \in 1 .. Len(high), high[m] = e
        PROVE  InFlight(e)'
    <3>1. CASE m = 1
      BY <1>1, <2>3, <3>1 DEF InFlight
    <3>2. CASE m # 1
      <4>1. m - 1 \in 1 .. Len(high') /\ (m - 1) + 1 = m
        BY <1>1, <3>2
      <4> QED
        BY <1>1, <2>3, <4>1 DEF InFlight
    <3> QED
      BY <3>1, <3>2
  <2> QED
    BY <2>1, <2>2, <2>3
<1>3. /\ \A k \in a + 1 .. b : \E e \in HighEvent : InFlight(e)' /\ e.kind = kind /\ e.order = k
      /\ \A e \in HighEvent : InFlight(e)' /\ e.kind = kind => e.order \in a + 1 .. b
  BY <1>2 DEF Queued
<1>4. \A m, n \in 1 .. Len(high') :
        m < n /\ high'[m].kind = kind /\ high'[n].kind = kind => high'[m].order < high'[n].order
  BY <1>1 DEF Queued
<1>5. inHand'.kind = kind =>
        \A m \in 1 .. Len(high') : high'[m].kind = kind => inHand'.order < high'[m].order
  BY <1>1 DEF Queued
<1> QED
  BY <1>3, <1>4, <1>5 DEF Queued

LEMMA ReportedAside ==
  ASSUME NEW i \in Instrument, Reported(i), UNCHANGED <<low, told, positions>>,
         inHand' = inHand \/ (inHand.kind # "PositionEvent" /\ inHand'.kind # "PositionEvent")
  PROVE  Reported(i)'
BY DEF Reported, LastFor, Tells

LEMMA ReportedTake ==
  ASSUME IInv, NEW i \in Instrument, Reported(i), UNCHANGED <<told, positions>>, low # <<>>,
         inHand = Nothing, inHand' = Head(low), low' = Tail(low)
  PROVE  Reported(i)'
<1>1. /\ Len(low') = Len(low) - 1 /\ Len(low) \in Nat \ {0} /\ 1 \in 1 .. Len(low)
      /\ \A m \in 1 .. Len(low') : low'[m] = low[m + 1] /\ m + 1 \in 1 .. Len(low)
      /\ inHand' = low[1] /\ inHand.kind # "PositionEvent"
  BY TailMembers, NothingIsNone DEF IInv, BusInv
<1>2. \A n \in 1 .. Len(low) : n = 1 \/ (n - 1 \in 1 .. Len(low') /\ low'[n - 1] = low[n])
  <2> SUFFICES ASSUME NEW n \in 1 .. Len(low), n # 1
               PROVE  n - 1 \in 1 .. Len(low') /\ low'[n - 1] = low[n]
    OBVIOUS
  <2>1. n - 1 \in 1 .. Len(low') /\ (n - 1) + 1 = n
    BY <1>1
  <2> QED
    BY <1>1, <2>1
<1>3. ASSUME NEW m \in 1 .. Len(low'), LastFor(i, m)'
      PROVE  low'[m].quantity = positions[i].quantity
  <2>1. Tells(low[m + 1], i) /\ m + 1 \in 1 .. Len(low)
    BY <1>1, <1>3 DEF LastFor
  <2>2. ASSUME NEW n \in 1 .. Len(low), m + 1 < n
        PROVE  ~Tells(low[n], i)
    <3>1. n - 1 \in 1 .. Len(low') /\ low'[n - 1] = low[n] /\ m < n - 1
      BY <1>1, <1>2, <2>2
    <3> QED
      BY <1>3, <3>1 DEF LastFor
  <2>3. LastFor(i, m + 1)
    BY <2>1, <2>2 DEF LastFor
  <2> QED
    BY <1>1, <2>1, <2>3 DEF Reported
<1>4. ASSUME \A m \in 1 .. Len(low') : ~Tells(low'[m], i)
      PROVE  /\ Tells(inHand', i) => inHand'.quantity = positions[i].quantity
             /\ ~Tells(inHand', i) => told[i] = positions[i].quantity
  <2>1. \A n \in 1 .. Len(low) : 1 < n => ~Tells(low[n], i)
    BY <1>1, <1>2, <1>4
  <2>2. CASE Tells(inHand', i)
    <3>1. LastFor(i, 1)
      BY <1>1, <2>1, <2>2 DEF LastFor
    <3> QED
      BY <1>1, <2>2, <3>1 DEF Reported
  <2>3. CASE ~Tells(inHand', i)
    <3>1. \A n \in 1 .. Len(low) : ~Tells(low[n], i)
      BY <1>1, <2>1, <2>3
    <3>2. ~Tells(inHand, i)
      BY <1>1 DEF Tells
    <3> QED
      BY <3>1, <3>2 DEF Reported
  <2> QED
    BY <2>2, <2>3
<1> QED
  BY <1>1, <1>3, <1>4 DEF Reported

LEMMA ReportedFill ==
  ASSUME IInv, NEW i \in Instrument, Reported(i), NEW j \in Instrument, NEW q \in Int,
         low' = Append(low, PositionEvent(j, q)), UNCHANGED told,
         i = j => positions'[i].quantity = q,
         i # j => positions'[i].quantity = positions[i].quantity,
         inHand.kind # "PositionEvent", inHand'.kind # "PositionEvent"
  PROVE  Reported(i)'
<1>1. PICK e : e = PositionEvent(j, q)
  OBVIOUS
<1>2. e \in LowEvent /\ Tells(e, j) /\ e.quantity = q /\ \A x : x # j => ~Tells(e, x)
  BY <1>1 DEF PositionEvent, LowEvent, Tells
<1>3. low \in Seq(LowEvent) /\ low' = Append(low, e)
  BY <1>1 DEF IInv, BusInv
<1>4. /\ Len(low') = Len(low) + 1 /\ Len(low) \in Nat
      /\ \A m \in 1 .. Len(low) : low'[m] = low[m]
      /\ low'[Len(low) + 1] = e
  BY <1>2, <1>3, AppendMembers
<1>5. \A m \in 1 .. Len(low') : m \in 1 .. Len(low) \/ m = Len(low) + 1
  BY <1>4
<1>6. CASE i = j
  <2>1. \A m \in 1 .. Len(low) : m < Len(low) + 1 /\ Len(low) + 1 \in 1 .. Len(low')
    BY <1>4
  <2>2. \A m \in 1 .. Len(low') : LastFor(i, m)' => m = Len(low) + 1
    BY <1>2, <1>4, <1>5, <1>6, <2>1 DEF LastFor
  <2>3. Len(low) + 1 \in 1 .. Len(low')
    BY <1>4
  <2> QED
    BY <1>2, <1>4, <1>6, <2>2, <2>3 DEF Reported
<1>7. CASE i # j
  <2>1. \A m \in 1 .. Len(low') : LastFor(i, m)' => m \in 1 .. Len(low) /\ LastFor(i, m)
    BY <1>2, <1>4, <1>5, <1>7 DEF LastFor
  <2>2. \A m \in 1 .. Len(low) : m \in 1 .. Len(low')
    BY <1>4
  <2>3. ~Tells(inHand, i) /\ ~Tells(inHand, i)'
    BY DEF Tells
  <2> QED
    BY <1>4, <1>7, <2>1, <2>2, <2>3 DEF Reported
<1> QED
  BY <1>6, <1>7

\* A signal tells nothing.
LEMMA ReportedSignal ==
  ASSUME IInv, NEW i \in Instrument, Reported(i), UNCHANGED <<told, positions, inHand>>,
         low' = Append(low, SignalEvent)
  PROVE  Reported(i)'
<1>1. ~Tells(SignalEvent, i)
  BY NothingIsNone DEF Tells
<1>2. /\ Len(low') = Len(low) + 1 /\ Len(low) \in Nat
      /\ \A m \in 1 .. Len(low) : low'[m] = low[m]
      /\ low'[Len(low) + 1] = SignalEvent
  <2>1. low \in Seq(LowEvent) /\ SignalEvent \in LowEvent
    BY NothingIsNone DEF IInv, BusInv
  <2> QED
    BY <2>1, AppendMembers
<1>3. /\ \A m \in 1 .. Len(low') : m \in 1 .. Len(low) \/ m = Len(low) + 1
      /\ \A m \in 1 .. Len(low) : m \in 1 .. Len(low')
  BY <1>2
<1>4. \A m \in 1 .. Len(low') : LastFor(i, m)' => m \in 1 .. Len(low) /\ LastFor(i, m)
  BY <1>1, <1>2, <1>3 DEF LastFor
<1> QED
  BY <1>2, <1>3, <1>4 DEF Reported

LEMMA ReportedTold ==
  ASSUME IInv, NEW i \in Instrument, Reported(i), UNCHANGED <<low, positions>>,
         DOMAIN told = Instrument, inHand.kind = "PositionEvent", inHand' = Nothing,
         told' = [told EXCEPT ![inHand.instrument] = inHand.quantity]
  PROVE  Reported(i)'
<1>1. inHand'.kind # "PositionEvent"
  BY NothingIsNone
<1>2. told'[i] = IF i = inHand.instrument THEN inHand.quantity ELSE told[i]
  OBVIOUS
<1> QED
  BY <1>1, <1>2 DEF Reported, LastFor, Tells

LEMMA ExceptMembers ==
  ASSUME NEW S, NEW s \in Seq(S), NEW k \in 1 .. Len(s), NEW x \in S
  PROVE  /\ [s EXCEPT ![k] = x] \in Seq(S)
         /\ [s EXCEPT ![k] = x][k] = x
         /\ \A m \in 1 .. Len(s) : m # k => [s EXCEPT ![k] = x][m] = s[m]
         /\ DOMAIN [s EXCEPT ![k] = x] = 1 .. Len(s)
BY ExceptSeq, LenProperties

-------------------------------------------------------------------------------
(* The stages, step by step *)

LEMMA InitSettle == Init => SettleInv
<1> SUFFICES ASSUME Init PROVE SettleInv
  OBVIOUS
<1>1. Stages(0, 0, 0)
  BY DEF Init, Stages
<1>2. Lanes(0, 0, 0)
  BY NothingIsNone DEF Init, Lanes, Queued, InFlight
<1>3. ASSUME NEW i \in Instrument PROVE Booked(0, 0, 0, i)
  <2>1. PICK p : p = [k \in 0 .. 0 |-> 0]
    OBVIOUS
  <2>2. p \in [0 .. 0 -> Int] /\ p[0] = 0
    BY <2>1
  <2>3. positions[i].quantity = 0 /\ venuePositions[i] = 0
    BY DEF Init, Flat
  <2> QED
    BY <2>2, <2>3 DEF Booked
<1>4. ASSUME NEW i \in Instrument PROVE Reported(i)
  <2>1. positions[i].quantity = 0 /\ told[i] = 0
    BY DEF Init, Flat
  <2> QED
    BY <2>1, NothingIsNone DEF Init, Reported, Tells
<1>5. Progress(0, 0, 0)
  BY <1>1, <1>2, <1>3 DEF Progress
<1> QED
  BY <1>4, <1>5 DEF Init, SettleInv

\* A bus that has been stopped stays so, and the engine does not go on.
LEMMA StoppedInv ==
  ASSUME SettleInv, [Next]_vars
  PROVE  /\ ~running' => phase' \in {"draining", "done"}
         /\ running' => running
<1>1. CASE Engine
  BY <1>1 DEF SettleInv, Engine, OnStartReturns, FeedBar, JoinReturns, OnStopReturns, RunReturns,
              busVars
<1>2. CASE Dispatch
  BY <1>2 DEF SettleInv, Dispatch, TakeEvent, GetTimesOut, RouteOrder, RouteOrderRefused,
              OwnOrderSubmitted, OnOrderAccepted, OnFill, OnBar, OnSignal, OnPosition, engineVars
<1>3. CASE TimerFires
  BY <1>3 DEF SettleInv, TimerFires, busVars
<1>4. CASE \E i \in Instrument, qty \in Quantity, price \in LimitPrice \cup {NoPrice} :
             RequestOrder(i, qty, price)
  BY <1>4 DEF SettleInv, RequestOrder, engineVars
<1>5. CASE EmitSignal \/ UNCHANGED vars
  BY <1>5 DEF SettleInv, EmitSignal, vars, engineVars, busVars
<1> QED
  BY <1>1, <1>2, <1>3, <1>4, <1>5 DEF Next

\* The steps of the engine, and the ends of handlers that ordered nothing.
LEMMA Aside_Settle ==
  ASSUME IInv, IInv', SettleInv, running', running,
         Engine \/ TimerFires \/ GetTimesOut \/ OwnOrderSubmitted \/ OnBar \/ OnSignal
           \/ UNCHANGED vars
  PROVE  SettleInv'
<1>1. /\ UNCHANGED <<requests, orders, positions, venuePositions, trades, high, low, told>>
      /\ \/ inHand' = inHand
         \/ inHand.kind \in {"BarEvent", "SignalEvent", "OrderSubmitted"} /\ inHand' = Nothing
  <2>1. CASE Engine \/ TimerFires \/ GetTimesOut \/ UNCHANGED vars
    BY <2>1 DEF Engine, OnStartReturns, FeedBar, JoinReturns, OnStopReturns, RunReturns,
         TimerFires, GetTimesOut, vars, busVars, omsVars, logVars
  <2>2. CASE OwnOrderSubmitted \/ OnBar \/ OnSignal
    BY <2>2, NothingIsNone DEF OwnOrderSubmitted, OnBar, OnSignal, EventDone, omsVars, logVars
  <2> QED
    BY <2>1, <2>2
<1>2. \E t, r, n \in Nat : Progress(t, r, n)'
  <2>1. PICK t \in Nat, r \in Nat, n \in Nat : Progress(t, r, n)
    BY DEF SettleInv
  <2>2. Progress(t, r, n)'
    BY <1>1, <2>1, ProgressAside, NothingIsNone
  <2> QED
    BY <2>2
<1>3. \A i \in Instrument : Reported(i)'
  BY <1>1, ReportedAside, NothingIsNone DEF SettleInv
<1>4. DOMAIN venuePositions' = Instrument /\ DOMAIN told' = Instrument
  BY <1>1 DEF SettleInv
<1> QED
  BY <1>2, <1>3, <1>4 DEF SettleInv

LEMMA TakeEvent_Settle ==
  ASSUME IInv, IInv', SettleInv, running, TakeEvent
  PROVE  SettleInv'
<1>1. /\ UNCHANGED <<requests, orders, positions, venuePositions, trades, told, running>>
      /\ inHand = Nothing
  BY DEF TakeEvent, IInv, BusInv, omsVars, logVars
<1>2. PICK t \in Nat, r \in Nat, n \in Nat : Progress(t, r, n)
  BY DEF SettleInv
<1>3. DOMAIN venuePositions' = Instrument /\ DOMAIN told' = Instrument
  BY <1>1 DEF SettleInv
<1>4. CASE high # <<>> /\ Take(high) /\ high' = Tail(high) /\ UNCHANGED <<normal, low>>
  <2>1. inHand' = Head(high) /\ inHand' \in HighEvent
    BY <1>4, TailMembers DEF Take, IInv, BusInv
  <2>2. Queued("OrderRequested", r, n)' /\ Queued("FillEvent", t, r)'
    BY <1>1, <1>2, <1>4, <2>1, QueuedTake DEF Progress, Lanes, QueueKind
  <2>3. \A e \in HighEvent : InFlight(e)' => InFlight(e)
    <3>1. /\ inHand' = high[1]
          /\ \A m \in 1 .. Len(high') : high'[m] = high[m + 1] /\ m + 1 \in 1 .. Len(high)
          /\ 1 \in 1 .. Len(high)
      BY <1>4, TailMembers DEF IInv, BusInv, Take
    <3> QED
      BY <3>1 DEF InFlight
  <2>4. Lanes(t, r, n)'
    BY <1>2, <2>2, <2>3 DEF Progress, Lanes
  <2>5. Stages(t, r, n)' /\ \A i \in Instrument : Booked(t, r, n, i)'
    BY <1>1, <1>2 DEF Progress, Stages, Booked, Bought
  <2>6. Progress(t, r, n)'
    BY <2>4, <2>5 DEF Progress
  <2>7. \A i \in Instrument : Reported(i)'
    <3>1. inHand.kind # "PositionEvent" /\ inHand'.kind # "PositionEvent"
      BY <1>1, <2>1, NothingIsNone DEF OrderKind
    <3> QED
      BY <1>1, <1>4, <3>1, ReportedAside DEF SettleInv
  <2> QED
    BY <1>1, <1>3, <2>6, <2>7 DEF SettleInv
<1>5. CASE normal # <<>> /\ Take(normal) /\ normal' = Tail(normal) /\ UNCHANGED <<high, low>>
  <2>1. inHand' = BarEvent
    BY <1>5, TailMembers DEF Take, IInv, BusInv
  <2>2. Progress(t, r, n)'
    BY <1>1, <1>2, <1>5, <2>1, ProgressAside, NothingIsNone
  <2>3. \A i \in Instrument : Reported(i)'
    <3>1. inHand.kind # "PositionEvent" /\ inHand'.kind # "PositionEvent"
      BY <1>1, <2>1, NothingIsNone
    <3> QED
      BY <1>1, <1>5, <3>1, ReportedAside DEF SettleInv
  <2> QED
    BY <1>1, <1>3, <2>2, <2>3 DEF SettleInv
<1>6. CASE low # <<>> /\ Take(low) /\ low' = Tail(low) /\ UNCHANGED <<high, normal>>
  <2>1. inHand' \in LowEvent /\ inHand' = Head(low)
    BY <1>6, TailMembers DEF Take, IInv, BusInv
  <2>2. Progress(t, r, n)'
    BY <1>1, <1>2, <1>6, <2>1, ProgressAside, NothingIsNone
  <2>3. \A i \in Instrument : Reported(i)'
    BY <1>1, <1>6, <2>1, ReportedTake DEF SettleInv
  <2> QED
    BY <1>1, <1>3, <2>2, <2>3 DEF SettleInv
<1> QED
  BY <1>4, <1>5, <1>6 DEF TakeEvent

\* One order more has been requested.
LEMMA RequestOrder_Settle ==
  ASSUME IInv, IInv', SettleInv,
         NEW i \in Instrument, NEW qty \in Quantity, NEW price \in LimitPrice \cup {NoPrice},
         RequestOrder(i, qty, price)
  PROVE  SettleInv'
<1> DEFINE request == [instrument |-> i, qty |-> qty, price |-> price, after |-> fed]
           event == OrderEvent("OrderRequested", Len(requests) + 1)
<1>1. /\ requests' = Append(requests, request) /\ orders' = Append(orders, Unknown)
      /\ high' = Append(high, event)
      /\ UNCHANGED <<positions, venuePositions, trades, told, low, inHand, running>> /\ running
  BY DEF RequestOrder, logVars
<1>2. PICK t \in Nat, r \in Nat, n \in Nat : Progress(t, r, n)
  BY <1>1 DEF SettleInv
<1>3. /\ requests \in Seq(Priced) /\ request \in Priced /\ high \in Seq(HighEvent)
      /\ orders \in Seq(OrderState \cup {Unknown}) /\ Len(orders) = Len(requests)
      /\ t <= r /\ r <= n /\ n = Len(requests)
  BY <1>2, LenProperties DEF Priced, IInv, OrderInv, BusInv, EngineInv, Progress, Stages
<1>4. event \in HighEvent /\ event.order = n + 1 /\ event.kind = "OrderRequested"
  BY <1>3 DEF OrderEvent, HighEvent, OrderKind
<1> HIDE DEF request, event
<1>5. /\ \A k \in 1 .. n : requests'[k] = requests[k]
      /\ Len(requests') = n + 1 /\ n \in Nat
  BY <1>1, <1>3, AppendMembers
<1>6. /\ \A k \in 1 .. n : orders'[k] = orders[k]
      /\ orders'[n + 1] = Unknown /\ orders' \in Seq(OrderState \cup {Unknown})
  <2>1. Unknown \in OrderState \cup {Unknown}
    OBVIOUS
  <2>2. PICK S : S = OrderState \cup {Unknown}
    OBVIOUS
  <2>3. /\ orders' \in Seq(S) /\ \A k \in 1 .. Len(orders) : orders'[k] = orders[k]
        /\ orders'[Len(orders) + 1] = Unknown
    BY <1>1, <1>3, <2>1, <2>2, AppendMembers
  <2> QED
    BY <1>3, <2>2, <2>3
<1>7. Stages(t, r, n + 1)'
  <2>1. /\ \A k \in 1 .. r : k \in 1 .. n
        /\ \A k \in 1 .. t : k \in 1 .. n
        /\ \A k \in t + 1 .. r : k \in 1 .. n
        /\ \A k \in r + 1 .. n + 1 : k = n + 1 \/ (k \in r + 1 .. n /\ k \in 1 .. n)
        /\ r <= n + 1
    BY <1>3
  <2>2. Stages(t, r, n)
    BY <1>2 DEF Progress
  <2> QED
    BY <1>1, <1>5, <1>6, <2>1, <2>2 DEF Stages
<1>8. /\ Len(high') = Len(high) + 1 /\ Len(high) \in Nat
      /\ \A m \in 1 .. Len(high) : high'[m] = high[m]
      /\ high'[Len(high) + 1] = event
      /\ \A m \in 1 .. Len(high) + 1 : m \in 1 .. Len(high) \/ m = Len(high) + 1
  BY <1>1, <1>3, <1>4, AppendMembers
<1>9. Lanes(t, r, n + 1)'
  <2> DEFINE j == Len(high) + 1
  <2>1. /\ Len(high) <= Len(high') /\ j \in Len(high) + 1 .. Len(high')
        /\ \A m \in Len(high) + 1 .. Len(high') : m = j
        /\ high'[j] = event
    BY <1>8
  <2> HIDE DEF j
  <2>2. Queued("OrderRequested", r, n) /\ Queued("FillEvent", t, r)
    BY <1>2 DEF Progress, Lanes
  <2>3. Queued("OrderRequested", r, n + 1)'
    BY <1>1, <1>3, <1>4, <1>8, <2>1, <2>2, QueuedAdd DEF QueueKind
  <2>4. Queued("FillEvent", t, r)'
    <3>1. "FillEvent" \in QueueKind /\ event.kind # "FillEvent"
      BY <1>4 DEF QueueKind
    <3> QED
      BY <1>1, <1>8, <2>1, <2>2, <3>1, QueuedAside
  <2>5. \A e \in HighEvent : InFlight(e)' => InFlight(e) \/ e = event
    BY <1>1, <1>8 DEF InFlight
  <2> QED
    BY <1>2, <1>4, <2>3, <2>4, <2>5 DEF Progress, Lanes
<1>10. ASSUME NEW x \in Instrument
       PROVE  Booked(t, r, n + 1, x)'
  <2>1. PICK p \in [0 .. n -> Int] : /\ \A k \in 1 .. n : p[k] = p[k - 1] + Bought(k, x)
                                     /\ p[t] = positions[x].quantity
                                     /\ p[r] = venuePositions[x]
    BY <1>2 DEF Progress, Booked
  <2>2. PICK b : b = Bought(n + 1, x)'
    OBVIOUS
  <2>3. b \in Int
    <3>1. requests'[n + 1] \in Priced
      BY <1>1, <1>3, AppendMembers
    <3>2. requests'[n + 1].qty \in Int
      BY <3>1, OrderAssumption DEF Priced
    <3>3. b = IF requests'[n + 1].instrument = x THEN requests'[n + 1].qty ELSE 0
      BY <2>2 DEF Bought
    <3> QED
      BY <3>2, <3>3
  <2>4. PICK q : q = [k \in 0 .. n + 1 |-> IF k <= n THEN p[k] ELSE p[n] + b]
    OBVIOUS
  <2>5. /\ \A k \in 0 .. n : q[k] = p[k] /\ p[k] \in Int
        /\ q[n + 1] = p[n] + b
    BY <1>5, <2>1, <2>4
  <2>6. q \in [0 .. n + 1 -> Int]
    <3>1. \A k \in 0 .. n + 1 : (IF k <= n THEN p[k] ELSE p[n] + b) \in Int
      BY <1>5, <2>3, <2>5
    <3> QED
      BY <2>4, <3>1
  <2>7. \A k \in 1 .. n : Bought(k, x)' = Bought(k, x)
    BY <1>5 DEF Bought
  <2>8. \A k \in 1 .. n + 1 : q[k] = q[k - 1] + Bought(k, x)'
    <3> SUFFICES ASSUME NEW k \in 1 .. n + 1 PROVE q[k] = q[k - 1] + Bought(k, x)'
      OBVIOUS
    <3>1. CASE k \in 1 .. n
      <4>1. k - 1 \in 0 .. n /\ k \in 0 .. n
        BY <1>5, <3>1
      <4>2. p[k] = p[k - 1] + Bought(k, x)
        BY <2>1, <3>1
      <4> QED
        BY <2>5, <2>7, <3>1, <4>1, <4>2
    <3>2. CASE k = n + 1
      <4>1. k - 1 = n /\ n \in 0 .. n
        BY <1>5, <3>2
      <4> QED
        BY <2>2, <2>5, <3>2, <4>1
    <3> QED
      BY <1>5, <3>1, <3>2
  <2>9. q[t] = positions'[x].quantity /\ q[r] = venuePositions'[x]
    <3>1. t \in 0 .. n /\ r \in 0 .. n
      BY <1>3
    <3> QED
      BY <1>1, <2>1, <2>5, <3>1
  <2> QED
    BY <2>6, <2>8, <2>9 DEF Booked
<1>11. \A x \in Instrument : Reported(x)'
  BY <1>1, ReportedAside DEF SettleInv
<1>12. Progress(t, r, n + 1)' /\ n + 1 \in Nat
  BY <1>5, <1>7, <1>9, <1>10 DEF Progress
<1>13. \E a, b, c \in Nat : Progress(a, b, c)'
  BY <1>12
<1> QED
  BY <1>1, <1>11, <1>13 DEF SettleInv

\* The venue takes and fills the next order.
LEMMA RouteOrder_Settle ==
  ASSUME IInv, IInv', SettleInv, RouteOrder
  PROVE  SettleInv'
<1> DEFINE k == inHand.order
           price == RoutedPrice(requests[k])
           a == OrderEvent("OrderAccepted", k)
           f == FillEvent(k, price)
           s == OrderEvent("OrderSubmitted", k)
           request == requests[k]
<1>1. /\ UNCHANGED <<requests, positions, trades, low, told, running>> /\ running
      /\ orders' = [orders EXCEPT ![k] = AfterSubmit(NewOrder)]
      /\ venuePositions' = [venuePositions EXCEPT ![request.instrument] = @ + request.qty]
      /\ high' = high \o <<a, f, s>> /\ inHand' = Nothing
      /\ inHand.kind = "OrderRequested"
  BY DEF RouteOrder, EventDone, logVars
<1>2. inHand \in HighEvent /\ k \in Nat /\ k \in DOMAIN requests
  BY <1>1, NothingIsNone DEF IInv, BusInv, OrderInv, InFlight
<1>3. price \in Nat
  BY <1>2, RoutedPriceKnown DEF IInv
<1> HIDE DEF price
<1>4. a \in HighEvent /\ f \in HighEvent /\ s \in HighEvent
  BY <1>2, <1>3 DEF OrderEvent, FillEvent, HighEvent, OrderKind
<1>5. /\ a.order = k /\ f.order = k /\ s.order = k
      /\ a.kind = "OrderAccepted" /\ f.kind = "FillEvent" /\ s.kind = "OrderSubmitted"
  BY DEF OrderEvent, FillEvent
<1> HIDE DEF a, f, s
<1>6. /\ Len(high') = Len(high) + 3 /\ Len(high) \in Nat
      /\ \A m \in 1 .. Len(high) : high'[m] = high[m]
      /\ high'[Len(high) + 1] = a /\ high'[Len(high) + 2] = f /\ high'[Len(high) + 3] = s
      /\ \A m \in 1 .. Len(high) + 3 : m \in 1 .. Len(high) \/ m = Len(high) + 1
                                       \/ m = Len(high) + 2 \/ m = Len(high) + 3
  <2>1. high \in Seq(HighEvent)
    BY DEF IInv, BusInv
  <2> QED
    BY <1>1, <1>4, <2>1, ThreeMembers
<1>7. PICK t \in Nat, r \in Nat, n \in Nat : Progress(t, r, n)
  BY <1>1 DEF SettleInv
<1>8. Stages(t, r, n) /\ Lanes(t, r, n) /\ t <= r /\ r <= n /\ n = Len(requests)
  BY <1>7 DEF Progress, Stages
<1>9. /\ Len(high) <= Len(high')
      /\ \A m \in Len(high) + 1 .. Len(high') :
           m = Len(high) + 1 \/ m = Len(high) + 2 \/ m = Len(high) + 3
  BY <1>6
<1>10. k = r + 1 /\ r + 1 <= n /\ Queued("OrderRequested", r + 1, n)'
  <2>1. \A m \in Len(high) + 1 .. Len(high') : high'[m].kind # "OrderRequested"
    BY <1>5, <1>6, <1>9
  <2> QED
    BY <1>1, <1>6, <1>8, <1>9, <2>1, QueuedDone DEF Lanes, QueueKind
<1>11. Queued("FillEvent", t, r + 1)'
  <2> DEFINE j == Len(high) + 2
  <2>1. j \in Len(high) + 1 .. Len(high') /\ high'[j] = f
    BY <1>6
  <2>2. \A m \in Len(high) + 1 .. Len(high') : m # j => high'[m].kind # "FillEvent"
    BY <1>5, <1>6, <1>9
  <2>3. inHand.kind # "FillEvent" /\ inHand' = Nothing
    BY <1>1
  <2> HIDE DEF j
  <2> QED
    BY <1>5, <1>6, <1>8, <1>9, <1>10, <2>1, <2>2, <2>3, QueuedAdd DEF Lanes, QueueKind
<1>12. \A e \in HighEvent : InFlight(e)' => InFlight(e) \/ e \in {a, f, s}
  BY <1>1, <1>6, NothingIsNone DEF InFlight
<1>13. Lanes(t, r + 1, n)'
  <2>1. \A e \in HighEvent : InFlight(e)' /\ e.kind = "OrderAccepted" => e.order \in 1 .. r + 1
    <3> SUFFICES ASSUME NEW e \in HighEvent, InFlight(e)', e.kind = "OrderAccepted"
                 PROVE  e.order \in 1 .. r + 1
      OBVIOUS
    <3>1. CASE InFlight(e)
      <4>1. e.order \in 1 .. r
        BY <1>8, <3>1 DEF Lanes
      <4> QED
        BY <4>1
    <3>2. CASE e = a
      BY <1>5, <1>10, <3>2
    <3> QED
      BY <1>5, <1>12, <3>1, <3>2
  <2> QED
    BY <1>10, <1>11, <2>1 DEF Lanes
<1>14. Stages(t, r + 1, n)'
  <2>1. PICK new : new = AfterSubmit(NewOrder)
    OBVIOUS
  <2>2. new \in OrderState /\ new.status = "SUBMITTED" /\ new.filled = 0
    BY <2>1, Lifecycle
  <2>3. /\ orders' \in Seq(OrderState \cup {Unknown})
        /\ orders'[r + 1] = new
        /\ \A m \in 1 .. n : m # r + 1 => orders'[m] = orders[m]
    <3>1. PICK S : S = OrderState \cup {Unknown}
      OBVIOUS
    <3>2. orders \in Seq(S) /\ Len(orders) = n /\ new \in S /\ r + 1 \in 1 .. n
      BY <1>8, <1>10, <2>2, <3>1, LenProperties DEF Stages, IInv, OrderInv
    <3>3. orders' = [orders EXCEPT ![r + 1] = new]
      BY <1>1, <1>10, <2>1
    <3> QED
      BY <3>1, <3>2, <3>3, ExceptMembers
  <2>4. /\ \A m \in 1 .. r + 1 : m = r + 1 \/ (m \in 1 .. r /\ m # r + 1 /\ m \in 1 .. n)
        /\ \A m \in r + 1 + 1 .. n : m \in r + 1 .. n /\ m # r + 1 /\ m \in 1 .. n
        /\ \A m \in 1 .. t : m # r + 1 /\ m \in 1 .. n
        /\ \A m \in t + 1 .. r + 1 : m = r + 1 \/ (m \in t + 1 .. r /\ m # r + 1 /\ m \in 1 .. n)
        /\ t <= r + 1
    BY <1>8, <1>10
  <2> QED
    BY <1>1, <1>8, <1>10, <2>2, <2>3, <2>4 DEF Stages
<1>15. ASSUME NEW x \in Instrument
       PROVE  Booked(t, r + 1, n, x)'
  <2>1. PICK p \in [0 .. n -> Int] : /\ \A m \in 1 .. n : p[m] = p[m - 1] + Bought(m, x)
                                     /\ p[t] = positions[x].quantity
                                     /\ p[r] = venuePositions[x]
    BY <1>7 DEF Progress, Booked
  <2>2. p[r + 1] = p[r] + Bought(r + 1, x) /\ p[r] \in Int
    <3>1. r + 1 \in 1 .. n /\ (r + 1) - 1 = r /\ r \in 0 .. n
      BY <1>8, <1>10
    <3> QED
      BY <2>1, <3>1
  <2>3. venuePositions'[x] = p[r + 1]
    <3>1. DOMAIN venuePositions = Instrument
      BY <1>1 DEF SettleInv
    <3>2. venuePositions'[x] = IF request.instrument = x THEN venuePositions[x] + request.qty
                               ELSE venuePositions[x]
      BY <1>1, <3>1
    <3> QED
      BY <1>10, <2>1, <2>2, <3>2 DEF Bought
  <2>4. \A m : Bought(m, x)' = Bought(m, x)
    BY <1>1 DEF Bought
  <2> QED
    BY <1>1, <2>1, <2>3, <2>4 DEF Booked
<1>16. \A x \in Instrument : Reported(x)'
  <2>1. inHand.kind # "PositionEvent" /\ inHand'.kind # "PositionEvent"
    BY <1>1, NothingIsNone
  <2> QED
    BY <1>1, <2>1, ReportedAside DEF SettleInv
<1>17. Progress(t, r + 1, n)' /\ r + 1 \in Nat
  BY <1>13, <1>14, <1>15 DEF Progress
<1>18. \E b, c, d \in Nat : Progress(b, c, d)'
  BY <1>17
<1>19. DOMAIN venuePositions' = Instrument /\ DOMAIN told' = Instrument
  BY <1>1 DEF SettleInv
<1> QED
  BY <1>1, <1>16, <1>18, <1>19 DEF SettleInv

\* The venue's acceptance reaches the OMS before or after the fill.
LEMMA OnOrderAccepted_Settle ==
  ASSUME IInv, IInv', SettleInv, running, OnOrderAccepted
  PROVE  SettleInv'
<1> DEFINE k == inHand.order
<1>1. /\ UNCHANGED <<requests, positions, venuePositions, trades, low, high, told, running>>
      /\ orders' = [orders EXCEPT ![k] = AfterAccepted(@)]
      /\ inHand.kind = "OrderAccepted" /\ inHand' = Nothing
  BY DEF OnOrderAccepted, EventDone, logVars
<1>2. inHand \in HighEvent /\ InFlight(inHand)
  BY <1>1, NothingIsNone DEF IInv, BusInv, InFlight
<1>3. PICK t \in Nat, r \in Nat, n \in Nat : Progress(t, r, n)
  BY DEF SettleInv
<1>4. Stages(t, r, n) /\ Lanes(t, r, n) /\ t <= r /\ r <= n /\ n = Len(requests)
  BY <1>3 DEF Progress, Stages
<1>5. k \in 1 .. r
  BY <1>1, <1>2, <1>4 DEF Lanes
<1>6. Queued("OrderRequested", r, n)' /\ Queued("FillEvent", t, r)'
  <2>1. /\ Len(high) <= Len(high')
        /\ \A m \in Len(high) + 1 .. Len(high') : high'[m].kind \notin QueueKind
        /\ \A m \in 1 .. Len(high) : high'[m] = high[m]
        /\ \A kind \in QueueKind : inHand.kind # kind /\ inHand'.kind # kind
    BY <1>1, LenProperties, NothingIsNone DEF QueueKind, IInv, BusInv
  <2>2. "OrderRequested" \in QueueKind /\ "FillEvent" \in QueueKind
    BY DEF QueueKind
  <2> QED
    BY <1>4, <2>1, <2>2, QueuedAside DEF Lanes
<1>7. \A e \in HighEvent : InFlight(e)' => InFlight(e)
  BY <1>1, NothingIsNone DEF InFlight
<1>8. Lanes(t, r, n)'
  BY <1>4, <1>6, <1>7 DEF Lanes
<1>9. Stages(t, r, n)'
  <2>1. orders[k] \in OrderState
    BY <1>4, <1>5 DEF Stages
  <2>2. PICK new : new = AfterAccepted(orders[k])
    OBVIOUS
  <2>3. /\ new \in OrderState /\ new.filled = orders[k].filled
        /\ orders[k].status \in {"SUBMITTED", "ACCEPTED"} => new.status = "ACCEPTED"
        /\ orders[k].status = "FILLED" => new.status = "FILLED"
    BY <2>1, <2>2, Lifecycle
  <2>4. /\ orders' \in Seq(OrderState \cup {Unknown})
        /\ orders'[k] = new
        /\ \A m \in 1 .. n : m # k => orders'[m] = orders[m]
    <3>1. PICK S : S = OrderState \cup {Unknown}
      OBVIOUS
    <3>2. orders \in Seq(S) /\ Len(orders) = n /\ new \in S /\ k \in 1 .. n
      BY <1>4, <1>5, <2>3, <3>1, LenProperties DEF Stages, IInv, OrderInv
    <3>3. orders' = [orders EXCEPT ![k] = new]
      BY <1>1, <2>2
    <3> HIDE DEF k
    <3> QED
      BY <3>1, <3>2, <3>3, ExceptMembers
  <2> HIDE DEF k
  <2>5. /\ \A m \in 1 .. r : m \in 1 .. n
        /\ \A m \in r + 1 .. n : m # k /\ m \in 1 .. n
        /\ \A m \in 1 .. t : m \in 1 .. n
        /\ \A m \in t + 1 .. r : m \in 1 .. n
    BY <1>4, <1>5
  <2>6. orders' \in Seq(OrderState \cup {Unknown}) /\ \A m \in 1 .. r : orders'[m] \in OrderState
    BY <1>4, <2>3, <2>4, <2>5 DEF Stages
  <2>7. \A m \in r + 1 .. n : orders'[m] = Unknown
    BY <1>4, <2>4, <2>5 DEF Stages
  <2>8. \A m \in 1 .. t : /\ trades'[m].order = m /\ orders'[m].status = "FILLED"
                          /\ orders'[m].filled = Abs(requests'[m].qty)
    BY <1>1, <1>4, <2>3, <2>4, <2>5 DEF Stages
  <2>9. \A m \in t + 1 .. r : /\ orders'[m].status \in {"SUBMITTED", "ACCEPTED"}
                              /\ orders'[m].filled = 0
    BY <1>4, <2>3, <2>4, <2>5 DEF Stages
  <2>10. t = Len(trades') /\ n = Len(requests')
    BY <1>1, <1>4 DEF Stages
  <2> QED
    BY <1>4, <2>6, <2>7, <2>8, <2>9, <2>10 DEF Stages
<1>10. \A x \in Instrument : Booked(t, r, n, x)'
  BY <1>1, <1>3 DEF Progress, Booked, Bought
<1>11. \A x \in Instrument : Reported(x)'
  <2>1. inHand.kind # "PositionEvent" /\ inHand'.kind # "PositionEvent"
    BY <1>1, NothingIsNone
  <2> QED
    BY <1>1, <2>1, ReportedAside DEF SettleInv
<1>12. Progress(t, r, n)'
  BY <1>8, <1>9, <1>10 DEF Progress
<1>13. \E b, c, d \in Nat : Progress(b, c, d)'
  BY <1>12
<1>14. DOMAIN venuePositions' = Instrument /\ DOMAIN told' = Instrument
  BY <1>1 DEF SettleInv
<1> QED
  BY <1>1, <1>11, <1>13, <1>14 DEF SettleInv

LEMMA OnPosition_Settle ==
  ASSUME IInv, IInv', SettleInv, running, OnPosition
  PROVE  SettleInv'
<1>1. /\ UNCHANGED <<requests, orders, positions, venuePositions, trades, high, low, running>>
      /\ told' = [told EXCEPT ![inHand.instrument] = inHand.quantity]
      /\ inHand.kind = "PositionEvent" /\ inHand' = Nothing
  BY DEF OnPosition, EventDone, omsVars, logVars
<1>2. inHand.kind = "PositionEvent"
  BY <1>1
<1>3. PICK t \in Nat, r \in Nat, n \in Nat : Progress(t, r, n)
  BY DEF SettleInv
<1>4. Progress(t, r, n)'
  BY <1>1, <1>3, ProgressAside, NothingIsNone
<1>5. \A i \in Instrument : Reported(i)'
  BY <1>1, <1>2, ReportedTold DEF SettleInv
<1>6. DOMAIN venuePositions' = Instrument /\ DOMAIN told' = Instrument
  BY <1>1 DEF SettleInv
<1> QED
  BY <1>1, <1>4, <1>5, <1>6 DEF SettleInv

\* The trade log and the OMS book the next fill.
LEMMA OnFill_Settle ==
  ASSUME IInv, IInv', SettleInv, running, OnFill
  PROVE  SettleInv'
<1> DEFINE k == inHand.order
           request == requests[k]
           cost == inHand.price * Abs(request.qty) * CommissionRate
           trade == [time |-> now, order |-> k, qty |-> request.qty,
                     instrument |-> request.instrument,
                     price |-> inHand.price, commission |-> cost]
<1>1. /\ UNCHANGED <<requests, venuePositions, high, told, running>>
      /\ trades' = Append(trades, trade)
      /\ orders' = [orders EXCEPT ![k] = AfterFill(@, Abs(request.qty), "FILLED")]
      /\ positions' = [positions EXCEPT ![request.instrument] =
                         UpdatePosition(@, request.qty, inHand.price)]
      /\ low' = Append(low, PositionEvent(request.instrument,
                                          positions'[request.instrument].quantity))
      /\ inHand' = Nothing /\ inHand.kind = "FillEvent"
  BY DEF OnFill, EventDone
<1>2. inHand \in HighEvent /\ k \in Nat /\ k \in DOMAIN requests
  BY <1>1, NothingIsNone DEF IInv, BusInv, OrderInv, InFlight
<1>3. request.qty \in Int /\ request.instrument \in Instrument
  <2>1. request \in Priced
    BY <1>2, ElementOfSeq, LenProperties DEF IInv, OrderInv
  <2> QED
    BY <2>1, OrderAssumption DEF Priced
<1>4. /\ Len(trades') = Len(trades) + 1 /\ Len(trades) \in Nat
      /\ \A m \in 1 .. Len(trades) : trades'[m] = trades[m]
      /\ trades'[Len(trades) + 1].order = k
  <2>1. trade.order = k
    OBVIOUS
  <2>2. trades \in Seq(Trade) /\ trades' \in Seq(Trade)
    BY DEF IInv, TradesInv
  <2> HIDE DEF trade
  <2>3. PICK S : S = Trade \cup {trade}
    OBVIOUS
  <2>4. trades \in Seq(S) /\ trade \in S
    BY <2>2, <2>3
  <2> QED
    BY <1>1, <2>1, <2>4, AppendMembers
<1> HIDE DEF trade
<1>5. PICK t \in Nat, r \in Nat, n \in Nat : Progress(t, r, n)
  BY DEF SettleInv
<1>6. Stages(t, r, n) /\ Lanes(t, r, n) /\ t <= r /\ r <= n /\ n = Len(requests) /\ t = Len(trades)
  BY <1>5 DEF Progress, Stages
<1>7. /\ Len(high) <= Len(high')
      /\ \A m \in Len(high) + 1 .. Len(high') : high'[m].kind \notin QueueKind
      /\ \A m \in 1 .. Len(high) : high'[m] = high[m]
  BY <1>1, LenProperties DEF IInv, BusInv
<1>8. k = t + 1 /\ t + 1 <= r /\ Queued("FillEvent", t + 1, r)'
  <2>1. "FillEvent" \in QueueKind
    BY DEF QueueKind
  <2> QED
    BY <1>1, <1>6, <1>7, <2>1, QueuedDone DEF Lanes
<1>9. Queued("OrderRequested", r, n)'
  <2>1. "OrderRequested" \in QueueKind /\ inHand.kind # "OrderRequested"
        /\ inHand'.kind # "OrderRequested"
    BY <1>1, NothingIsNone DEF QueueKind
  <2> QED
    BY <1>6, <1>7, <2>1, QueuedAside DEF Lanes
<1>10. Lanes(t + 1, r, n)'
  <2>1. \A e \in HighEvent : InFlight(e)' => InFlight(e)
    BY <1>1, NothingIsNone DEF InFlight
  <2> QED
    BY <1>6, <1>8, <1>9, <2>1 DEF Lanes
<1>11. Stages(t + 1, r, n)'
  <2>1. /\ orders[t + 1] \in OrderState /\ orders[t + 1].filled = 0
        /\ orders[t + 1].status \in {"SUBMITTED", "ACCEPTED"}
    <3>1. t + 1 \in 1 .. r /\ t + 1 \in t + 1 .. r
      BY <1>8
    <3> QED
      BY <1>6, <3>1 DEF Stages
  <2>2. PICK new : new = AfterFill(orders[t + 1], Abs(requests[t + 1].qty), "FILLED")
    OBVIOUS
  <2>3. /\ new \in OrderState /\ new.status = "FILLED"
        /\ new.filled = Abs(requests[t + 1].qty)
    <3>1. PICK q : q = Abs(requests[t + 1].qty)
      OBVIOUS
    <3>2. q \in Nat
      BY <1>3, <1>8, <3>1 DEF Abs
    <3>3. new \in OrderState /\ new.status = "FILLED" /\ new.filled = orders[t + 1].filled + q
      BY <2>1, <2>2, <3>1, <3>2, LifecycleFill
    <3> QED
      BY <2>1, <3>1, <3>2, <3>3
  <2>4. /\ orders' \in Seq(OrderState \cup {Unknown})
        /\ orders'[t + 1] = new
        /\ \A m \in 1 .. n : m # t + 1 => orders'[m] = orders[m]
    <3>1. PICK S : S = OrderState \cup {Unknown}
      OBVIOUS
    <3>2. orders \in Seq(S) /\ Len(orders) = n /\ new \in S /\ t + 1 \in 1 .. n
      BY <1>6, <1>8, <2>3, <3>1, LenProperties DEF Stages, IInv, OrderInv
    <3>3. orders' = [orders EXCEPT ![t + 1] = new]
      BY <1>1, <1>8, <2>2
    <3> QED
      BY <3>1, <3>2, <3>3, ExceptMembers
  <2>5. /\ \A m \in 1 .. r : m \in 1 .. n
        /\ \A m \in r + 1 .. n : m # t + 1 /\ m \in 1 .. n
        /\ \A m \in 1 .. t + 1 : m = t + 1 \/ (m # t + 1 /\ m \in 1 .. t /\ m \in 1 .. n)
        /\ \A m \in t + 1 + 1 .. r : m # t + 1 /\ m \in t + 1 .. r /\ m \in 1 .. n
    BY <1>6, <1>8
  <2>6. \A m \in 1 .. r : orders'[m] \in OrderState
    BY <1>6, <2>3, <2>4, <2>5 DEF Stages
  <2>7. \A m \in r + 1 .. n : orders'[m] = Unknown
    BY <1>6, <2>4, <2>5 DEF Stages
  <2>8. \A m \in 1 .. t + 1 : /\ trades'[m].order = m /\ orders'[m].status = "FILLED"
                              /\ orders'[m].filled = Abs(requests'[m].qty)
    <3> SUFFICES ASSUME NEW m \in 1 .. t + 1
                 PROVE  /\ trades'[m].order = m /\ orders'[m].status = "FILLED"
                        /\ orders'[m].filled = Abs(requests'[m].qty)
      OBVIOUS
    <3>1. CASE m = t + 1
      BY <1>1, <1>4, <1>6, <1>8, <2>3, <2>4, <3>1
    <3>2. CASE m # t + 1
      BY <1>1, <1>4, <1>6, <2>4, <2>5, <3>2 DEF Stages
    <3> QED
      BY <3>1, <3>2
  <2>9. \A m \in t + 1 + 1 .. r : /\ orders'[m].status \in {"SUBMITTED", "ACCEPTED"}
                                  /\ orders'[m].filled = 0
    BY <1>6, <2>4, <2>5 DEF Stages
  <2>10. t + 1 = Len(trades') /\ n = Len(requests')
    BY <1>1, <1>4, <1>6
  <2> QED
    BY <1>6, <1>8, <2>4, <2>6, <2>7, <2>8, <2>9, <2>10 DEF Stages
<1>12. \A x \in Instrument :
         positions'[x].quantity = IF request.instrument = x THEN positions[x].quantity + request.qty
                                  ELSE positions[x].quantity
  <2> SUFFICES ASSUME NEW x \in Instrument
               PROVE  positions'[x].quantity = IF request.instrument = x
                                               THEN positions[x].quantity + request.qty
                                               ELSE positions[x].quantity
    OBVIOUS
  <2>1. positions'[x] = IF x = request.instrument
                        THEN UpdatePosition(positions[x], request.qty, inHand.price)
                        ELSE positions[x]
    BY <1>1 DEF IInv, PositionsInv
  <2>2. UpdatePosition(positions[x], request.qty, inHand.price).quantity
          = positions[x].quantity + request.qty
    BY <1>3, UpdateShaped DEF IInv, PositionsInv
  <2> QED
    BY <2>1, <2>2
<1>13. ASSUME NEW x \in Instrument
       PROVE  Booked(t + 1, r, n, x)'
  <2>1. PICK p \in [0 .. n -> Int] : /\ \A m \in 1 .. n : p[m] = p[m - 1] + Bought(m, x)
                                     /\ p[t] = positions[x].quantity
                                     /\ p[r] = venuePositions[x]
    BY <1>5 DEF Progress, Booked
  <2>2. p[t + 1] = p[t] + Bought(t + 1, x) /\ p[t] \in Int
    <3>1. t + 1 \in 1 .. n /\ (t + 1) - 1 = t /\ t \in 0 .. n
      BY <1>6, <1>8
    <3> QED
      BY <2>1, <3>1
  <2>3. positions'[x].quantity = p[t + 1]
    <3>1. Bought(t + 1, x) = IF request.instrument = x THEN request.qty ELSE 0
      BY <1>8 DEF Bought
    <3> QED
      BY <1>12, <2>1, <2>2, <3>1
  <2>4. \A m : Bought(m, x)' = Bought(m, x)
    BY <1>1 DEF Bought
  <2> QED
    BY <1>1, <2>1, <2>3, <2>4 DEF Booked
<1>14. \A x \in Instrument : Reported(x)'
  <2>1. inHand.kind # "PositionEvent" /\ inHand'.kind # "PositionEvent"
    BY <1>1, NothingIsNone
  <2>2. PICK j \in Instrument : j = request.instrument
    BY <1>3
  <2>3. PICK q : q = positions'[j].quantity
    OBVIOUS
  <2>4. q \in Int
    BY <2>3 DEF IInv, PositionsInv, Shaped
  <2>5. low' = Append(low, PositionEvent(j, q))
    BY <1>1, <2>2, <2>3
  <2>6. \A x \in Instrument : /\ x = j => positions'[x].quantity = q
                              /\ x # j => positions'[x].quantity = positions[x].quantity
    BY <1>12, <2>2, <2>3
  <2> QED
    BY <1>1, <2>1, <2>4, <2>5, <2>6, ReportedFill DEF SettleInv
<1>15. Progress(t + 1, r, n)' /\ t + 1 \in Nat
  BY <1>10, <1>11, <1>13 DEF Progress
<1>16. \E b, c, d \in Nat : Progress(b, c, d)'
  BY <1>15
<1>17. DOMAIN venuePositions' = Instrument /\ DOMAIN told' = Instrument
  BY <1>1 DEF SettleInv
<1> QED
  BY <1>1, <1>14, <1>16, <1>17 DEF SettleInv

LEMMA EmitSignal_Settle ==
  ASSUME IInv, IInv', SettleInv, EmitSignal
  PROVE  SettleInv'
<1>1. /\ UNCHANGED <<requests, orders, positions, venuePositions, trades, high, told, inHand, running>>
      /\ low' = Append(low, SignalEvent) /\ running
  BY DEF EmitSignal, omsVars, logVars
<1>2. PICK t \in Nat, r \in Nat, n \in Nat : Progress(t, r, n)
  BY <1>1 DEF SettleInv
<1>3. Progress(t, r, n)'
  BY <1>1, <1>2, ProgressAside
<1>4. \A i \in Instrument : Reported(i)'
  BY <1>1, ReportedSignal DEF SettleInv
<1>5. DOMAIN venuePositions' = Instrument /\ DOMAIN told' = Instrument
  BY <1>1 DEF SettleInv
<1> QED
  BY <1>1, <1>3, <1>4, <1>5 DEF SettleInv

LEMMA NextSettle == IInv /\ IInv' /\ SettleInv /\ [Next]_vars => SettleInv'
<1> SUFFICES ASSUME IInv, IInv', SettleInv, [Next]_vars PROVE SettleInv'
  OBVIOUS
<1>1. CASE ~running'
  BY <1>1, StoppedInv DEF SettleInv
<1>2. CASE running'
  <2>1. running
    BY <1>2, StoppedInv
  <2>2. CASE Engine \/ TimerFires \/ UNCHANGED vars
    BY <1>2, <2>1, <2>2, Aside_Settle
  <2>3. CASE Dispatch
    <3>1. ~RouteOrderRefused
      BY <2>1 DEF RouteOrderRefused
    <3> QED
      BY <1>2, <2>1, <2>3, <3>1, Aside_Settle, TakeEvent_Settle, RouteOrder_Settle,
         OnOrderAccepted_Settle, OnPosition_Settle, OnFill_Settle DEF Dispatch
  <2>4. CASE \E i \in Instrument, qty \in Quantity, price \in LimitPrice \cup {NoPrice} :
               RequestOrder(i, qty, price)
    BY <2>4, RequestOrder_Settle
  <2>5. CASE EmitSignal
    BY <2>5, EmitSignal_Settle
  <2> QED
    BY <2>2, <2>3, <2>4, <2>5 DEF Next
<1> QED
  BY <1>1, <1>2

\* Nothing is in flight: every order has been routed and filled.
LEMMA SettledWhenIdle ==
  ASSUME IInv, SettleInv, Idle, running
  PROVE  /\ \A k \in DOMAIN requests :
              /\ orders[k] # Unknown /\ orders[k].status = "FILLED"
              /\ orders[k].filled = Abs(requests[k].qty)
              /\ \E t \in DOMAIN trades : trades[t].order = k
         /\ Len(trades) = Len(requests)
         /\ \A i \in Instrument : positions[i].quantity = venuePositions[i]
                                  /\ told[i] = venuePositions[i]
<1>1. PICK t \in Nat, r \in Nat, n \in Nat : Progress(t, r, n)
  BY DEF SettleInv
<1>2. Stages(t, r, n) /\ Lanes(t, r, n) /\ t <= r /\ r <= n /\ n = Len(requests) /\ t = Len(trades)
  BY <1>1 DEF Progress, Stages
<1>3. \A e \in HighEvent : ~InFlight(e)
  BY NothingIsNone DEF InFlight, Idle, QueueEmpty
<1>4. \A k \in r + 1 .. n : FALSE
  BY <1>2, <1>3 DEF Lanes, Queued
<1>5. \A k \in t + 1 .. r : FALSE
  BY <1>2, <1>3 DEF Lanes, Queued
<1>6. r = n
  <2>1. n \in r + 1 .. n \/ r = n
    BY <1>2
  <2> QED
    BY <1>4, <2>1
<1>7. t = n
  <2>1. r \in t + 1 .. r \/ r = t
    BY <1>2
  <2> QED
    BY <1>5, <1>6, <2>1
<1>8. DOMAIN requests = 1 .. n /\ DOMAIN trades = 1 .. n
  BY <1>2, <1>7, LenProperties DEF IInv, OrderInv, TradesInv
<1>9. \A k \in DOMAIN requests :
        /\ orders[k] # Unknown /\ orders[k].status = "FILLED"
        /\ orders[k].filled = Abs(requests[k].qty)
        /\ \E u \in DOMAIN trades : trades[u].order = k
  BY <1>2, <1>6, <1>7, <1>8, Lifecycle DEF Stages
<1>10. \A i \in Instrument : positions[i].quantity = venuePositions[i]
  BY <1>1, <1>6, <1>7 DEF Progress, Booked
<1>11. \A i \in Instrument : told[i] = positions[i].quantity
  BY NothingIsNone DEF SettleInv, Reported, Tells, Idle, QueueEmpty
<1> QED
  BY <1>2, <1>7, <1>9, <1>10, <1>11

\* The equity curve is a sequence.
Drawn == \E S : snapshots \in Seq(S)

LEMMA InitDrawn == Init => Drawn
<1> SUFFICES ASSUME Init PROVE Drawn
  OBVIOUS
<1>1. snapshots \in Seq({})
  BY DEF Init
<1> QED
  BY <1>1 DEF Drawn

LEMMA NextDrawn == Drawn /\ [Next]_vars => Drawn'
<1> SUFFICES ASSUME Drawn, [Next]_vars PROVE Drawn'
  OBVIOUS
<1>1. PICK S : snapshots \in Seq(S)
  BY DEF Drawn
<1>2. CASE snapshots' = snapshots
  BY <1>1, <1>2 DEF Drawn
<1>3. CASE JoinReturns
  <2>1. PICK x : x = ComputeEquity
    OBVIOUS
  <2>2. PICK T : T = S \cup {x}
    OBVIOUS
  <2>3. snapshots \in Seq(T) /\ x \in T
    BY <1>1, <2>2
  <2>4. snapshots' = Append(snapshots, x)
    BY <1>3, <2>1 DEF JoinReturns
  <2>5. snapshots' \in Seq(T)
    BY <2>3, <2>4, AppendProperties
  <2> QED
    BY <2>5 DEF Drawn
<1>4. CASE OnStartReturns
  <2>1. PICK x : x = Whole(Capital)
    OBVIOUS
  <2>2. snapshots' = <<x>>
    BY <1>4, <2>1 DEF OnStartReturns
  <2>3. snapshots' \in Seq({x})
    BY <2>2
  <2> QED
    BY <2>3 DEF Drawn
<1>5. snapshots' = snapshots \/ JoinReturns \/ OnStartReturns
  BY DEF Next, Engine, FeedBar, OnStopReturns, RunReturns, Dispatch, TakeEvent, GetTimesOut,
         RouteOrder, RouteOrderRefused, OwnOrderSubmitted, OnOrderAccepted, OnFill, OnBar, OnSignal, OnPosition,
         TimerFires, RequestOrder, EmitSignal, engineVars, vars
<1> QED
  BY <1>2, <1>3, <1>4, <1>5

\* When the engine goes on to the next bar, the OMS, the trade log, the venue and
\* the strategy agree: join() waits long enough, whatever the strategy orders.
THEOREM SettledCorrect == Spec => BarIsSettled
<1> DEFINE Settled == TakesSnapshot =>
       /\ \A k \in DOMAIN requests :
            /\ orders[k] # Unknown /\ orders[k].status = "FILLED"
            /\ orders[k].filled = Abs(requests[k].qty)
            /\ \E t \in DOMAIN trades : trades[t].order = k
       /\ Len(trades) = Len(requests)
       /\ \A i \in Instrument : positions[i].quantity = venuePositions[i]
                                /\ told[i] = venuePositions[i]
<1>1. IInv /\ SettleInv /\ Drawn /\ [Next]_vars => [Settled]_vars
  <2> SUFFICES ASSUME IInv, SettleInv, Drawn, Next, TakesSnapshot
               PROVE  Idle /\ running
    BY SettledWhenIdle
  <2>1. running
    BY DEF TakesSnapshot, SettleInv
  <2>2. Len(snapshots) \in Nat
    BY LenProperties DEF Drawn
  <2>3. CASE Engine
    <3>1. CASE JoinReturns
      BY <2>1, <3>1 DEF JoinReturns
    <3>2. CASE FeedBar
      BY <2>2, <3>2 DEF TakesSnapshot, FeedBar
    <3>3. CASE RunReturns
      BY <2>2, <3>3 DEF TakesSnapshot, RunReturns
    <3>4. CASE OnStartReturns
      BY <3>4 DEF TakesSnapshot, OnStartReturns
    <3>5. CASE OnStopReturns
      BY <3>5 DEF TakesSnapshot, OnStopReturns
    <3> QED
      BY <2>3, <3>1, <3>2, <3>3, <3>4, <3>5 DEF Engine
  <2>4. CASE Dispatch
    BY <2>2, <2>4 DEF TakesSnapshot, Dispatch, TakeEvent, GetTimesOut, RouteOrder, RouteOrderRefused,
              OwnOrderSubmitted, OnOrderAccepted, OnFill, OnBar, OnSignal, OnPosition, engineVars
  <2>5. CASE TimerFires \/ EmitSignal
    BY <2>2, <2>5 DEF TakesSnapshot, TimerFires, EmitSignal, engineVars
  <2>6. CASE \E i \in Instrument, qty \in Quantity, price \in LimitPrice \cup {NoPrice} :
               RequestOrder(i, qty, price)
    BY <2>2, <2>6 DEF TakesSnapshot, RequestOrder, engineVars
  <2> QED
    BY <2>1, <2>3, <2>4, <2>5, <2>6 DEF Next
<1>2. BarIsSettled <=> [][Settled]_vars
  BY DEF BarIsSettled
<1> QED
  BY <1>1, InitSettle, NextSettle, InitDrawn, NextDrawn, Invariance, PTL DEF Spec, BarIsSettled

-------------------------------------------------------------------------------
(* Sums and folds *)

Pick(s) == CHOOSE x \in s : TRUE

\* The integers v[i] of all i in S add up to w: a sum for each subset.
AddUpTo(v, S, w) ==
  \E f \in [SUBSET S -> Int] :
    /\ \A s \in SUBSET S : f[s] = IF s = {} THEN 0 ELSE v[Pick(s)] + f[s \ {Pick(s)}]
    /\ f[S] = w

LEMMA PickIn ==
  ASSUME NEW S, NEW s \in SUBSET S, s # {}
  PROVE  Pick(s) \in s /\ Pick(s) \in S /\ s \ {Pick(s)} \in SUBSET S
BY DEF Pick

LEMMA NothingAddsUp ==
  ASSUME NEW S, NEW v, \A i \in S : v[i] = 0
  PROVE  AddUpTo(v, S, 0)
<1> DEFINE f == [s \in SUBSET S |-> 0]
<1>1. f \in [SUBSET S -> Int] /\ f[S] = 0
  OBVIOUS
<1>2. \A s \in SUBSET S : f[s] = IF s = {} THEN 0 ELSE v[Pick(s)] + f[s \ {Pick(s)}]
  BY PickIn
<1> QED
  BY <1>1, <1>2 DEF AddUpTo

\* A sum changes by what one of its terms does.
LEMMA OneChanges ==
  ASSUME NEW S, NEW v \in [S -> Int], NEW w \in Int, AddUpTo(v, S, w), NEW j \in S, NEW x \in Int,
         NEW u \in [S -> Int], u = [v EXCEPT ![j] = v[j] + x]
  PROVE  AddUpTo(u, S, w + x)
<1>1. PICK f \in [SUBSET S -> Int] :
        /\ \A s \in SUBSET S : f[s] = IF s = {} THEN 0 ELSE v[Pick(s)] + f[s \ {Pick(s)}]
        /\ f[S] = w
  BY DEF AddUpTo
<1> DEFINE g == [s \in SUBSET S |-> f[s] + (IF j \in s THEN x ELSE 0)]
<1>2. g \in [SUBSET S -> Int]
  <2> SUFFICES ASSUME NEW s \in SUBSET S PROVE f[s] + (IF j \in s THEN x ELSE 0) \in Int
    OBVIOUS
  <2>1. f[s] \in Int
    BY <1>1
  <2> QED
    BY <2>1
<1>3. g[S] = w + x
  BY <1>1
<1>4. ASSUME NEW s \in SUBSET S
      PROVE  g[s] = IF s = {} THEN 0 ELSE u[Pick(s)] + g[s \ {Pick(s)}]
  <2>1. CASE s = {}
    <3>1. f[s] = 0
      BY <1>1, <2>1
    <3> QED
      BY <2>1, <3>1
  <2>2. CASE s # {}
    <3>1. PICK p \in S : p = Pick(s) /\ p \in s
      BY <2>2, PickIn
    <3>2. PICK r \in SUBSET S : r = s \ {p}
      OBVIOUS
    <3>3. f[s] = v[p] + f[r]
      BY <1>1, <2>2, <3>1, <3>2
    <3>4. g[s] = f[s] + (IF j \in s THEN x ELSE 0) /\ g[r] = f[r] + (IF j \in r THEN x ELSE 0)
      OBVIOUS
    <3>5. u[p] = IF p = j THEN v[p] + x ELSE v[p]
      OBVIOUS
    <3>6. v[p] \in Int /\ f[r] \in Int
      BY <1>1
    <3> HIDE DEF g
    <3>7. g[s] = u[p] + g[r]
      BY <3>1, <3>2, <3>3, <3>4, <3>5, <3>6
    <3> QED
      BY <2>2, <3>1, <3>2, <3>7
  <2> QED
    BY <2>1, <2>2
<1> HIDE DEF g
<1> QED
  BY <1>2, <1>3, <1>4 DEF AddUpTo

LEMMA WholeSum ==
  ASSUME NEW x \in Int, NEW y \in Int
  PROVE  Plus(Whole(x), Whole(y)) = Whole(x + y)
<1>1. Is(Whole(x), x, 1) /\ Is(Whole(y), y, 1)
  BY DEF Is, Whole, Fraction
<1>2. PICK w \in Int : w = x + y /\ x + y = w * 1
  OBVIOUS
<1> QED
  BY <1>1, <1>2, PlusWhole

LEMMA LessOne ==
  ASSUME NEW S, IsFiniteSet(S), NEW s \in SUBSET S, s # {}
  PROVE  /\ Cardinality(s) \in Nat /\ Cardinality(s \ {Pick(s)}) = Cardinality(s) - 1
         /\ Cardinality(s) - 1 \in Nat
<1>1. Pick(s) \in s
  BY DEF Pick
<1>2. IsFiniteSet(s)
  BY FS_Subset
<1>3. Cardinality(s \ {Pick(s)}) = Cardinality(s) - 1
  BY <1>1, <1>2, FS_RemoveElement
<1>4. IsFiniteSet(s \ {Pick(s)})
  BY <1>1, <1>2, FS_RemoveElement
<1>5. Cardinality(s) \in Nat /\ Cardinality(s \ {Pick(s)}) \in Nat
  BY <1>2, <1>4, FS_CardinalityType
<1> QED
  BY <1>1, <1>3, <1>5

\* The sum of fractions that are all whole, in whatever order they are added.
LEMMA WholesAddUp ==
  ASSUME NEW S, IsFiniteSet(S), NEW v \in [S -> Int], NEW w, AddUpTo(v, S, w),
         NEW a, DOMAIN a = S, \A i \in S : a[i] = Whole(v[i])
  PROVE  FoldFunction(Plus, Zero, a) = Whole(w)
<1>1. PICK f \in [SUBSET S -> Int] :
        /\ \A s \in SUBSET S : f[s] = IF s = {} THEN 0 ELSE v[Pick(s)] + f[s \ {Pick(s)}]
        /\ f[S] = w
  BY DEF AddUpTo
<1> DEFINE Step(h, s) == IF s = {} THEN Zero ELSE Plus(a[Pick(s)], h[s \ {Pick(s)}])
           Iter(h) == h = [s \in SUBSET S |-> Step(h, s)]
           fold == CHOOSE h : Iter(h)
           g == [s \in SUBSET S |-> Whole(f[s])]
<1>2. ASSUME NEW s \in SUBSET S, s # {}, NEW h, h[s \ {Pick(s)}] = Whole(f[s \ {Pick(s)}])
      PROVE  Step(h, s) = Whole(f[s])
  <2>1. PICK p \in S : p = Pick(s)
    BY <1>2, PickIn
  <2>2. PICK r \in SUBSET S : r = s \ {p}
    OBVIOUS
  <2>3. f[s] = v[p] + f[r]
    BY <1>1, <1>2, <2>1, <2>2
  <2>4. v[p] \in Int /\ f[r] \in Int
    BY <1>1
  <2>5. Plus(a[p], h[r]) = Whole(v[p] + f[r])
    BY <1>2, <2>1, <2>2, <2>4, WholeSum
  <2> QED
    BY <1>2, <2>1, <2>2, <2>3, <2>5
<1>3. \A h : Step(h, {}) = Whole(f[{}])
  BY <1>1 DEF Whole, Zero
<1>4. ASSUME NEW s \in SUBSET S PROVE g[s] = Step(g, s)
  <2>1. CASE s = {}
    BY <1>3, <2>1
  <2>2. CASE s # {}
    <3>1. s \ {Pick(s)} \in SUBSET S
      OBVIOUS
    <3>2. g[s \ {Pick(s)}] = Whole(f[s \ {Pick(s)}])
      BY <3>1
    <3> HIDE DEF Step
    <3> QED
      BY <1>2, <2>2, <3>2
  <2> QED
    BY <2>1, <2>2
<1>5. FoldFunction(Plus, Zero, a) = fold[S]
  BY DEF FoldFunction, FoldFunctionOnSet, MapThenFoldSet, Pick
<1> HIDE DEF Step
<1>6. Iter(g)
  BY <1>4
<1> HIDE DEF g
<1>7. PICK h : h = fold /\ Iter(h)
  BY <1>6
<1>8. \A s \in SUBSET S : h[s] = Step(h, s)
  BY <1>7
<1> HIDE DEF Iter, fold
<1> DEFINE Bad == {k \in Nat : \E s \in SUBSET S : Cardinality(s) = k /\ h[s] # Whole(f[s])}
<1>9. Bad = {}
  <2> SUFFICES ASSUME Bad # {} PROVE FALSE
    OBVIOUS
  <2>1. PICK k \in Bad : \A l \in Bad : k <= l
    <3>1. Bad \subseteq Nat
      OBVIOUS
    <3> HIDE DEF Bad
    <3> QED
      BY <3>1, LeastNat
  <2>2. PICK s \in SUBSET S : Cardinality(s) = k /\ h[s] # Whole(f[s])
    OBVIOUS
  <2>3. s # {}
    BY <1>3, <1>8, <2>2
  <2>4. Cardinality(s \ {Pick(s)}) = k - 1 /\ k - 1 \in Nat /\ k \in Nat
    BY <2>2, <2>3, LessOne
  <2>5. k - 1 \notin Bad
    BY <2>1, <2>4
  <2>6. h[s \ {Pick(s)}] = Whole(f[s \ {Pick(s)}])
    <3>1. s \ {Pick(s)} \in SUBSET S
      OBVIOUS
    <3> QED
      BY <2>4, <2>5, <3>1
  <2>7. h[s] = Whole(f[s])
    BY <1>2, <1>8, <2>3, <2>6
  <2> QED
    BY <2>2, <2>7
<1>10. h[S] = Whole(f[S])
  <2>1. Cardinality(S) \in Nat
    BY FS_CardinalityType
  <2> QED
    BY <1>9, <2>1
<1> QED
  BY <1>1, <1>5, <1>7, <1>10

\* Running totals of the numbers d[1] to d[n], for each set of indices.
LEMMA TotalsExist ==
  ASSUME NEW n \in Nat, NEW d \in [1 .. n -> Int], NEW base \in Int
  PROVE  \E f \in [SUBSET (1 .. n) -> Int] : \A s \in SUBSET (1 .. n) :
           IF s = {} THEN f[s] = base
           ELSE Max(s) \in s /\ f[s] = f[s \ {Max(s)}] + d[Max(s)]
<1> DEFINE Solves(f, m) == \A s \in SUBSET (1 .. m) :
             IF s = {} THEN f[s] = base
             ELSE Max(s) \in s /\ f[s] = f[s \ {Max(s)}] + d[Max(s)]
           Have(m) == \E f \in [SUBSET (1 .. m) -> Int] : Solves(f, m)
           Lacking == {m \in 0 .. n : ~ Have(m)}
<1>1. Have(0)
  <2> DEFINE f == [s \in SUBSET (1 .. 0) |-> base]
  <2>1. f \in [SUBSET (1 .. 0) -> Int] /\ Solves(f, 0)
    <3>1. \A s \in SUBSET (1 .. 0) : s = {}
      OBVIOUS
    <3> QED
      BY <3>1
  <2> QED
    BY <2>1
<1>2. ASSUME NEW m \in Nat, m + 1 <= n, Have(m)
      PROVE  Have(m + 1)
  <2>1. PICK f \in [SUBSET (1 .. m) -> Int] : Solves(f, m)
    BY <1>2
  <2> DEFINE g == [s \in SUBSET (1 .. m + 1) |->
                     IF m + 1 \in s THEN f[s \ {m + 1}] + d[m + 1] ELSE f[s]]
  <2>2. \A s \in SUBSET (1 .. m + 1) : s \ {m + 1} \in SUBSET (1 .. m)
    <3>1. \A x \in 1 .. m + 1 : x # m + 1 => x \in 1 .. m
      OBVIOUS
    <3> QED
      BY <3>1
  <2>3. \A s \in SUBSET (1 .. m + 1) : m + 1 \notin s => s \in SUBSET (1 .. m)
    BY <2>2
  <2>4. \A s \in SUBSET (1 .. m) : m + 1 \notin s /\ s \in SUBSET (1 .. m + 1)
    OBVIOUS
  <2>5. d[m + 1] \in Int
    BY <1>2
  <2>6. g \in [SUBSET (1 .. m + 1) -> Int]
    <3> SUFFICES ASSUME NEW s \in SUBSET (1 .. m + 1)
                 PROVE  (IF m + 1 \in s THEN f[s \ {m + 1}] + d[m + 1] ELSE f[s]) \in Int
      OBVIOUS
    <3>1. CASE m + 1 \in s
      <4>1. f[s \ {m + 1}] \in Int
        BY <2>1, <2>2
      <4> QED
        BY <2>5, <3>1, <4>1
    <3>2. CASE m + 1 \notin s
      BY <2>1, <2>3, <3>2
    <3> QED
      BY <3>1, <3>2
  <2>7. ASSUME NEW s \in SUBSET (1 .. m + 1)
        PROVE  IF s = {} THEN g[s] = base
               ELSE Max(s) \in s /\ g[s] = g[s \ {Max(s)}] + d[Max(s)]
    <3>1. CASE m + 1 \in s
      <4>1. Max(s) = m + 1
        BY <3>1, MaxIs
      <4>2. PICK r \in SUBSET (1 .. m) : r = s \ {m + 1}
        BY <2>2
      <4>3. g[r] = f[r] /\ g[s] = f[r] + d[m + 1]
        BY <2>4, <3>1, <4>2
      <4> HIDE DEF g
      <4> QED
        BY <3>1, <4>1, <4>2, <4>3
    <3>2. CASE m + 1 \notin s
      <4>1. s \in SUBSET (1 .. m) /\ g[s] = f[s]
        BY <2>3, <3>2
      <4>2. PICK r \in SUBSET (1 .. m) : r = s \ {Max(s)}
        BY <4>1
      <4>3. g[r] = f[r]
        BY <2>4, <4>2
      <4>4. IF s = {} THEN f[s] = base ELSE Max(s) \in s /\ f[s] = f[r] + d[Max(s)]
        BY <2>1, <4>1, <4>2
      <4> HIDE DEF g
      <4> QED
        BY <4>1, <4>2, <4>3, <4>4
    <3> QED
      BY <3>1, <3>2
  <2> HIDE DEF g
  <2>8. Solves(g, m + 1)
    BY <2>7
  <2> QED
    BY <2>6, <2>8
<1> HIDE DEF Have
<1>3. Lacking = {}
  <2> SUFFICES ASSUME Lacking # {} PROVE FALSE
    OBVIOUS
  <2>1. PICK m \in Lacking : \A k \in Lacking : m <= k
    <3>1. Lacking \subseteq Nat
      OBVIOUS
    <3> HIDE DEF Lacking
    <3> QED
      BY <3>1, LeastNat
  <2>2. m # 0 /\ m \in Nat /\ m <= n
    BY <1>1
  <2>3. m - 1 \in 0 .. n /\ m - 1 \notin Lacking /\ (m - 1) + 1 = m /\ m - 1 \in Nat
    BY <2>1, <2>2
  <2>4. Have(m - 1)
    BY <2>3
  <2>5. Have((m - 1) + 1)
    BY <1>2, <2>2, <2>3, <2>4
  <2> QED
    BY <2>3, <2>5
<1>4. Have(n)
  BY <1>3
<1> QED
  BY <1>4 DEF Have

-------------------------------------------------------------------------------
(* The account *)

AllPriced == \A t \in DOMAIN trades : trades[t].instrument \in DOMAIN latest

\* What trade k gained until now.
Gain(k) == trades[k].qty * (latest[trades[k].instrument] - trades[k].price) - trades[k].commission

LEMMA GainInt ==
  ASSUME IInv, AllPriced, NEW k \in 1 .. Len(trades)
  PROVE  /\ trades[k] \in Trade /\ latest[trades[k].instrument] \in Nat
         /\ Gain(k) \in Int
<1>1. trades[k] \in Trade /\ k \in DOMAIN trades
  BY ElementOfSeq, LenProperties DEF IInv, TradesInv
<1>2. latest[trades[k].instrument] \in Nat
  BY <1>1 DEF AllPriced, IInv, LatestInv
<1>3. PICK q \in Int : q = trades[k].qty
  BY <1>1 DEF Trade
<1>4. PICK c \in Int : c = trades[k].commission
  BY <1>1 DEF Trade
<1>5. PICK p \in Int : p = latest[trades[k].instrument] - trades[k].price
  BY <1>1, <1>2 DEF Trade
<1>6. q * p - c \in Int
  OBVIOUS
<1> QED
  BY <1>1, <1>2, <1>3, <1>4, <1>5, <1>6 DEF Gain

\* The worth of the account, trade by trade.
LEMMA WorthSteps ==
  ASSUME IInv, AllPriced
  PROVE  \E h : /\ h[{}] = Capital /\ Worth = h[1 .. Len(trades)]
                /\ \A k \in 1 .. Len(trades) :
                     h[1 .. k - 1] \in Int => h[1 .. k] = h[1 .. k - 1] + Gain(k)
<1>1. PICK n \in Nat : n = Len(trades) /\ DOMAIN trades = 1 .. n
  BY LenProperties DEF IInv, TradesInv
<1> DEFINE d == [k \in 1 .. n |-> Gain(k)]
           Step(h, s) == IF s = {} THEN Capital
                         ELSE h[s \ {Max(s)}]
                              + trades[Max(s)].qty * (latest[trades[Max(s)].instrument] - trades[Max(s)].price)
                              - trades[Max(s)].commission
           Iter(h) == h = [s \in SUBSET (1 .. n) |-> Step(h, s)]
           fold == CHOOSE h : Iter(h)
<1>2. Worth = fold[1 .. n]
  BY <1>1 DEF Worth, FoldLeft, MapThenFoldSet
<1>3. ASSUME NEW h, NEW s \in SUBSET (1 .. n), s # {}, Max(s) \in s, h[s \ {Max(s)}] \in Int
      PROVE  Step(h, s) = h[s \ {Max(s)}] + Gain(Max(s))
  <2>1. PICK k \in 1 .. n : k = Max(s)
    BY <1>3
  <2>2. PICK x \in Int : x = h[s \ {k}]
    BY <1>3, <2>1
  <2>3. trades[k] \in Trade /\ latest[trades[k].instrument] \in Nat
    BY <1>1, GainInt
  <2>4. PICK c \in Int : c = trades[k].commission
    BY <2>3 DEF Trade
  <2>5. PICK g \in Int : g = trades[k].qty * (latest[trades[k].instrument] - trades[k].price)
    <3>1. PICK q \in Int : q = trades[k].qty
      BY <2>3 DEF Trade
    <3>2. PICK p \in Int : p = latest[trades[k].instrument] - trades[k].price
      BY <2>3 DEF Trade
    <3>3. q * p \in Int
      OBVIOUS
    <3> QED
      BY <3>1, <3>2, <3>3
  <2>6. Step(h, s) = x + g - c
    BY <1>3, <2>1, <2>2, <2>4, <2>5
  <2>7. Gain(k) = g - c
    BY <2>4, <2>5 DEF Gain
  <2>8. x + g - c = x + (g - c)
    OBVIOUS
  <2> QED
    BY <2>1, <2>2, <2>6, <2>7, <2>8
<1>4. \A h : Step(h, {}) = Capital
  OBVIOUS
<1> HIDE DEF Step
<1>5. \E h : Iter(h)
  <2>1. d \in [1 .. n -> Int] /\ \A k \in 1 .. n : d[k] = Gain(k)
    BY <1>1, GainInt
  <2>2. Capital \in Int
    BY OrderAssumption
  <2> HIDE DEF d
  <2>3. PICK f \in [SUBSET (1 .. n) -> Int] : \A s \in SUBSET (1 .. n) :
          IF s = {} THEN f[s] = Capital
          ELSE Max(s) \in s /\ f[s] = f[s \ {Max(s)}] + d[Max(s)]
    BY <2>1, <2>2, TotalsExist
  <2>4. ASSUME NEW s \in SUBSET (1 .. n) PROVE f[s] = Step(f, s)
    <3>1. CASE s = {}
      BY <1>4, <2>3, <3>1
    <3>2. CASE s # {}
      <4>1. Max(s) \in s /\ f[s] = f[s \ {Max(s)}] + d[Max(s)]
        BY <2>3, <3>2
      <4>2. s \ {Max(s)} \in SUBSET (1 .. n) /\ d[Max(s)] = Gain(Max(s))
        BY <2>1, <4>1
      <4>3. f[s \ {Max(s)}] \in Int
        BY <4>2
      <4> QED
        BY <1>3, <3>2, <4>1, <4>2, <4>3
    <3> QED
      BY <3>1, <3>2
  <2> QED
    BY <2>4
<1>6. PICK h : h = fold /\ Iter(h)
  BY <1>5
<1>7. \A s \in SUBSET (1 .. n) : h[s] = Step(h, s)
  BY <1>6
<1>8. h[{}] = Capital
  BY <1>4, <1>7
<1>9. ASSUME NEW k \in 1 .. n, h[1 .. k - 1] \in Int
      PROVE  h[1 .. k] = h[1 .. k - 1] + Gain(k)
  <2>1. PICK s \in SUBSET (1 .. n) : s = 1 .. k
    OBVIOUS
  <2>2. Max(s) = k
    <3>1. k - 1 \in Nat /\ (k - 1) + 1 = k
      OBVIOUS
    <3>2. s \in SUBSET (1 .. (k - 1) + 1) /\ (k - 1) + 1 \in s
      BY <2>1, <3>1
    <3>3. Max(s) = (k - 1) + 1
      BY <3>1, <3>2, MaxIs
    <3> QED
      BY <3>1, <3>3
  <2>3. s \ {Max(s)} = 1 .. k - 1
    BY <2>1, <2>2
  <2>4. s # {} /\ Max(s) \in s
    BY <2>1, <2>2
  <2>5. h[s] = h[s \ {Max(s)}] + Gain(Max(s))
    BY <1>3, <1>7, <1>9, <2>3, <2>4
  <2> QED
    BY <2>1, <2>2, <2>3, <2>5
<1> QED
  BY <1>1, <1>2, <1>6, <1>8, <1>9

\* What the trade log says of each instrument, and the commissions, after each trade.
Account == [held : [Instrument -> Int], cash : [Instrument -> Int], fees : Int]

NoTrades == [held |-> [i \in Instrument |-> 0], cash |-> [i \in Instrument |-> 0], fees |-> 0]

After(account, t) ==
  [held |-> [account.held EXCEPT ![t.instrument] = account.held[t.instrument] + t.qty],
   cash |-> [account.cash EXCEPT ![t.instrument] = account.cash[t.instrument] - t.qty * t.price],
   fees |-> account.fees + t.commission]

Accounts(b) ==
  /\ b \in [0 .. Len(trades) -> Account] /\ b[0] = NoTrades
  /\ \A k \in 1 .. Len(trades) : b[k] = After(b[k - 1], trades[k])

\* The books of the OMS and of the engine are those of the trade log.
Kept(account) ==
  /\ commissions = account.fees
  /\ \A i \in Instrument : /\ positions[i].quantity = account.held[i]
                           /\ Sound(positions[i], account.cash[i])

Balanced(b) == Accounts(b) /\ Kept(b[Len(trades)])

AccountInv == \E b : Balanced(b)

LEMMA InitAccount == Init => AccountInv
<1> SUFFICES ASSUME Init PROVE AccountInv
  OBVIOUS
<1> DEFINE b == [k \in 0 .. 0 |-> NoTrades]
<1>1. trades = <<>> /\ Len(trades) = 0
  BY DEF Init
<1>2. Accounts(b) /\ b[0] = NoTrades
  BY <1>1 DEF Accounts, NoTrades, Account
<1>3. Kept(NoTrades)
  <2>1. commissions = 0
    BY DEF Init
  <2>2. ASSUME NEW i \in Instrument
        PROVE  positions[i].quantity = 0 /\ Sound(positions[i], 0)
    <3>1. positions[i] = Flat
      BY DEF Init
    <3>2. Is(Zero, 0, 1) /\ Flat.quantity = 0 /\ Flat.avgEntryPrice = Zero /\ Flat.realizedPnl = Zero
      BY DEF Is, Zero, Fraction, Flat
    <3> QED
      BY <3>1, <3>2, SoundFlat
  <2> QED
    BY <2>1, <2>2 DEF Kept, NoTrades
<1> HIDE DEF b
<1> QED
  BY <1>1, <1>2, <1>3 DEF AccountInv, Balanced

LEMMA AfterAccount ==
  ASSUME NEW a \in Account, NEW t \in Trade
  PROVE  /\ After(a, t) \in Account
         /\ After(a, t).fees = a.fees + t.commission
         /\ \A i \in Instrument :
              /\ After(a, t).held[i] = a.held[i] + (IF i = t.instrument THEN t.qty ELSE 0)
              /\ After(a, t).cash[i] = a.cash[i] - (IF i = t.instrument THEN t.qty * t.price ELSE 0)
<1>1. /\ t.instrument \in Instrument /\ t.qty \in Int /\ t.commission \in Int
      /\ a.held \in [Instrument -> Int] /\ a.cash \in [Instrument -> Int] /\ a.fees \in Int
  BY DEF Trade, Account
<1>2. PICK x \in Int : x = t.qty * t.price
  <2>1. t.qty \in Int /\ t.price \in Int
    BY DEF Trade
  <2> QED
    BY <2>1
<1> QED
  BY <1>1, <1>2 DEF After, Account

LEMMA OnFill_Account ==
  ASSUME IInv, AccountInv, OnFill
  PROVE  AccountInv'
<1> DEFINE k == inHand.order
           request == requests[k]
           cost == inHand.price * Abs(request.qty) * CommissionRate
           trade == [time |-> now, order |-> k, qty |-> request.qty,
                     instrument |-> request.instrument,
                     price |-> inHand.price, commission |-> cost]
<1>1. /\ trades' = Append(trades, trade) /\ commissions' = commissions + cost
      /\ positions' = [positions EXCEPT ![request.instrument] =
                         UpdatePosition(@, request.qty, inHand.price)]
      /\ inHand.kind = "FillEvent"
  BY DEF OnFill
<1>2. inHand \in HighEvent /\ k \in Nat /\ k \in DOMAIN requests /\ inHand.price \in Nat
  BY <1>1, NothingIsNone DEF IInv, BusInv, OrderInv, InFlight
<1>3. request.qty \in Int \ {0} /\ request.instrument \in Instrument
  <2>1. request \in Priced
    BY <1>2, ElementOfSeq, LenProperties DEF IInv, OrderInv
  <2> QED
    BY <2>1, OrderAssumption DEF Priced
<1>4. trade \in Trade
  <2>1. cost \in Int
    BY <1>2, <1>3, OrderAssumption DEF Abs
  <2> HIDE DEF cost
  <2> QED
    BY <1>2, <1>3, <2>1 DEF Trade, IInv, EngineInv
<1>5. PICK t \in Trade : t = trade
  BY <1>4
<1>6. /\ t.commission = cost /\ t.qty = request.qty /\ t.instrument = request.instrument
      /\ t.price = inHand.price
  BY <1>5
<1>7. PICK n \in Nat : n = Len(trades)
  BY LenProperties DEF IInv, TradesInv
<1> HIDE DEF trade, cost
<1>8. /\ Len(trades') = n + 1 /\ trades'[n + 1] = t
      /\ \A m \in 1 .. n : trades'[m] = trades[m]
  BY <1>1, <1>5, <1>7, AppendProperties DEF IInv, TradesInv
<1>9. PICK b : Accounts(b) /\ Kept(b[n])
  BY <1>7 DEF AccountInv, Balanced
<1> DEFINE c == [m \in 0 .. n + 1 |-> IF m = n + 1 THEN After(b[n], t) ELSE b[m]]
<1>10. b \in [0 .. n -> Account] /\ b[0] = NoTrades
       /\ \A m \in 1 .. n : b[m] = After(b[m - 1], trades[m])
  BY <1>7, <1>9 DEF Accounts
<1>11. b[n] \in Account /\ After(b[n], t) \in Account
  BY <1>10, AfterAccount
<1>12. \A m \in 0 .. n + 1 : m # n + 1 => m \in 0 .. n
  OBVIOUS
<1>13. c \in [0 .. n + 1 -> Account] /\ c[0] = NoTrades /\ c[n + 1] = After(b[n], t)
       /\ \A m \in 0 .. n : c[m] = b[m]
  BY <1>10, <1>11, <1>12
<1> HIDE DEF c
<1>14. \A m \in 1 .. n + 1 : c[m] = After(c[m - 1], trades'[m])
  <2> SUFFICES ASSUME NEW m \in 1 .. n + 1 PROVE c[m] = After(c[m - 1], trades'[m])
    OBVIOUS
  <2>1. CASE m = n + 1
    <3>1. m - 1 = n /\ n \in 0 .. n
      BY <2>1
    <3> QED
      BY <1>8, <1>13, <2>1, <3>1
  <2>2. CASE m # n + 1
    <3>1. m \in 1 .. n /\ m \in 0 .. n /\ m - 1 \in 0 .. n
      BY <2>2
    <3> QED
      BY <1>8, <1>10, <1>13, <3>1
  <2> QED
    BY <2>1, <2>2
<1>15. /\ commissions' = c[n + 1].fees
       /\ \A i \in Instrument : positions'[i].quantity = c[n + 1].held[i]
                                /\ Sound(positions'[i], c[n + 1].cash[i])
  <2>1. PICK a \in Account : a = b[n]
    BY <1>11
  <2>2. PICK z \in Account : z = After(a, t)
    BY <1>11, <2>1
  <2>3. Kept(a) /\ c[n + 1] = z
    BY <1>9, <1>13, <2>1, <2>2
  <2>4. commissions' = z.fees
    BY <1>1, <1>6, <2>2, <2>3, AfterAccount DEF Kept
  <2>5. ASSUME NEW i \in Instrument
        PROVE  positions'[i].quantity = z.held[i] /\ Sound(positions'[i], z.cash[i])
    <3>1. Shaped(positions[i]) /\ positions[i].quantity = a.held[i] /\ Sound(positions[i], a.cash[i])
          /\ a.held[i] \in Int /\ a.cash[i] \in Int
      BY <2>3 DEF Kept, IInv, PositionsInv, Account
    <3>2. /\ z.held[i] = a.held[i] + (IF i = t.instrument THEN t.qty ELSE 0)
          /\ z.cash[i] = a.cash[i] - (IF i = t.instrument THEN t.qty * t.price ELSE 0)
      BY <2>2, AfterAccount
    <3>3. CASE i = t.instrument
      <4>1. positions'[i] = UpdatePosition(positions[i], t.qty, t.price)
        BY <1>1, <1>6, <3>3 DEF IInv, PositionsInv
      <4>2. t.qty \in Int /\ t.qty # 0 /\ t.price \in Nat
        BY <1>2, <1>3, <1>6
      <4>3. Sound(positions'[i], a.cash[i] - t.qty * t.price)
        BY <3>1, <4>1, <4>2, UpdateSound
      <4>4. positions'[i].quantity = a.held[i] + t.qty
        BY <3>1, <4>1, <4>2, UpdateShaped
      <4> QED
        BY <3>2, <3>3, <4>3, <4>4
    <3>4. CASE i # t.instrument
      <4>1. positions'[i] = positions[i]
        BY <1>1, <1>6, <3>4 DEF IInv, PositionsInv
      <4>2. z.held[i] = a.held[i] /\ z.cash[i] = a.cash[i]
        BY <3>1, <3>2, <3>4
      <4> QED
        BY <3>1, <4>1, <4>2
    <3> QED
      BY <3>3, <3>4
  <2>6. \A i \in Instrument : positions'[i].quantity = z.held[i] /\ Sound(positions'[i], z.cash[i])
    BY <2>5
  <2> QED
    BY <2>3, <2>4, <2>6
<1>16. PICK e : e = c
  OBVIOUS
<1>17. /\ e \in [0 .. Len(trades') -> Account] /\ e[0] = NoTrades
       /\ \A m \in 1 .. Len(trades') : e[m] = After(e[m - 1], trades'[m])
  BY <1>8, <1>13, <1>14, <1>16
<1>18. /\ commissions' = e[Len(trades')].fees
       /\ \A i \in Instrument : /\ positions'[i].quantity = e[Len(trades')].held[i]
                                /\ Sound(positions'[i], e[Len(trades')].cash[i])
  BY <1>8, <1>15, <1>16
<1>19. Accounts(e)'
  BY <1>17 DEF Accounts
<1>20. Kept(e[Len(trades)])'
  BY <1>18 DEF Kept
<1> QED
  <2>1. Balanced(e)'
    BY <1>19, <1>20 DEF Balanced
  <2> QED
    BY <2>1, Zenon DEF AccountInv

LEMMA NextAccount == IInv /\ AccountInv /\ [Next]_vars => AccountInv'
<1> SUFFICES ASSUME IInv, AccountInv, [Next]_vars PROVE AccountInv'
  OBVIOUS
<1>1. CASE UNCHANGED <<trades, commissions, positions>>
  BY <1>1 DEF AccountInv, Balanced, Accounts, Kept, Sound, Is
<1>2. CASE OnFill
  BY <1>2, OnFill_Account
<1>3. UNCHANGED <<trades, commissions, positions>> \/ OnFill
  BY DEF Next, Engine, OnStartReturns, FeedBar, JoinReturns, OnStopReturns, RunReturns, Dispatch,
         TakeEvent, GetTimesOut, RouteOrder, RouteOrderRefused, OwnOrderSubmitted, OnOrderAccepted,
         OnBar, OnSignal, OnPosition, TimerFires, RequestOrder, EmitSignal, engineVars, omsVars, logVars, vars
<1> QED
  BY <1>1, <1>2, <1>3

-------------------------------------------------------------------------------
(* The equity curve *)

\* The money of each instrument, when what is held of it is sold at the prices L.
Value(account, L) == [i \in Instrument |-> account.cash[i] + account.held[i] * L[i]]

LEMMA ValueInt ==
  ASSUME NEW a \in Account, NEW L \in [Instrument -> Int]
  PROVE  Value(a, L) \in [Instrument -> Int]
<1> SUFFICES ASSUME NEW i \in Instrument
             PROVE  a.cash[i] + a.held[i] * L[i] \in Int
  BY DEF Value
<1>1. PICK h \in Int : h = a.held[i]
  BY DEF Account
<1>2. PICK c \in Int : c = a.cash[i]
  BY DEF Account
<1>3. PICK l \in Int : l = L[i]
  OBVIOUS
<1>4. c + h * l \in Int
  OBVIOUS
<1> QED
  BY <1>1, <1>2, <1>3, <1>4

LEMMA ValueAfter ==
  ASSUME NEW a \in Account, NEW t \in Trade, NEW L \in [Instrument -> Int]
  PROVE  /\ Value(a, L) \in [Instrument -> Int]
         /\ Value(After(a, t), L) \in [Instrument -> Int]
         /\ Value(After(a, t), L) =
              [Value(a, L) EXCEPT ![t.instrument] = Value(a, L)[t.instrument]
                                                    + t.qty * (L[t.instrument] - t.price)]
<1>1. PICK z \in Account : z = After(a, t)
  BY AfterAccount
<1>2. t.instrument \in Instrument
  BY DEF Trade
<1>3. ASSUME NEW i \in Instrument
      PROVE  /\ a.cash[i] + a.held[i] * L[i] \in Int /\ z.cash[i] + z.held[i] * L[i] \in Int
             /\ z.cash[i] + z.held[i] * L[i] =
                  IF i = t.instrument
                  THEN a.cash[i] + a.held[i] * L[i] + t.qty * (L[i] - t.price)
                  ELSE a.cash[i] + a.held[i] * L[i]
  <2>1. PICK h \in Int : h = a.held[i]
    BY DEF Account
  <2>2. PICK c \in Int : c = a.cash[i]
    BY DEF Account
  <2>3. PICK l \in Int : l = L[i]
    OBVIOUS
  <2>4. PICK q \in Int : q = t.qty
    BY DEF Trade
  <2>5. PICK p \in Int : p = t.price
    BY DEF Trade
  <2>6. /\ z.held[i] = h + (IF i = t.instrument THEN q ELSE 0)
        /\ z.cash[i] = c - (IF i = t.instrument THEN q * p ELSE 0)
    BY <1>1, <2>1, <2>2, <2>4, <2>5, AfterAccount
  <2>7. CASE i = t.instrument
    <3>1. z.held[i] = h + q /\ z.cash[i] = c - q * p
      BY <2>6, <2>7
    <3>2. (c - q * p) + (h + q) * l = c + h * l + q * (l - p)
      OBVIOUS
    <3>3. c + h * l \in Int /\ (c - q * p) + (h + q) * l \in Int
      OBVIOUS
    <3> QED
      BY <2>1, <2>2, <2>3, <2>4, <2>5, <2>7, <3>1, <3>2, <3>3
  <2>8. CASE i # t.instrument
    <3>1. z.held[i] = h /\ z.cash[i] = c
      BY <2>6, <2>8
    <3>2. c + h * l \in Int
      OBVIOUS
    <3> QED
      BY <2>1, <2>2, <2>3, <2>8, <3>1, <3>2
  <2> QED
    BY <2>7, <2>8
<1> QED
  BY <1>1, <1>2, <1>3 DEF Value

LEMMA InstrumentFinite == IsFiniteSet(Instrument)
<1>1. IsFiniteSet(DOMAIN Instruments)
  <2>1. DOMAIN Instruments = 1 .. Len(Instruments) /\ Len(Instruments) \in Nat
    BY DataAssumption, LenProperties
  <2> QED
    BY <2>1, FS_Interval
<1>2. Instrument = {Instruments[k] : k \in DOMAIN Instruments}
  BY DEF Instrument, Range
<1> QED
  BY <1>1, <1>2, ImageFinite

\* The money of all instruments is what the account is worth, but for the capital
\* and the commissions: by the least trade after which it is not.
LEMMA AccountAddsUp ==
  ASSUME IInv, AllPriced, NEW b, Accounts(b), NEW L \in [Instrument -> Int],
         \A i \in DOMAIN latest : L[i] = latest[i]
  PROVE  /\ Worth \in Int /\ b[Len(trades)] \in Account
         /\ AddUpTo(Value(b[Len(trades)], L), Instrument, Worth - Capital + b[Len(trades)].fees)
<1>1. PICK n \in Nat : n = Len(trades) /\ DOMAIN trades = 1 .. n
  BY LenProperties DEF IInv, TradesInv
<1>2. PICK h : /\ h[{}] = Capital /\ Worth = h[1 .. n]
               /\ \A k \in 1 .. n : h[1 .. k - 1] \in Int => h[1 .. k] = h[1 .. k - 1] + Gain(k)
  BY <1>1, WorthSteps
<1>3. /\ b \in [0 .. n -> Account] /\ b[0] = NoTrades
      /\ \A k \in 1 .. n : b[k] = After(b[k - 1], trades[k])
  BY <1>1 DEF Accounts
<1>4. Capital \in Int
  BY OrderAssumption
<1> DEFINE Good(k) == /\ h[1 .. k] \in Int
                      /\ AddUpTo(Value(b[k], L), Instrument, h[1 .. k] - Capital + b[k].fees)
           Bad == {k \in 0 .. n : ~ Good(k)}
<1>5. Good(0)
  <2>1. h[1 .. 0] = Capital
    <3>1. 1 .. 0 = {}
      OBVIOUS
    <3> QED
      BY <1>2, <3>1
  <2>2. \A i \in Instrument : Value(b[0], L)[i] = 0
    BY <1>3 DEF Value, NoTrades
  <2>3. AddUpTo(Value(b[0], L), Instrument, 0)
    BY <2>2, NothingAddsUp
  <2>4. b[0].fees = 0
    BY <1>3 DEF NoTrades
  <2>5. h[1 .. 0] - Capital + b[0].fees = 0
    BY <1>4, <2>1, <2>4
  <2> QED
    BY <1>4, <2>1, <2>3, <2>5
<1>6. ASSUME NEW k \in 1 .. n, Good(k - 1)
      PROVE  Good(k)
  <2>1. PICK t \in Trade : t = trades[k] /\ latest[t.instrument] \in Nat
    BY <1>1, GainInt
  <2>2. PICK a \in Account : a = b[k - 1]
    <3>1. k - 1 \in 0 .. n
      OBVIOUS
    <3> QED
      BY <1>3, <3>1
  <2>3. b[k] = After(a, t) /\ b[k].fees = a.fees + t.commission
    BY <1>3, <2>1, <2>2, AfterAccount
  <2>4. PICK f \in Int : f = a.fees
    BY DEF Account
  <2>5. PICK c \in Int : c = t.commission
    BY DEF Trade
  <2>6. PICK g \in Int : g = h[1 .. k - 1]
    BY <1>6
  <2>7. PICK x \in Int : x = t.qty * (L[t.instrument] - t.price)
    <3>1. PICK q \in Int : q = t.qty
      BY DEF Trade
    <3>2. PICK p \in Int : p = L[t.instrument] - t.price
      BY DEF Trade
    <3>3. q * p \in Int
      OBVIOUS
    <3> QED
      BY <3>1, <3>2, <3>3
  <2>8. t.instrument \in Instrument /\ L[t.instrument] = latest[t.instrument]
    <3>1. t.instrument \in DOMAIN latest
      BY <1>1, <2>1 DEF AllPriced
    <3> QED
      BY <3>1 DEF Trade
  <2>9. h[1 .. k] = g + (x - c)
    <3>1. Gain(k) = x - c
      BY <2>1, <2>5, <2>7, <2>8 DEF Gain
    <3> QED
      BY <1>2, <2>6, <3>1
  <2>10. AddUpTo(Value(a, L), Instrument, g - Capital + f)
    BY <1>6, <2>2, <2>4, <2>6
  <2>11. PICK w \in Int : w = g - Capital + f
    BY <1>4
  <2>12. PICK v \in [Instrument -> Int] : v = Value(a, L)
    BY <2>1, ValueAfter
  <2>13. PICK u \in [Instrument -> Int] : u = Value(After(a, t), L)
    BY <2>1, ValueAfter
  <2>14. u = [v EXCEPT ![t.instrument] = v[t.instrument] + x]
    BY <2>7, <2>12, <2>13, ValueAfter
  <2>15. AddUpTo(u, Instrument, w + x)
    BY <2>8, <2>10, <2>11, <2>12, <2>14, OneChanges
  <2>16. h[1 .. k] - Capital + b[k].fees = w + x /\ h[1 .. k] \in Int
    <3>1. PICK y \in Int : y = h[1 .. k] /\ y = g + (x - c)
      BY <2>9
    <3>2. PICK z \in Int : z = b[k].fees /\ z = f + c
      BY <2>3, <2>4, <2>5
    <3>3. y - Capital + z = w + x
      BY <1>4, <2>11, <3>1, <3>2
    <3> QED
      BY <3>1, <3>2, <3>3
  <2> QED
    BY <2>3, <2>13, <2>15, <2>16
<1> HIDE DEF Good
<1>7. Bad = {}
  <2> SUFFICES ASSUME Bad # {} PROVE FALSE
    OBVIOUS
  <2>1. PICK k \in Bad : \A m \in Bad : k <= m
    <3>1. Bad \subseteq Nat
      OBVIOUS
    <3> HIDE DEF Bad
    <3> QED
      BY <3>1, LeastNat
  <2>2. k \in 1 .. n
    BY <1>5
  <2>3. k - 1 \in 0 .. n /\ k - 1 \notin Bad
    BY <2>1, <2>2
  <2> QED
    BY <1>6, <2>2, <2>3
<1>8. Good(n) /\ b[n] \in Account
  BY <1>3, <1>7
<1> QED
  BY <1>1, <1>2, <1>8 DEF Good

LEMMA UntradedIsFlat ==
  ASSUME IInv, NEW b, Accounts(b), NEW i \in Instrument,
         \A t \in DOMAIN trades : trades[t].instrument # i
  PROVE  b[Len(trades)].held[i] = 0 /\ b[Len(trades)].cash[i] = 0
<1>1. PICK n \in Nat : n = Len(trades) /\ DOMAIN trades = 1 .. n
  BY LenProperties DEF IInv, TradesInv
<1>2. /\ b \in [0 .. n -> Account] /\ b[0] = NoTrades
      /\ \A k \in 1 .. n : b[k] = After(b[k - 1], trades[k])
  BY <1>1 DEF Accounts
<1> DEFINE Good(k) == b[k].held[i] = 0 /\ b[k].cash[i] = 0
           Bad == {k \in 0 .. n : ~ Good(k)}
<1>3. Good(0)
  BY <1>2 DEF NoTrades
<1>4. ASSUME NEW k \in 1 .. n, Good(k - 1)
      PROVE  Good(k)
  <2>1. PICK t \in Trade : t = trades[k] /\ t.instrument # i
    BY <1>1, ElementOfSeq DEF IInv, TradesInv
  <2>2. PICK a \in Account : a = b[k - 1]
    <3>1. k - 1 \in 0 .. n
      OBVIOUS
    <3> QED
      BY <1>2, <3>1
  <2>3. b[k] = After(a, t)
    BY <1>2, <2>1, <2>2
  <2>4. b[k].held[i] = a.held[i] + 0 /\ b[k].cash[i] = a.cash[i] - 0
    BY <2>1, <2>3, AfterAccount
  <2> QED
    BY <1>4, <2>2, <2>4
<1> HIDE DEF Good
<1>5. Bad = {}
  <2> SUFFICES ASSUME Bad # {} PROVE FALSE
    OBVIOUS
  <2>1. PICK k \in Bad : \A m \in Bad : k <= m
    <3>1. Bad \subseteq Nat
      OBVIOUS
    <3> HIDE DEF Bad
    <3> QED
      BY <3>1, LeastNat
  <2>2. k \in 1 .. n
    BY <1>3
  <2>3. k - 1 \in 0 .. n /\ k - 1 \notin Bad
    BY <2>1, <2>2
  <2> QED
    BY <1>4, <2>2, <2>3
<1>6. Good(n)
  BY <1>5
<1> QED
  BY <1>1, <1>6 DEF Good

LEMMA NoProfit ==
  ASSUME NEW pos, pos.quantity = 0, Sound(pos, 0)
  PROVE  Plus(pos.realizedPnl, Zero) = Whole(0)
<1>1. PICK n \in Int, d \in Nat :
        d # 0 /\ Is(pos.avgEntryPrice, n, d) /\ Is(pos.realizedPnl, 0 * d + n * 0, d)
  BY DEF Sound
<1>2. PICK z \in Int : z = 0
  OBVIOUS
<1>3. Is(pos.realizedPnl, z, d) /\ z + z = z * d
  BY <1>1, <1>2
<1>4. Is(Zero, z, d)
  BY <1>2 DEF Is, Zero, Fraction
<1>5. PICK a, b : a = pos.realizedPnl /\ b = Zero
  OBVIOUS
<1>6. PICK k \in Int : k = d
  OBVIOUS
<1>7. k # 0 /\ Is(a, z, k) /\ Is(b, z, k) /\ z + z = z * k
  BY <1>1, <1>3, <1>4, <1>5, <1>6
<1>8. Plus(a, b) = Whole(z)
  BY <1>7, PlusWhole
<1> QED
  BY <1>2, <1>5, <1>8

LEMMA WholeDifference ==
  ASSUME NEW x \in Int, NEW y \in Int
  PROVE  Minus(Whole(x), Whole(y)) = Whole(x - y)
<1>1. Minus(Whole(x), Whole(y)) = Plus(Whole(x), Times(Whole(y), -1))
  BY DEF Minus, Plus
<1>2. Is(Whole(x), x, 1) /\ Is(Whole(y), y, 1)
  BY DEF Is, Whole, Fraction
<1>3. PICK m \in Int : m = y * (-1) /\ m = -y
  OBVIOUS
<1>4. Is(Times(Whole(y), -1), m, 1)
  BY <1>2, <1>3, TimesIs
<1>5. PICK w \in Int : w = x - y /\ x + m = w * 1
  BY <1>3
<1> QED
  BY <1>1, <1>2, <1>4, <1>5, PlusWhole

LEMMA EquityIs ==
  ASSUME IInv, AccountInv, AllPriced
  PROVE  ComputeEquity = Whole(Worth)
<1>1. PICK b : Accounts(b) /\ Kept(b[Len(trades)])
  BY DEF AccountInv, Balanced
<1> DEFINE L == [i \in Instrument |-> IF i \in DOMAIN latest THEN latest[i] ELSE 0]
           Unrealized(i) ==
             IF positions[i].quantity > 0
             THEN Times(Minus(Whole(latest[i]), positions[i].avgEntryPrice), positions[i].quantity)
             ELSE Times(Minus(positions[i].avgEntryPrice, Whole(latest[i])),
                        Abs(positions[i].quantity))
           profit == [i \in Instrument |-> Plus(positions[i].realizedPnl,
                                                IF i \in DOMAIN latest THEN Unrealized(i) ELSE Zero)]
<1>2. L \in [Instrument -> Int] /\ \A i \in DOMAIN latest : L[i] = latest[i]
  BY DEF IInv, LatestInv
<1>3. PICK a \in Account : a = b[Len(trades)]
  BY <1>1, <1>2, AccountAddsUp
<1>4. PICK w \in Int : w = Worth
  BY <1>1, <1>2, AccountAddsUp
<1>5. AddUpTo(Value(a, L), Instrument, w - Capital + a.fees)
  BY <1>1, <1>2, <1>3, <1>4, AccountAddsUp
<1>6. ASSUME NEW i \in Instrument
      PROVE  profit[i] = Whole(Value(a, L)[i])
  <2>1. PICK pos : pos = positions[i]
    OBVIOUS
  <2>2. PICK cash \in Int : cash = a.cash[i]
    BY DEF Account
  <2>3. Shaped(pos) /\ Sound(pos, cash) /\ pos.quantity = a.held[i] /\ pos.quantity \in Int
    BY <1>1, <1>3, <2>1, <2>2 DEF Kept, IInv, PositionsInv, Shaped
  <2>4. Value(a, L)[i] = cash + pos.quantity * L[i]
    BY <2>2, <2>3 DEF Value
  <2>5. CASE i \in DOMAIN latest
    <3>1. PICK price \in Nat : price = latest[i] /\ price = L[i]
      BY <2>5 DEF IInv, LatestInv
    <3>2. Unrealized(i) = Realized(pos, Abs(pos.quantity), price)
      BY <2>1, <2>3, <3>1 DEF Realized, Abs
    <3>3. profit[i] = Plus(pos.realizedPnl, Unrealized(i))
      BY <2>1, <2>5
    <3> HIDE DEF Unrealized, profit, L
    <3>4. Plus(pos.realizedPnl, Realized(pos, Abs(pos.quantity), price))
            = Whole(cash + pos.quantity * price)
      BY <2>3, ProfitIs
    <3> QED
      BY <2>4, <3>1, <3>2, <3>3, <3>4
  <2>6. CASE i \notin DOMAIN latest
    <3>1. \A t \in DOMAIN trades : trades[t].instrument # i
      BY <2>6 DEF AllPriced
    <3>2. a.held[i] = 0 /\ a.cash[i] = 0
      BY <1>1, <1>3, <3>1, UntradedIsFlat
    <3>3. profit[i] = Plus(pos.realizedPnl, Zero)
      BY <2>1, <2>6
    <3>4. Value(a, L)[i] = 0
      BY <2>2, <2>3, <2>4, <2>6, <3>2
    <3> QED
      BY <2>2, <2>3, <3>2, <3>3, <3>4, NoProfit
  <2> QED
    BY <2>5, <2>6
<1>7. PICK fees \in Int : fees = a.fees /\ commissions = fees
  BY <1>1, <1>3 DEF Kept, Account
<1>8. PICK v \in [Instrument -> Int] : v = Value(a, L)
  BY <1>2, <1>3, ValueInt
<1>9. PICK p : p = profit
  OBVIOUS
<1>10. DOMAIN p = Instrument /\ \A i \in Instrument : p[i] = Whole(v[i])
  BY <1>6, <1>8, <1>9
<1>11. PICK s \in Int : s = w - Capital + fees
  BY <1>4, OrderAssumption
<1>12. AddUpTo(v, Instrument, s)
  BY <1>5, <1>7, <1>8, <1>11
<1>13. FoldFunction(Plus, Zero, p) = Whole(s)
  BY <1>10, <1>12, InstrumentFinite, WholesAddUp
<1>14. ComputeEquity = Minus(Plus(Whole(Capital), FoldFunction(Plus, Zero, p)), Whole(commissions))
  BY <1>9 DEF ComputeEquity
<1>15. PICK c \in Int : c = Capital
  BY OrderAssumption
<1>16. PICK e \in Int : e = c + s
  OBVIOUS
<1>17. ComputeEquity = Minus(Whole(e), Whole(fees))
  BY <1>7, <1>13, <1>14, <1>15, <1>16, WholeSum
<1>18. ComputeEquity = Whole(e - fees)
  BY <1>17, WholeDifference
<1>19. e - fees = w
  BY <1>11, <1>15, <1>16
<1> QED
  BY <1>4, <1>18, <1>19

\* The equity curve is what the trade log says the account is worth, for any
\* prices, quantities and commissions: averaging entry prices and realizing
\* profits loses no money.
THEOREM EquityCorrect == Spec => EquityIsCash
<1> DEFINE Cash == TakesSnapshot /\ (\A t \in DOMAIN trades : trades[t].instrument \in DOMAIN latest) =>
                     Last(snapshots') = Whole(Worth)
<1>1. IInv /\ AccountInv /\ Drawn /\ [Next]_vars => [Cash]_vars
  <2> SUFFICES ASSUME IInv, AccountInv, Drawn, Next, TakesSnapshot, AllPriced
               PROVE  Last(snapshots') = Whole(Worth)
    BY DEF AllPriced
  <2>1. PICK S : snapshots \in Seq(S)
    BY DEF Drawn
  <2>2. Len(snapshots) \in Nat
    BY <2>1, LenProperties
  <2>3. CASE JoinReturns
    <3>1. PICK x : x = ComputeEquity
      OBVIOUS
    <3>2. PICK T : T = S \cup {x}
      OBVIOUS
    <3>3. snapshots \in Seq(T) /\ x \in T
      BY <2>1, <3>2
    <3>4. PICK s : s = Append(snapshots, x)
      OBVIOUS
    <3>5. Len(s) = Len(snapshots) + 1 /\ s[Len(snapshots) + 1] = x
      BY <3>3, <3>4, AppendProperties
    <3>6. snapshots' = s
      BY <2>3, <3>1, <3>4 DEF JoinReturns
    <3>7. x = Whole(Worth)
      BY <3>1, EquityIs
    <3> QED
      BY <3>5, <3>6, <3>7 DEF Last
  <2>4. CASE Engine /\ ~JoinReturns
    <3>1. CASE FeedBar
      BY <2>2, <3>1 DEF TakesSnapshot, FeedBar
    <3>2. CASE RunReturns
      BY <2>2, <3>2 DEF TakesSnapshot, RunReturns
    <3>3. CASE OnStartReturns
      BY <3>3 DEF TakesSnapshot, OnStartReturns
    <3>4. CASE OnStopReturns
      BY <3>4 DEF TakesSnapshot, OnStopReturns
    <3> QED
      BY <2>4, <3>1, <3>2, <3>3, <3>4 DEF Engine
  <2>5. CASE Dispatch
    BY <2>2, <2>5 DEF TakesSnapshot, Dispatch, TakeEvent, GetTimesOut, RouteOrder, RouteOrderRefused,
              OwnOrderSubmitted, OnOrderAccepted, OnFill, OnBar, OnSignal, OnPosition, engineVars
  <2>6. CASE TimerFires \/ EmitSignal
    BY <2>2, <2>6 DEF TakesSnapshot, TimerFires, EmitSignal, engineVars
  <2>7. CASE \E i \in Instrument, qty \in Quantity, price \in LimitPrice \cup {NoPrice} :
               RequestOrder(i, qty, price)
    BY <2>2, <2>7 DEF TakesSnapshot, RequestOrder, engineVars
  <2> QED
    BY <2>3, <2>4, <2>5, <2>6, <2>7 DEF Next
<1> QED
  BY <1>1, InitAccount, NextAccount, InitDrawn, NextDrawn, Invariance, PTL DEF Spec, EquityIsCash
================================================================================
