--------------------------- MODULE RebalancingProofs ---------------------------
(***************************************************************************)
(* Proofs about a strategy that rebalances under the risk engine, for any  *)
(* instruments, limits, weights, prices and portfolio values.              *)
(***************************************************************************)
EXTENDS Rebalancing, TLAPS, SequenceTheorems

\* The last PositionEvent of an instrument on the bus.
LastFor(i, m) ==
  events[m].instrument = i /\ \A n \in 1 .. Len(events) : m < n => events[n].instrument # i

\* It tells the position of the OMS; without one the engine knows it.  Both fail
\* once the newest event is refused.
Told(i) ==
  /\ \A m \in 1 .. Len(events) : LastFor(i, m) => events[m].quantity = positions[i]
  /\ (\A m \in 1 .. Len(events) : events[m].instrument # i) => engine.positions[i] = positions[i]

ToldInv == \A i \in Instrument \ unreported : Told(i)

\* One order at most is on its way in the instrument.
Single(i) ==
  /\ \A order \in toSend, w \in working : order.instrument = i => w.order.instrument # i
  /\ \A v, w \in working : v.order.instrument = i /\ w.order.instrument = i => v = w

SingleInv ==
  /\ \A o, p \in toSend : o.instrument = p.instrument => o = p
  /\ \A i \in Instrument : i \notin overlapped \/ i \in DOMAIN goal => Single(i)

LimitsOn(i) == {limit \in Limit : /\ limit.kind = "MaxPosition" /\ limit.enabled
                                  /\ limit.instrument \in {AnyInstrument, i}}

Within(i, quantity) == \A limit \in LimitsOn(i) : AbsOf(quantity) <= limit.max

\* Neither the position nor what the order makes of it exceeds a limit.
WithinInv ==
  \A i \in Instrument \ overlapped :
    /\ Within(i, positions[i])
    /\ \A order \in toSend : order.instrument = i => Within(i, positions[i] + Signed(order))
    /\ \A w \in working : w.order.instrument = i => Within(i, positions[i] + Signed(w.order))

\* The order on its way, if there is one, leads to the goal.
GoalInv ==
  \A i \in DOMAIN goal :
    /\ \A order \in toSend : order.instrument = i => positions[i] + Signed(order) = goal[i]
    /\ \A w \in working : w.order.instrument = i => positions[i] + Signed(w.order) = goal[i]
    /\ (\A order \in toSend : order.instrument # i) /\ (\A w \in working : w.order.instrument # i)
         => positions[i] = goal[i]

PeakInv == engine.peak = highest /\ engine.value \in Nat

IInv == TypeOK /\ ToldInv /\ SingleInv /\ WithinInv /\ GoalInv /\ PeakInv

-------------------------------------------------------------------------------
(* Orders, limits and events *)

LEMMA SignedType == \A order \in Order : Signed(order) \in Int
BY DEF Order, Signed

LEMMA Absolute ==
  /\ \A n \in Int : AbsOf(n) \in Nat
  /\ AbsOf(0) = 0
BY DEF AbsOf

LEMMA TargetType ==
  ASSUME NEW targets \in Targets(Weight), NEW value \in Value,
         NEW prices \in [Instrument -> Price \cup {NoPrice}]
  PROVE  /\ DOMAIN TargetQuantities(targets, value, prices) \subseteq Instrument
         /\ \A i \in DOMAIN TargetQuantities(targets, value, prices) :
              TargetQuantities(targets, value, prices)[i] \in Int
<1>1. PICK S \in SUBSET Instrument : targets \in [S -> Weight]
  BY DEF Targets
<1>2. ASSUME NEW i \in S, prices[i] # NoPrice
      PROVE  TruncDiv(targets[i] * value, WeightUnit * prices[i]) \in Int
  <2>1. PICK n : n = targets[i] * value
    OBVIOUS
  <2>2. PICK d : d = WeightUnit * prices[i]
    OBVIOUS
  <2>3. n \in Int
    <3>1. targets[i] \in Weight
      BY <1>1
    <3>2. targets[i] \in Int
      BY <3>1, InputAssumption, Zenon
    <3>3. value \in Nat
      BY InputAssumption, Zenon
    <3> QED
      BY <2>1, <3>2, <3>3
  <2>4. d \in Nat \ {0}
    <3>1. prices[i] \in Nat \ {0} /\ WeightUnit \in Nat \ {0}
      BY <1>1, <1>2, InputAssumption, UnitAssumption DEF NoPrice
    <3> QED
      BY <2>2, <3>1
  <2>5. TruncDiv(n, d) \in Int
    BY <2>3, <2>4 DEF TruncDiv
  <2> QED
    BY <2>1, <2>2, <2>5
<1> QED
  BY <1>1, <1>2 DEF TargetQuantities

\* What the trades of a rebalance lead to.
LEMMA DeltasLead ==
  ASSUME TypeOK, NEW targets \in Targets(Weight), NEW value \in Value,
         NEW prices \in [Instrument -> Price \cup {NoPrice}],
         NEW wanted, wanted = TargetQuantities(targets, value, prices),
         NEW deltas, deltas = Deltas(wanted, positions)
  PROVE  /\ deltas \in [Instrument -> Int]
         /\ \A i \in Instrument :
              positions[i] + deltas[i] = IF i \in DOMAIN wanted THEN wanted[i] ELSE 0
<1>1. \A i \in Instrument : (IF i \in DOMAIN wanted THEN wanted[i] ELSE 0) \in Int
  BY TargetType
<1>2. \A i \in Instrument : positions[i] \in Int
  BY DEF TypeOK
<1> QED
  BY <1>1, <1>2 DEF Deltas

LEMMA OneOrderEach ==
  ASSUME NEW deltas \in [Instrument -> Int],
         NEW orders, orders = DeltasToOrders(deltas)
  PROVE  /\ \A order \in orders : /\ order \in Order /\ Signed(order) = deltas[order.instrument]
                                  /\ deltas[order.instrument] # 0
         /\ \A o, p \in orders : o.instrument = p.instrument => o = p
         /\ \A i \in Instrument : deltas[i] # 0 => \E order \in orders : order.instrument = i
<1> DEFINE OrderFor(i) == [instrument |-> i, side |-> IF deltas[i] > 0 THEN "BUY" ELSE "SELL",
                           quantity |-> AbsOf(deltas[i])]
<1>1. \A i \in Instrument : /\ OrderFor(i) \in Order /\ OrderFor(i).instrument = i
                            /\ Signed(OrderFor(i)) = deltas[i]
  BY DEF Order, Signed, AbsOf
<1>2. orders = {OrderFor(i) : i \in {j \in Instrument : deltas[j] # 0}}
  BY DEF DeltasToOrders
<1> HIDE DEF OrderFor
<1> QED
  BY <1>1, <1>2

\* An order that passes keeps the position the engine knows within its limits.
LEMMA PassedWithin ==
  ASSUME NEW orders, NEW prices, NEW order \in PassedOrders(orders, prices, engine)
  PROVE  /\ order \in orders
         /\ engine.positions[order.instrument] + Signed(order) \in Int =>
              Within(order.instrument, engine.positions[order.instrument] + Signed(order))
<1>1. order \in orders /\ CheckOrder(order, prices[order.instrument], engine) = {}
  BY DEF PassedOrders
<1>2. ASSUME NEW limit \in LimitsOn(order.instrument),
             engine.positions[order.instrument] + Signed(order) \in Int
      PROVE  AbsOf(engine.positions[order.instrument] + Signed(order)) <= limit.max
  <2>1. /\ limit \in Limit /\ limit.kind = "MaxPosition" /\ AppliesTo(limit, order)
        /\ limit.max \in Nat
    BY LimitAssumption DEF LimitsOn, AppliesTo
  <2>2. ~BreachesPosition(limit, order, engine)
    BY <1>1, <2>1 DEF CheckOrder
  <2>3. AbsOf(engine.positions[order.instrument] + Signed(order)) \in Nat
    BY <1>2, Absolute
  <2> QED
    BY <2>1, <2>2, <2>3 DEF BreachesPosition
<1> QED
  BY <1>1, <1>2 DEF Within

LEMMA UnderWayIs ==
  ASSUME TypeOK
  PROVE  \A i : i \in UnderWay <=> \/ \E w \in working : w.order.instrument = i
                                   \/ \E m \in 1 .. Len(events) : events[m].instrument = i
                                   \/ i \in unreported
<1>1. DOMAIN events = 1 .. Len(events)
  BY LenProperties DEF TypeOK
<1> QED
  BY <1>1 DEF UnderWay, Traded, ToSet

\* Where no event is on its way, the engine knows the position.
LEMMA EngineKnows ==
  ASSUME TypeOK, ToldInv, NEW i \in Instrument,
         i \notin {e.instrument : e \in ToSet(events)} \cup unreported
  PROVE  engine.positions[i] = positions[i]
<1>1. DOMAIN events = 1 .. Len(events)
  BY LenProperties DEF TypeOK
<1>2. \A m \in 1 .. Len(events) : events[m].instrument # i
  BY <1>1 DEF ToSet
<1> QED
  BY <1>2 DEF ToldInv, Told

-------------------------------------------------------------------------------
(* Steps *)

LEMMA InitInv == Init => IInv
<1> SUFFICES ASSUME Init PROVE IInv
  OBVIOUS
<1>1. engine \in Engine /\ engine.peak = 0 /\ engine.value = 0
      /\ \A i \in Instrument : engine.positions[i] = 0
  BY DEF Init, NewEngine, Engine
<1>2. TypeOK
  BY <1>1, InputAssumption DEF Init, TypeOK
<1>3. ToldInv
  BY <1>1 DEF Init, ToldInv, Told
<1>4. SingleInv /\ GoalInv
  BY DEF Init, SingleInv, Single, GoalInv
<1>5. WithinInv
  <2> SUFFICES ASSUME NEW i \in Instrument PROVE Within(i, 0)
    BY DEF Init, WithinInv
  <2>1. \A limit \in LimitsOn(i) : limit.max \in Nat
    BY LimitAssumption DEF LimitsOn
  <2> QED
    BY <2>1, Absolute DEF Within
<1>6. PeakInv
  BY <1>1 DEF Init, PeakInv
<1> QED
  BY <1>2, <1>3, <1>4, <1>5, <1>6 DEF IInv

LEMMA Rebalance_Inv ==
  ASSUME IInv, NEW targets \in Targets(Weight), NEW value \in Value,
         NEW prices \in [Instrument -> Price \cup {NoPrice}], Rebalance(targets, value, prices)
  PROVE  IInv'
<1>1. PICK wanted : wanted = TargetQuantities(targets, value, prices)
  OBVIOUS
<1>2. PICK deltas : deltas = Deltas(wanted, positions)
  OBVIOUS
<1>3. PICK orders : orders = DeltasToOrders(deltas)
  OBVIOUS
<1>4. PICK passed : passed = PassedOrders(orders, prices, engine)
  OBVIOUS
<1>5. PICK traded : traded = {order.instrument : order \in passed}
  OBVIOUS
<1>6. PICK excluded : excluded = {order.instrument : order \in orders \ passed}
  OBVIOUS
<1>7. orders = RebalanceOrders(targets, positions, value, prices)
  BY <1>1, <1>2, <1>3 DEF RebalanceOrders
<1>8. /\ toSend = {} /\ rebalances < MaxRebalances /\ rebalances' = rebalances + 1
      /\ toSend' = passed
      /\ overlapped' = overlapped \cup (traded \cap UnderWay)
      /\ goal' = [i \in Instrument \ (excluded \cup Traded) |->
                    IF i \in DOMAIN wanted THEN wanted[i] ELSE 0]
      /\ UNCHANGED <<engine, positions, events, working, busVars, unreported, highest>>
  BY <1>1, <1>4, <1>5, <1>6, <1>7 DEF Rebalance
<1>9. /\ deltas \in [Instrument -> Int]
      /\ \A i \in Instrument :
           positions[i] + deltas[i] = IF i \in DOMAIN wanted THEN wanted[i] ELSE 0
  BY <1>1, <1>2, DeltasLead DEF IInv
<1>10. /\ \A order \in orders : /\ order \in Order /\ Signed(order) = deltas[order.instrument]
                                /\ deltas[order.instrument] # 0
       /\ \A o, p \in orders : o.instrument = p.instrument => o = p
       /\ \A i \in Instrument : deltas[i] # 0 => \E order \in orders : order.instrument = i
  BY <1>3, <1>9, OneOrderEach
<1>11. passed \subseteq orders /\ passed \subseteq Order
  BY <1>4, <1>10 DEF PassedOrders
<1>12. \A i : i \in UnderWay <=> \/ \E w \in working : w.order.instrument = i
                                 \/ \E m \in 1 .. Len(events) : events[m].instrument = i
                                 \/ i \in unreported
  BY UnderWayIs DEF IInv
<1>13. TypeOK'
  <2>1. traded \subseteq Instrument
    BY <1>5, <1>11 DEF Order
  <2>2. rebalances' \in 0 .. MaxRebalances
    BY <1>8, InputAssumption DEF IInv, TypeOK
  <2>3. \A i \in DOMAIN goal' : goal'[i] \in Int
    <3>1. \A i \in DOMAIN wanted : wanted[i] \in Int
      BY <1>1, TargetType
    <3> QED
      BY <1>8, <3>1
  <2>4. DOMAIN goal' \subseteq Instrument
    BY <1>8
  <2> QED
    BY <1>8, <1>11, <2>1, <2>2, <2>3, <2>4 DEF IInv, TypeOK, busVars
<1>14. ToldInv' /\ PeakInv'
  BY <1>8 DEF IInv, ToldInv, Told, LastFor, PeakInv
<1>15. SingleInv'
  <2>1. \A o, p \in passed : o.instrument = p.instrument => o = p
    BY <1>10, <1>11
  <2>2. ASSUME NEW i \in Instrument, i \notin overlapped' \/ i \in DOMAIN goal'
        PROVE  Single(i)'
    <3>1. CASE i \in Traded
      <4>1. \A order \in passed : order.instrument # i
        BY <1>5, <1>8, <2>2, <3>1 DEF UnderWay
      <4>2. i \notin overlapped
        BY <1>8, <2>2, <3>1
      <4>3. Single(i)
        BY <4>2 DEF IInv, SingleInv
      <4> QED
        BY <1>8, <4>1, <4>3 DEF Single
    <3>2. CASE i \notin Traded
      <4>1. \A w \in working : w.order.instrument # i
        BY <3>2 DEF Traded
      <4> QED
        BY <1>8, <4>1 DEF Single
    <3> QED
      BY <3>1, <3>2
  <2> QED
    BY <1>8, <2>1, <2>2 DEF SingleInv
<1>16. WithinInv'
  <2> SUFFICES ASSUME NEW i \in Instrument, i \notin overlapped'
               PROVE  /\ Within(i, positions[i])
                      /\ \A order \in passed :
                           order.instrument = i => Within(i, positions[i] + Signed(order))
                      /\ \A w \in working :
                           w.order.instrument = i => Within(i, positions[i] + Signed(w.order))
    BY <1>8 DEF WithinInv, Within, LimitsOn
  <2>1. i \notin overlapped
    BY <1>8
  <2>2. ASSUME NEW order \in passed, order.instrument = i
        PROVE  Within(i, positions[i] + Signed(order))
    <3>1. i \notin UnderWay
      BY <1>5, <1>8, <2>2
    <3>2. engine.positions[i] = positions[i]
      BY <3>1, EngineKnows DEF IInv, UnderWay
    <3>3. positions[i] + Signed(order) \in Int
      BY <1>11, SignedType DEF IInv, TypeOK
    <3>4. engine.positions[i] + Signed(order) \in Int
      BY <3>2, <3>3
    <3> QED
      BY <1>4, <2>2, <3>2, <3>4, PassedWithin
  <2> QED
    BY <2>1, <2>2 DEF IInv, WithinInv
<1>17. GoalInv'
  <2> SUFFICES ASSUME NEW i \in DOMAIN goal'
               PROVE  /\ \A order \in passed :
                           order.instrument = i => positions[i] + Signed(order) = goal'[i]
                      /\ \A w \in working : w.order.instrument # i
                      /\ (\A order \in passed : order.instrument # i) => positions[i] = goal'[i]
    BY <1>8 DEF GoalInv
  <2>1. i \in Instrument /\ i \notin excluded /\ i \notin Traded
    BY <1>8
  <2>2. goal'[i] = positions[i] + deltas[i] /\ positions[i] \in Int /\ deltas[i] \in Int
    BY <1>8, <1>9, <2>1 DEF IInv, TypeOK
  <2>3. \A w \in working : w.order.instrument # i
    BY <2>1 DEF Traded
  <2>4. \A order \in passed : order.instrument = i => positions[i] + Signed(order) = goal'[i]
    BY <1>10, <1>11, <2>2
  <2>5. ASSUME \A order \in passed : order.instrument # i
        PROVE  positions[i] = goal'[i]
    <3>1. \A order \in orders : order.instrument # i
      BY <1>6, <2>1, <2>5
    <3>2. deltas[i] = 0
      BY <1>10, <2>1, <3>1
    <3> QED
      BY <2>2, <3>2
  <2> QED
    BY <2>3, <2>4, <2>5
<1> QED
  BY <1>13, <1>14, <1>15, <1>16, <1>17 DEF IInv

LEMMA EngineUpdates ==
  ASSUME NEW e \in Engine
  PROVE  /\ OnOrderSubmitted(e) \in Engine /\ OnOrderSubmitted(e).positions = e.positions
         /\ OnOrderSubmitted(e).peak = e.peak /\ OnOrderSubmitted(e).value = e.value
         /\ OnOrderCompleted(e) \in Engine /\ OnOrderCompleted(e).positions = e.positions
         /\ OnOrderCompleted(e).peak = e.peak /\ OnOrderCompleted(e).value = e.value
         /\ \A i \in Instrument, q \in Int :
              /\ OnPosition(e, i, q) \in Engine
              /\ OnPosition(e, i, q).peak = e.peak /\ OnPosition(e, i, q).value = e.value
              /\ OnPosition(e, i, q).positions = [e.positions EXCEPT ![i] = q]
<1>1. PICK pos \in [Instrument -> Int], n \in Nat, peak \in Nat, val \in Int :
        e = [positions |-> pos, openOrders |-> n, peak |-> peak, value |-> val]
  BY DEF Engine
<1>2. /\ OnOrderSubmitted(e) = [positions |-> pos, openOrders |-> n + 1, peak |-> peak, value |-> val]
      /\ n + 1 \in Nat
  BY <1>1 DEF OnOrderSubmitted
<1>3. PICK less \in Nat : OnOrderCompleted(e) = [positions |-> pos, openOrders |-> less,
                                                 peak |-> peak, value |-> val]
  <2>1. PICK less : less = IF n = 0 THEN 0 ELSE n - 1
    OBVIOUS
  <2>2. less \in Nat
    BY <2>1
  <2>3. OnOrderCompleted(e) = [positions |-> pos, openOrders |-> less, peak |-> peak, value |-> val]
    BY <1>1, <2>1 DEF OnOrderCompleted
  <2> QED
    BY <2>2, <2>3
<1>4. ASSUME NEW i \in Instrument, NEW q \in Int
      PROVE  OnPosition(e, i, q) = [positions |-> [pos EXCEPT ![i] = q], openOrders |-> n,
                                    peak |-> peak, value |-> val]
  BY <1>1 DEF OnPosition
<1>5. /\ OnOrderSubmitted(e) \in Engine /\ OnOrderSubmitted(e).positions = pos
      /\ OnOrderSubmitted(e).peak = peak /\ OnOrderSubmitted(e).value = val
  <2>1. PICK f : f = OnOrderSubmitted(e)
    OBVIOUS
  <2>2. f \in Engine /\ f.positions = pos /\ f.peak = peak /\ f.value = val
    BY <1>2, <2>1 DEF Engine
  <2> QED
    BY <2>1, <2>2
<1>6. /\ OnOrderCompleted(e) \in Engine /\ OnOrderCompleted(e).positions = pos
      /\ OnOrderCompleted(e).peak = peak /\ OnOrderCompleted(e).value = val
  <2>1. PICK f : f = OnOrderCompleted(e)
    OBVIOUS
  <2>2. f \in Engine /\ f.positions = pos /\ f.peak = peak /\ f.value = val
    BY <1>3, <2>1 DEF Engine
  <2> QED
    BY <2>1, <2>2
<1>7. ASSUME NEW i \in Instrument, NEW q \in Int
      PROVE  /\ OnPosition(e, i, q) \in Engine
             /\ OnPosition(e, i, q).peak = peak /\ OnPosition(e, i, q).value = val
             /\ OnPosition(e, i, q).positions = [pos EXCEPT ![i] = q]
  <2>1. PICK f : f = OnPosition(e, i, q)
    OBVIOUS
  <2>2. PICK moved : moved = [pos EXCEPT ![i] = q]
    OBVIOUS
  <2>3. moved \in [Instrument -> Int]
    BY <2>2
  <2>4. f = [positions |-> moved, openOrders |-> n, peak |-> peak, value |-> val]
    BY <1>4, <2>1, <2>2
  <2>5. f \in Engine /\ f.positions = moved /\ f.peak = peak /\ f.value = val
    BY <2>3, <2>4 DEF Engine
  <2> QED
    BY <2>1, <2>2, <2>5
<1>8. e.positions = pos /\ e.peak = peak /\ e.value = val
  BY <1>1
<1> QED
  BY <1>5, <1>6, <1>7, <1>8

LEMMA Send_Inv ==
  ASSUME IInv, NEW order \in toSend, Send(order)
  PROVE  IInv'
<1>1. PICK w : w = [order |-> order, number |-> rebalances]
  OBVIOUS
<1>2. /\ toSend' = toSend \ {order} /\ working' = working \cup {w}
      /\ engine' = OnOrderSubmitted(engine)
      /\ UNCHANGED <<positions, events, rebalances, busVars, goal, overlapped, unreported,
                     highest>>
  BY <1>1 DEF Send
<1>3. order \in Order /\ order.instrument \in Instrument /\ w.order = order
  BY <1>1 DEF IInv, TypeOK, Order
<1>4. /\ engine' \in Engine /\ engine'.positions = engine.positions
      /\ engine'.peak = engine.peak /\ engine'.value = engine.value
  BY <1>2, EngineUpdates DEF IInv, TypeOK
<1>5. TypeOK'
  <2>1. rebalances \in Nat
    BY DEF IInv, TypeOK
  <2>2. w \in SentOrder
    BY <1>1, <1>3, <2>1 DEF SentOrder
  <2> QED
    BY <1>2, <1>4, <2>2 DEF IInv, TypeOK, busVars
<1>6. ToldInv' /\ PeakInv'
  BY <1>2, <1>4 DEF IInv, ToldInv, Told, LastFor, PeakInv
<1>7. \A o \in toSend' : o \in toSend /\ o.instrument # order.instrument
  BY <1>2 DEF IInv, SingleInv
<1>8. SingleInv'
  <2>1. ASSUME NEW i \in Instrument, i \notin overlapped \/ i \in DOMAIN goal
        PROVE  Single(i)'
    <3>1. Single(i)
      BY <2>1 DEF IInv, SingleInv
    <3>2. \A o \in toSend', v \in working' : o.instrument = i => v.order.instrument # i
      BY <1>2, <1>3, <1>7, <3>1 DEF Single
    <3>3. \A u, v \in working' : u.order.instrument = i /\ v.order.instrument = i => u = v
      BY <1>2, <1>3, <3>1 DEF Single
    <3> QED
      BY <3>2, <3>3 DEF Single
  <2>2. \A o, p \in toSend' : o.instrument = p.instrument => o = p
    BY <1>2 DEF IInv, SingleInv
  <2> QED
    BY <1>2, <2>1, <2>2 DEF SingleInv
<1>9. WithinInv'
  BY <1>2, <1>3 DEF IInv, WithinInv, Within, LimitsOn
<1>10. GoalInv'
  <2> SUFFICES ASSUME NEW i \in DOMAIN goal
               PROVE  /\ \A o \in toSend' : o.instrument = i => positions[i] + Signed(o) = goal[i]
                      /\ \A v \in working' :
                           v.order.instrument = i => positions[i] + Signed(v.order) = goal[i]
                      /\ (\A o \in toSend' : o.instrument # i)
                         /\ (\A v \in working' : v.order.instrument # i) => positions[i] = goal[i]
    BY <1>2 DEF GoalInv
  <2>1. /\ \A o \in toSend : o.instrument = i => positions[i] + Signed(o) = goal[i]
        /\ \A v \in working : v.order.instrument = i => positions[i] + Signed(v.order) = goal[i]
        /\ (\A o \in toSend : o.instrument # i) /\ (\A v \in working : v.order.instrument # i)
             => positions[i] = goal[i]
    BY DEF IInv, GoalInv
  <2>2. w \in working' /\ \A o \in toSend : o = order \/ o \in toSend'
    BY <1>2
  <2> QED
    BY <1>2, <1>3, <2>1, <2>2
<1> QED
  BY <1>5, <1>6, <1>8, <1>9, <1>10 DEF IInv

LEMMA SendRefused_Inv ==
  ASSUME IInv, NEW order \in toSend, SendRefused(order)
  PROVE  IInv'
<1>1. PICK dropped : dropped = {o.instrument : o \in toSend \ toSend'}
  OBVIOUS
<1>2. /\ toSend' \subseteq toSend
      /\ goal' = [i \in DOMAIN goal \ dropped |-> goal[i]]
      /\ UNCHANGED <<engine, positions, events, working, rebalances, busVars, overlapped,
                     unreported, highest>>
  BY <1>1 DEF SendRefused
<1>3. TypeOK'
  BY <1>2 DEF IInv, TypeOK, busVars
<1>4. ToldInv' /\ WithinInv' /\ PeakInv'
  BY <1>2 DEF IInv, ToldInv, Told, LastFor, WithinInv, Within, LimitsOn, PeakInv
<1>5. SingleInv'
  BY <1>2 DEF IInv, SingleInv, Single
<1>6. GoalInv'
  <2> SUFFICES ASSUME NEW i \in DOMAIN goal'
               PROVE  /\ \A o \in toSend' : o.instrument = i => positions[i] + Signed(o) = goal'[i]
                      /\ \A w \in working :
                           w.order.instrument = i => positions[i] + Signed(w.order) = goal'[i]
                      /\ (\A o \in toSend' : o.instrument # i)
                         /\ (\A w \in working : w.order.instrument # i) => positions[i] = goal'[i]
    BY <1>2 DEF GoalInv
  <2>1. i \in DOMAIN goal /\ i \notin dropped /\ goal'[i] = goal[i]
    BY <1>2
  <2>2. \A o \in toSend : o.instrument = i => o \in toSend'
    BY <1>1, <2>1
  <2> QED
    BY <1>2, <2>1, <2>2 DEF IInv, GoalInv
<1> QED
  BY <1>3, <1>4, <1>5, <1>6 DEF IInv

LEMMA Fill_Inv ==
  ASSUME IInv, NEW w \in working, Fill(w)
  PROVE  IInv'
<1> DEFINE order == w.order
           i == order.instrument
<1>1. PICK event : event = [instrument |-> i, quantity |-> positions'[i]]
  OBVIOUS
<1>2. /\ positions' = [positions EXCEPT ![i] = @ + Signed(order)]
      /\ \/ running /\ events' = Append(events, event) /\ unreported' = unreported \ {i}
         \/ ~running /\ events' = events /\ unreported' = unreported \cup {i}
      /\ working' = working \ {w} /\ engine' = OnOrderCompleted(engine) /\ inHand' = Nothing
      /\ UNCHANGED <<toSend, rebalances, running, starts, goal, overlapped, highest>>
  BY <1>1 DEF Fill
<1>3. order \in Order /\ i \in Instrument /\ Signed(order) \in Int
  BY SignedType DEF IInv, TypeOK, SentOrder, Order
<1>4. /\ engine' \in Engine /\ engine'.positions = engine.positions
      /\ engine'.peak = engine.peak /\ engine'.value = engine.value
  BY <1>2, EngineUpdates DEF IInv, TypeOK
<1>5. /\ positions' \in [Instrument -> Int]
      /\ positions'[i] = positions[i] + Signed(order)
      /\ \A j \in Instrument : j # i => positions'[j] = positions[j]
  BY <1>2, <1>3 DEF IInv, TypeOK
<1>6. event \in PositionEvent /\ event.instrument = i /\ event.quantity = positions'[i]
  BY <1>1, <1>3, <1>5 DEF PositionEvent
<1>7. ASSUME running
      PROVE  /\ events' \in Seq(PositionEvent) /\ Len(events') = Len(events) + 1
             /\ Len(events) \in Nat
             /\ \A m \in 1 .. Len(events) : events'[m] = events[m]
             /\ events'[Len(events) + 1] = event
  <2>1. events' = Append(events, event) /\ events \in Seq(PositionEvent)
    BY <1>2, <1>7 DEF IInv, TypeOK
  <2> QED
    BY <1>6, <2>1, AppendProperties, LenProperties
<1>8. TypeOK'
  <2>1. events' \in Seq(PositionEvent)
    BY <1>2, <1>7 DEF IInv, TypeOK
  <2>2. unreported' \in SUBSET Instrument
    BY <1>2, <1>3 DEF IInv, TypeOK
  <2> QED
    BY <1>2, <1>4, <1>5, <2>1, <2>2 DEF IInv, TypeOK
<1>9. PeakInv'
  BY <1>2, <1>4 DEF IInv, PeakInv
<1>10. ToldInv'
  <2> SUFFICES ASSUME NEW j \in Instrument, j \notin unreported' PROVE Told(j)'
    BY DEF ToldInv
  <2>1. j # i => Told(j)
    BY <1>2 DEF IInv, ToldInv
  <2>2. CASE ~running
    <3>1. j # i /\ events' = events
      BY <1>2, <2>2
    <3> QED
      BY <1>4, <1>5, <2>1, <3>1 DEF Told, LastFor
  <2>3. CASE running
    <3>1. \A m \in 1 .. Len(events') : m \in 1 .. Len(events) \/ m = Len(events) + 1
      BY <1>7, <2>3
    <3>2. \A m \in 1 .. Len(events) : m \in 1 .. Len(events')
      BY <1>7, <2>3
    <3>3. Len(events) + 1 \in 1 .. Len(events')
      BY <1>7, <2>3
    <3>4. CASE j = i
      <4>1. \A m \in 1 .. Len(events) : m < Len(events) + 1
        BY <1>7, <2>3
      <4>2. \A m \in 1 .. Len(events') : LastFor(j, m)' => m = Len(events) + 1
        BY <1>6, <1>7, <2>3, <3>1, <3>3, <3>4, <4>1 DEF LastFor
      <4> QED
        BY <1>6, <1>7, <2>3, <3>3, <3>4, <4>2 DEF Told
    <3>5. CASE j # i
      <4>1. \A m \in 1 .. Len(events') : LastFor(j, m)' => m \in 1 .. Len(events) /\ LastFor(j, m)
        BY <1>6, <1>7, <2>3, <3>1, <3>2, <3>5 DEF LastFor
      <4> QED
        BY <1>4, <1>5, <1>7, <2>1, <2>3, <3>2, <3>5, <4>1 DEF Told
    <3> QED
      BY <3>4, <3>5
  <2> QED
    BY <2>2, <2>3
<1>12. SingleInv'
  BY <1>2 DEF IInv, SingleInv, Single
<1>13. ASSUME Single(i)
       PROVE  /\ \A o \in toSend : o.instrument # i
              /\ \A v \in working' : v.order.instrument # i
  BY <1>2, <1>13 DEF Single
<1>14. WithinInv'
  <2> SUFFICES ASSUME NEW j \in Instrument, j \notin overlapped
               PROVE  /\ Within(j, positions'[j])
                      /\ \A o \in toSend : o.instrument = j => Within(j, positions'[j] + Signed(o))
                      /\ \A v \in working' :
                           v.order.instrument = j => Within(j, positions'[j] + Signed(v.order))
    BY <1>2 DEF WithinInv, Within, LimitsOn
  <2>1. /\ Within(j, positions[j])
        /\ \A o \in toSend : o.instrument = j => Within(j, positions[j] + Signed(o))
        /\ \A v \in working : v.order.instrument = j => Within(j, positions[j] + Signed(v.order))
    BY DEF IInv, WithinInv
  <2>2. CASE j = i
    <3>1. Single(i)
      BY <2>2 DEF IInv, SingleInv
    <3> QED
      BY <1>5, <1>13, <2>1, <2>2, <3>1
  <2>3. CASE j # i
    BY <1>2, <1>5, <2>1, <2>3
  <2> QED
    BY <2>2, <2>3
<1>15. GoalInv'
  <2> SUFFICES ASSUME NEW j \in DOMAIN goal
               PROVE  /\ \A o \in toSend : o.instrument = j => positions'[j] + Signed(o) = goal[j]
                      /\ \A v \in working' :
                           v.order.instrument = j => positions'[j] + Signed(v.order) = goal[j]
                      /\ (\A o \in toSend : o.instrument # j)
                         /\ (\A v \in working' : v.order.instrument # j) => positions'[j] = goal[j]
    BY <1>2 DEF GoalInv
  <2>1. /\ \A o \in toSend : o.instrument = j => positions[j] + Signed(o) = goal[j]
        /\ \A v \in working : v.order.instrument = j => positions[j] + Signed(v.order) = goal[j]
        /\ (\A o \in toSend : o.instrument # j) /\ (\A v \in working : v.order.instrument # j)
             => positions[j] = goal[j]
    BY DEF IInv, GoalInv
  <2>2. j \in Instrument
    BY DEF IInv, TypeOK
  <2>3. CASE j = i
    <3>1. Single(i)
      BY <1>3, <2>3 DEF IInv, SingleInv
    <3> QED
      BY <1>5, <1>13, <2>1, <2>3, <3>1
  <2>4. CASE j # i
    <3>1. \A v \in working : v = w \/ v \in working'
      BY <1>2
    <3> QED
      BY <1>2, <1>5, <2>1, <2>2, <2>4, <3>1
  <2> QED
    BY <2>3, <2>4
<1> QED
  BY <1>8, <1>9, <1>10, <1>12, <1>14, <1>15 DEF IInv

LEMMA Deliver_Inv ==
  ASSUME IInv, Deliver
  PROVE  IInv'
<1>1. PICK event : event = Head(events)
  OBVIOUS
<1>2. /\ events # <<>> /\ engine' = OnPosition(engine, event.instrument, event.quantity)
      /\ events' = Tail(events) /\ inHand' = Nothing
      /\ UNCHANGED <<positions, toSend, working, rebalances, running, starts, goal,
                     overlapped, unreported, highest>>
  BY <1>1 DEF Deliver
<1>3. /\ events' \in Seq(PositionEvent) /\ Len(events') = Len(events) - 1
      /\ Len(events) \in Nat \ {0} /\ 1 \in 1 .. Len(events) /\ event = events[1]
      /\ \A m \in 1 .. Len(events') : events'[m] = events[m + 1] /\ m + 1 \in 1 .. Len(events)
  BY <1>1, <1>2, HeadTailProperties, LenProperties, EmptySeq DEF IInv, TypeOK
<1>4. event \in PositionEvent
  BY <1>3, ElementOfSeq DEF IInv, TypeOK
<1>5. event.instrument \in Instrument /\ event.quantity \in Int
  BY <1>4 DEF PositionEvent
<1>6. /\ engine' \in Engine
      /\ engine'.peak = engine.peak /\ engine'.value = engine.value
      /\ engine'.positions = [engine.positions EXCEPT ![event.instrument] = event.quantity]
  BY <1>2, <1>5, EngineUpdates DEF IInv, TypeOK
<1>7. TypeOK' /\ PeakInv'
  BY <1>2, <1>3, <1>6 DEF IInv, TypeOK, PeakInv
<1>8. SingleInv' /\ WithinInv' /\ GoalInv'
  BY <1>2 DEF IInv, SingleInv, Single, WithinInv, Within, LimitsOn, GoalInv
<1>9. \A n \in 1 .. Len(events) : n = 1 \/ (n - 1 \in 1 .. Len(events') /\ events'[n - 1] = events[n])
  <2> SUFFICES ASSUME NEW n \in 1 .. Len(events), n # 1
               PROVE  n - 1 \in 1 .. Len(events') /\ events'[n - 1] = events[n]
    OBVIOUS
  <2>1. n - 1 \in 1 .. Len(events') /\ (n - 1) + 1 = n
    BY <1>3
  <2> QED
    BY <1>3, <2>1
<1>10. ToldInv'
  <2> SUFFICES ASSUME NEW i \in Instrument, i \notin unreported PROVE Told(i)'
    BY <1>2 DEF ToldInv
  <2>1. Told(i)
    BY DEF IInv, ToldInv
  <2>2. engine'.positions[i] = IF i = event.instrument THEN event.quantity ELSE engine.positions[i]
    <3>1. engine.positions \in [Instrument -> Int]
      BY DEF IInv, TypeOK, Engine
    <3> QED
      BY <1>6, <3>1
  <2>3. ASSUME NEW m \in 1 .. Len(events'), LastFor(i, m)'
        PROVE  events'[m].quantity = positions[i]
    <3>1. events[m + 1].instrument = i /\ m + 1 \in 1 .. Len(events)
      BY <1>3, <2>3 DEF LastFor
    <3>2. ASSUME NEW n \in 1 .. Len(events), m + 1 < n
          PROVE  events[n].instrument # i
      <4>1. n - 1 \in 1 .. Len(events') /\ events'[n - 1] = events[n] /\ m < n - 1
        BY <1>3, <1>9, <3>2
      <4> QED
        BY <2>3, <4>1 DEF LastFor
    <3>3. LastFor(i, m + 1)
      BY <3>1, <3>2 DEF LastFor
    <3> QED
      BY <1>3, <2>1, <3>1, <3>3 DEF Told
  <2>4. ASSUME \A m \in 1 .. Len(events') : events'[m].instrument # i
        PROVE  engine'.positions[i] = positions[i]
    <3>1. \A n \in 1 .. Len(events) : 1 < n => events[n].instrument # i
      BY <1>3, <1>9, <2>4
    <3>2. CASE event.instrument = i
      <4>1. LastFor(i, 1)
        BY <1>3, <3>1, <3>2 DEF LastFor
      <4> QED
        BY <1>3, <2>1, <2>2, <3>2, <4>1 DEF Told
    <3>3. CASE event.instrument # i
      <4>1. \A n \in 1 .. Len(events) : events[n].instrument # i
        BY <1>3, <3>1, <3>3
      <4> QED
        BY <2>1, <2>2, <3>3, <4>1 DEF Told
    <3> QED
      BY <3>2, <3>3
  <2> QED
    BY <1>2, <2>3, <2>4 DEF Told
<1> QED
  BY <1>7, <1>8, <1>10 DEF IInv

LEMMA StopBus_Inv ==
  ASSUME IInv, StopBus
  PROVE  IInv'
<1>1. /\ running' = FALSE
      /\ inHand' \in {Nothing} \cup {FillOf(w) : w \in working}
                     \cup {OldestPosition : e \in ToSet(events)}
      /\ UNCHANGED <<engine, positions, events, toSend, working, rebalances, starts, goal,
                     overlapped, unreported, highest>>
  BY DEF StopBus
<1>2. inHand' \in {Nothing, OldestPosition} \cup {FillOf(w) : w \in SentOrder}
  BY <1>1 DEF IInv, TypeOK
<1>3. TypeOK'
  BY <1>1, <1>2 DEF IInv, TypeOK
<1> QED
  BY <1>1, <1>3 DEF IInv, ToldInv, Told, LastFor, SingleInv, Single, WithinInv, Within, LimitsOn,
                    GoalInv, PeakInv

LEMMA StartBus_Inv ==
  ASSUME IInv, StartBus
  PROVE  IInv'
<1>1. /\ running' = TRUE /\ starts' = starts + 1 /\ starts < MaxStarts
      /\ UNCHANGED <<engine, positions, events, toSend, working, rebalances, inHand, goal,
                     overlapped, unreported, highest>>
  BY DEF StartBus
<1>2. starts' \in 1 .. MaxStarts
  BY <1>1, InputAssumption DEF IInv, TypeOK
<1>3. TypeOK'
  BY <1>1, <1>2 DEF IInv, TypeOK
<1> QED
  BY <1>1, <1>3 DEF IInv, ToldInv, Told, LastFor, SingleInv, Single, WithinInv, Within, LimitsOn,
                    GoalInv, PeakInv

LEMMA ReportValue_Inv ==
  ASSUME IInv, NEW value \in Value, ReportValue(value)
  PROVE  IInv'
<1>1. PICK pos \in [Instrument -> Int], n \in Nat, peak \in Nat, val \in Int :
        engine = [positions |-> pos, openOrders |-> n, peak |-> peak, value |-> val]
  BY DEF IInv, TypeOK, Engine
<1>2. PICK top : top = IF value > peak THEN value ELSE peak
  OBVIOUS
<1>3. value \in Nat
  BY InputAssumption, Zenon
<1>4. top \in Nat /\ engine' = [positions |-> pos, openOrders |-> n, peak |-> top, value |-> value]
  BY <1>1, <1>2, <1>3 DEF ReportValue, UpdatePortfolioValue
<1>5. /\ engine' \in Engine /\ engine'.positions = engine.positions
      /\ engine'.peak = top /\ engine'.value = value /\ engine.peak = peak
  BY <1>1, <1>3, <1>4 DEF Engine
<1>6. /\ UNCHANGED <<positions, events, toSend, working, rebalances, busVars, goal,
                     overlapped, unreported>>
      /\ highest' = IF value > highest THEN value ELSE highest
  BY DEF ReportValue
<1>7. highest' = top
  BY <1>2, <1>5, <1>6 DEF IInv, PeakInv
<1>8. TypeOK' /\ PeakInv'
  BY <1>3, <1>4, <1>5, <1>6, <1>7 DEF IInv, TypeOK, PeakInv, busVars
<1>9. ToldInv' /\ SingleInv' /\ WithinInv' /\ GoalInv'
  BY <1>5, <1>6 DEF IInv, ToldInv, Told, LastFor, SingleInv, Single, WithinInv, Within, LimitsOn, GoalInv
<1> QED
  BY <1>8, <1>9 DEF IInv

LEMMA NextInv == IInv /\ [Next]_vars => IInv'
<1> SUFFICES ASSUME IInv, [Next]_vars PROVE IInv'
  OBVIOUS
<1>1. CASE UNCHANGED vars
  BY <1>1 DEF vars, busVars, IInv, TypeOK, ToldInv, Told, LastFor, SingleInv, Single, WithinInv, Within,
              LimitsOn, GoalInv, PeakInv
<1> QED
  BY <1>1, Rebalance_Inv, Send_Inv, SendRefused_Inv, Fill_Inv, Deliver_Inv, StopBus_Inv,
     StartBus_Inv, ReportValue_Inv DEF Next

LEMMA Invariance == Spec => []IInv
<1> QED
  BY InitInv, NextInv, PTL DEF Spec

THEOREM TypeCorrect == Spec => []TypeOK
<1>1. IInv => TypeOK
  BY DEF IInv
<1> QED
  BY <1>1, Invariance, PTL

\* The risk engine's positions are those of the OMS but for the events on the bus
\* and the newest event of an instrument that a stopped bus refused.
THEOREM EngineCorrect == Spec => []EngineCatchesUp
<1>1. IInv => EngineCatchesUp
  BY EngineKnows DEF IInv, EngineCatchesUp
<1> QED
  BY <1>1, Invariance, PTL

\* Without trades that overlap no position leaves its limits, however the orders,
\* fills and events of several rebalances interleave.
THEOREM LimitCorrect == Spec => []PositionWithinLimit
<1>1. IInv => PositionWithinLimit
  BY DEF IInv, WithinInv, Within, LimitsOn, PositionWithinLimit
<1> QED
  BY <1>1, Invariance, PTL

\* The orders of a rebalance that are filled lead to its targets.
THEOREM TargetCorrect == Spec => []RebalanceReachesTarget
<1>1. IInv => RebalanceReachesTarget
  BY DEF IInv, GoalInv, RebalanceReachesTarget
<1> QED
  BY <1>1, Invariance, PTL

\* The peak the engine keeps is the highest value ever reported, so that an order
\* that passes is not one a drawdown limit forbids.
THEOREM DrawdownCorrect == Spec => DrawdownStopsTrading
<1> DEFINE Stopped ==
      \A limit \in Limit :
        /\ limit.kind = "MaxDrawdown" /\ limit.enabled
        /\ (highest - engine.value) * 100 > limit.max * highest
        => toSend' \subseteq toSend
<1>1. IInv /\ [Next]_vars => [Stopped]_vars
  <2> SUFFICES ASSUME IInv, Next,
                      NEW limit \in Limit, limit.kind = "MaxDrawdown", limit.enabled,
                      (highest - engine.value) * 100 > limit.max * highest
               PROVE  toSend' \subseteq toSend
    OBVIOUS
  <2>1. /\ limit.max \in Nat /\ limit.instrument = AnyInstrument
        /\ engine.peak = highest /\ highest \in Nat /\ engine.value \in Nat
    BY LimitAssumption DEF IInv, TypeOK, PeakInv
  <2>2. highest # 0
    <3> SUFFICES ASSUME highest = 0 PROVE FALSE
      OBVIOUS
    <3>1. limit.max * highest = 0
      BY <2>1
    <3> QED
      BY <2>1, <3>1
  <2>3. BreachesDrawdown(limit, engine)
    BY <2>1, <2>2 DEF BreachesDrawdown
  <2>4. \A order, price : limit \in CheckOrder(order, price, engine)
    BY <2>1, <2>3 DEF CheckOrder, AppliesTo
  <2>5. \A orders, prices : PassedOrders(orders, prices, engine) = {}
    BY <2>4 DEF PassedOrders
  <2>6. ASSUME NEW targets, NEW value, NEW prices, Rebalance(targets, value, prices)
        PROVE  toSend' = {}
    BY <2>5, <2>6 DEF Rebalance
  <2>7. CASE \E order \in toSend : Send(order) \/ SendRefused(order)
    BY <2>7 DEF Send, SendRefused
  <2>8. CASE \E w \in working : Fill(w)
    BY <2>8 DEF Fill
  <2>9. CASE Deliver \/ StopBus \/ StartBus
    BY <2>9 DEF Deliver, StopBus, StartBus
  <2>10. CASE \E value \in Value : ReportValue(value)
    BY <2>10 DEF ReportValue
  <2> QED
    BY <2>6, <2>7, <2>8, <2>9, <2>10 DEF Next
<1>2. DrawdownStopsTrading <=> [][Stopped]_vars
  BY DEF DrawdownStopsTrading
<1> QED
  BY <1>1, Invariance, PTL DEF Spec, DrawdownStopsTrading
================================================================================
