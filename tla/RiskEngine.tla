------------------------------ MODULE RiskEngine ------------------------------
(***************************************************************************)
(* The risk engine (strategy/risk.py): its limits, its view of the         *)
(* account, and the synchronous check of a proposed order against them.    *)
(* The sum of realized profits, which nothing reads, is left out.          *)
(***************************************************************************)
EXTENDS Integers, FiniteSets

CONSTANTS Instrument,
          Limit          \* the limits configured

AnyInstrument == "any"   \* a limit whose instrument is None
NoPrice == 0             \* no price, or a zero price, which is falsy

LimitKind == {"MaxPosition", "MaxNotional", "MaxOrderSize", "MaxDrawdown",
              "MaxOpenOrders"}

\* A drawdown limit is in percent.  Only the limits on a quantity may be for one
\* instrument.
ASSUME LimitAssumption ==
  /\ Limit \subseteq [kind : LimitKind, instrument : Instrument \cup {AnyInstrument},
                      max : Nat, enabled : BOOLEAN]
  /\ \A limit \in Limit : limit.kind \in {"MaxPosition", "MaxOrderSize"}
                           \/ limit.instrument = AnyInstrument

Order == [instrument : Instrument, side : {"BUY", "SELL"}, quantity : Nat]

Signed(order) == IF order.side = "BUY" THEN order.quantity ELSE -order.quantity

AbsOf(n) == IF n < 0 THEN -n ELSE n

\* What the engine knows: _positions, _open_order_count, _peak_value, _current_value.
Engine == [positions : [Instrument -> Int], openOrders : Nat, peak : Nat, value : Int]

NewEngine == [positions |-> [i \in Instrument |-> 0], openOrders |-> 0,
              peak |-> 0, value |-> 0]

-------------------------------------------------------------------------------
\* Mutant: the order is not added to the position.
BreachesPosition_Before(limit, order, engine) ==
  AbsOf(engine.positions[order.instrument]) > limit.max

\* The position the order would lead to, against a long or a short limit.
BreachesPosition(limit, order, engine) ==
  AbsOf(engine.positions[order.instrument] + Signed(order)) > limit.max

\* Without a price there is no check.
BreachesNotional(limit, order, price) ==
  price # NoPrice /\ order.quantity * price > limit.max

BreachesOrderSize(limit, order) == order.quantity > limit.max

\* current_drawdown_pct is 0 as long as there is no peak.
BreachesDrawdown(limit, engine) ==
  engine.peak > 0 /\ (engine.peak - engine.value) * 100 > limit.max * engine.peak

BreachesOpenOrders(limit, engine) == engine.openOrders >= limit.max

AppliesTo(limit, order) ==
  limit.enabled /\ limit.instrument \in {AnyInstrument, order.instrument}

\* check_order(): the limits an order would breach.
CheckOrder(order, price, engine) ==
  {limit \in Limit :
     /\ AppliesTo(limit, order)
     /\ \/ limit.kind = "MaxPosition" /\ BreachesPosition(limit, order, engine)
        \/ limit.kind = "MaxNotional" /\ BreachesNotional(limit, order, price)
        \/ limit.kind = "MaxOrderSize" /\ BreachesOrderSize(limit, order)
        \/ limit.kind = "MaxDrawdown" /\ BreachesDrawdown(limit, engine)
        \/ limit.kind = "MaxOpenOrders" /\ BreachesOpenOrders(limit, engine)}

-------------------------------------------------------------------------------
OnOrderSubmitted(engine) == [engine EXCEPT !.openOrders = @ + 1]

OnOrderCompleted(engine) == [engine EXCEPT !.openOrders = IF @ = 0 THEN 0 ELSE @ - 1]

\* Mutant: the peak follows the value.
UpdatePortfolioValue_Last(engine, value) == [engine EXCEPT !.value = value, !.peak = value]

UpdatePortfolioValue(engine, value) ==
  [engine EXCEPT !.value = value, !.peak = IF value > @ THEN value ELSE @]

\* Mutant: the quantity is taken for the change of the position.
OnPosition_Adds(engine, instrument, quantity) ==
  [engine EXCEPT !.positions[instrument] = @ + quantity]

OnPosition(engine, instrument, quantity) ==
  [engine EXCEPT !.positions[instrument] = quantity]
===============================================================================
