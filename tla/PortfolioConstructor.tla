------------------------- MODULE PortfolioConstructor -------------------------
(***************************************************************************)
(* From target weights to orders (strategy/portfolio.py).  A weight is an  *)
(* integer number of WeightUnit-ths of the portfolio.                      *)
(***************************************************************************)
EXTENDS RiskEngine

CONSTANTS WeightUnit

ASSUME UnitAssumption == WeightUnit \in Nat \ {0}

\* The instruments with a target and their weights.
Targets(weights) == UNION {[S -> weights] : S \in SUBSET Instrument}

\* quantize(Decimal("1"), ROUND_DOWN): towards zero.
TruncDiv(n, d) == IF n >= 0 THEN n \div d ELSE -((-n) \div d)

\* A target without a price is skipped.
TargetQuantities(targets, value, prices) ==
  [i \in {j \in DOMAIN targets : prices[j] # NoPrice} |->
     TruncDiv(targets[i] * value, WeightUnit * prices[i])]

\* Mutant: a position that is not a target is kept.
Deltas_Keep(quantities, positions) ==
  [i \in Instrument |-> IF i \in DOMAIN quantities THEN quantities[i] - positions[i] ELSE 0]

\* What is not among the targets is closed.
Deltas(quantities, positions) ==
  [i \in Instrument |->
     (IF i \in DOMAIN quantities THEN quantities[i] ELSE 0) - positions[i]]

\* At most one order for each instrument.
DeltasToOrders(deltas) ==
  {[instrument |-> i, side |-> IF deltas[i] > 0 THEN "BUY" ELSE "SELL",
    quantity |-> AbsOf(deltas[i])] : i \in {j \in Instrument : deltas[j] # 0}}

\* Sells come before buys; a Python set decides the order among themselves.
MayComeFirst(order, orders) ==
  order.side = "BUY" => \A other \in orders : other.side = "BUY"

RebalanceOrders(targets, positions, value, prices) ==
  DeltasToOrders(Deltas(TargetQuantities(targets, value, prices), positions))

\* The orders the risk engine lets pass, each checked against the same state.
PassedOrders(orders, prices, engine) ==
  {order \in orders : CheckOrder(order, prices[order.instrument], engine) = {}}
===============================================================================
