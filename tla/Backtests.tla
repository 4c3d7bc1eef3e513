------------------------------- MODULE Backtests -------------------------------
(***************************************************************************)
(* The two entry points of the vectorized engine on any prices: a backtest *)
(* of any signals, next to the position ledger of the order management     *)
(* system that is filled with the same changes of position, and a walk-    *)
(* forward analysis.  Prices and signals come bar by bar, and after every  *)
(* bar the results of the arrays so far are compared with references.      *)
(***************************************************************************)
EXTENDS Optimization, PositionLedger, FiniteSets

CONSTANTS Signal,     \* signals, fractions with the denominator SizeUnit
          SizeUnit,   \* units of the ledger per whole position
          Params,     \* the parameter grid, a sequence
          Ratio,      \* train_ratios
          MaxPrices   \* bound: bars of a walk-forward analysis

\* Every signal is a whole number of the units the ledger counts in.
ASSUME SignalAssumption ==
  /\ Signal \subseteq Fraction /\ SizeUnit \in Nat \ {0}
  /\ \A signal \in Signal : Times(signal, SizeUnit)[2] = 1

\* A ratio lies strictly between 0 and 1 and the grid is not empty, as
\* TimeSeriesSplit and grid_search() require; signal_func gives one signal per bar.
ASSUME WindowAssumption ==
  /\ \A ratio \in Ratio : ratio \in Fraction /\ 0 < ratio[1] /\ ratio[1] < ratio[2]
  /\ Len(Params) \in Nat \ {0} /\ DOMAIN Params = 1 .. Len(Params) /\ MaxPrices \in Nat
  /\ \A m \in 1 .. MaxPrices : \A ps \in [1 .. m -> Price] : \A j \in DOMAIN Params :
       SignalFunc(ps, Params[j]) \in [1 .. m -> Fraction]

VARIABLES job,      \* "backtest" or "walk-forward"
          prices, signals

allVars == <<vars, job, prices, signals>>

Held == ComputePositions(signals)
Trades == ExtractTrades(prices, Held)

BacktestsInit ==
  /\ Init
  /\ job \in {"backtest", "walk-forward"} /\ prices = <<>> /\ signals = <<>>

\* A bar of a backtest.  The ledger gets the change of the clipped signal.
AddBar(price, signal) ==
  /\ job = "backtest" /\ Len(prices) < MaxFills
  /\ prices' = Append(prices, price) /\ signals' = Append(signals, signal)
  /\ LET change == Times(Minus(Last(ComputePositions(signals')),
                               At(Held, Len(signals))), SizeUnit)[1]
     IN IF change = 0 THEN UNCHANGED vars ELSE ApplyFill(change, price)
  /\ UNCHANGED job

\* A bar of a walk-forward analysis.
AddPrice(price) ==
  /\ job = "walk-forward" /\ Len(prices) < MaxPrices
  /\ prices' = Append(prices, price)
  /\ UNCHANGED <<vars, job, signals>>

BacktestsNext ==
  \E price \in Price : AddPrice(price) \/ \E signal \in Signal : AddBar(price, signal)

BacktestsSpec == BacktestsInit /\ [][BacktestsNext]_allVars

--------------------------------------------------------------------------------
(* Properties *)

\* The profit of the trades is what the ledger of the order management system
\* books for the same fills, the rest closed at the last price: unless a position
\* changes its size and keeps its sign.
TradesBookLedgerProfit ==
  (/\ signals # <<>>
   /\ \A i \in 2 .. Len(signals) :
        Sign(Held[i]) = Sign(Held[i - 1]) => Held[i] = Held[i - 1])
  => Times(Total(Pnls(Trades)), SizeUnit) =
       Plus(position.realizedPnl, Realized(position, Abs(position.quantity), Last(prices)))

\* A signal acts from the next bar on: without costs the equity does not depend
\* on the signal of the last bar, and when all of the capital is either invested
\* or not it is the capital multiplied by what each trade multiplied it by.
ActsFromNextBar ==
  signals # <<>> =>
    LET equity == Last(EquityCurve(prices, Held, Zero))
        Growth(trade) == Quotient(Whole(prices[trade.exit]), Whole(prices[trade.entry]))
    IN /\ \A other \in Signal :
            equity = Last(EquityCurve(prices, ComputePositions(
                                        [signals EXCEPT ![Len(signals)] = other]), Zero))
       /\ (/\ \A i \in DOMAIN signals : Held[i] \in {Zero, One} /\ prices[i] > 0)
            => equity = FoldLeft(Product, Capital, [k \in DOMAIN Trades |-> Growth(Trades[k])])

\* The maximum drawdown is the worst fall from any bar to a later one, as a
\* fraction of the higher value, while the equity stays positive.  Without costs
\* it exceeds one only when a short position lost more than everything.
DrawdownIsWorstFall ==
  signals # <<>> =>
    LET equity == EquityCurve(prices, Held, CostRate)
        n == Len(equity)
        Fall(i, j) == Quotient(Minus(equity[i], equity[j]), equity[i])
        worst == MaxDrawdown(equity)
    IN /\ (\A i \in 1 .. n : Less(Zero, equity[i])) =>
            /\ \A j \in 1 .. n : \A i \in 1 .. j : LessEq(Fall(i, j), worst)
            /\ \E j \in 1 .. n : \E i \in 1 .. j : Fall(i, j) = worst
       /\ Less(One, MaxDrawdown(EquityCurve(prices, Held, Zero))) =>
            \E i \in 1 .. n : Less(Held[i], Zero)

\* The walk-forward curve has one value per bar after the first training window;
\* it compounds what each window gained, and its drawdown is no smaller than
\* that of any window.
WalkForwardCompounds ==
  \A k \in 1 .. Len(prices), ratio \in Ratio, metric \in {"total_return", "max_drawdown"} :
    (job = "walk-forward" /\ Trains(Len(prices), k, ratio)) =>
      LET curve == WalkForward(prices, Params, metric, k, ratio)
          segment == [i \in 1 .. k |-> OosEquity(prices, Params, metric, k, ratio, i)]
          Growth(s) == Quotient(Last(s), s[1])
      IN /\ Len(curve) = Len(prices) - FirstTrainEnd(Len(prices), ratio)
         /\ (/\ Less(Zero, Capital)
             /\ \A i \in 1 .. k : \A j \in DOMAIN segment[i] : Less(Zero, segment[i][j])) =>
              /\ Last(curve) = FoldLeft(Product, Capital, [i \in 1 .. k |-> Growth(segment[i])])
              /\ \A i \in 1 .. k : LessEq(MaxDrawdown(segment[i]), MaxDrawdown(curve))
================================================================================
