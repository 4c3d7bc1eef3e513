-------------------------- MODULE VectorizedBacktest --------------------------
(***************************************************************************)
(* The vectorized backtest (backtest/vectorized.py) and the metrics of its *)
(* result (backtest/metrics.py): arrays of prices and signals, one of each *)
(* per bar, to positions, equity curve, round-trip trades and metrics.     *)
(* Floats are exact fractions here, prices are whole numbers.  The metrics *)
(* that take roots and powers (Sharpe, Sortino, volatility, annualization) *)
(* are left out.                                                           *)
(***************************************************************************)
EXTENDS Positions, SequencesExt

CONSTANTS Capital,    \* initial_capital
          CostRate    \* commission_rate + slippage_rate

\* Fractions are compared as pairs, so the capital is in lowest terms.
ASSUME CapitalAssumption == /\ Capital \in Fraction /\ CostRate \in Fraction
                            /\ Lowest[Capital] = Capital

One == Whole(1)

\* compute_positions(): clipped into the interval from -1 to 1.
ComputePositions(signals) ==
  [i \in DOMAIN signals |-> Greatest(Whole(-1), Least(One, signals[i]))]

\* The array before its first element: nothing is held.
At(positions, i) == IF i = 0 THEN Zero ELSE positions[i]

-------------------------------------------------------------------------------
(* compute_equity_curve() *)

PriceReturn(prices, i) ==
  IF i = 1 \/ prices[i - 1] = 0 THEN Zero
  ELSE Quotient(Whole(prices[i] - prices[i - 1]), Whole(prices[i - 1]))

\* Mutant: the position of the bar earns the return of the bar.
NetReturn_LooksAhead(prices, positions, cost, i) ==
  Minus(Product(positions[i], PriceReturn(prices, i)),
        Product(Magnitude(Minus(positions[i], At(positions, i - 1))), cost))

\* The position entering the bar earns its return; every change costs.
NetReturn(prices, positions, cost, i) ==
  Minus(Product(At(positions, i - 1), PriceReturn(prices, i)),
        Product(Magnitude(Minus(positions[i], At(positions, i - 1))), cost))

EquityCurve(prices, positions, cost) ==
  LET equity[i \in 0 .. Len(prices)] ==
        IF i = 0 THEN Capital
        ELSE Product(equity[i - 1], Plus(One, NetReturn(prices, positions, cost, i)))
  IN [i \in 1 .. Len(prices) |-> equity[i]]

-------------------------------------------------------------------------------
(* extract_trades() *)

Sign(a) == IF a[1] > 0 THEN 1 ELSE IF a[1] < 0 THEN -1 ELSE 0

TradeRecord(open, exit, price, quantity) ==
  [side |-> open.side, entry |-> open.entry, exit |-> exit, quantity |-> quantity,
   pnl |-> Product(Whole(open.side * (price - open.price)), quantity)]

NoEntry == [entry |-> 0, price |-> 0, side |-> 0]

\* Mutant: a flip closes the trade but does not open the next.
Visit_FlipCloses(prices, positions, seen, i) ==
  LET before == Sign(At(positions, i - 1))
      now == Sign(positions[i])
  IN IF before = now THEN seen
     ELSE [open |-> IF now = 0 \/ before # 0 THEN NoEntry
                    ELSE [entry |-> i, price |-> prices[i], side |-> now],
           trades |-> IF before = 0 \/ seen.open = NoEntry THEN seen.trades
                      ELSE Append(seen.trades, TradeRecord(seen.open, i, prices[i],
                                                           Magnitude(positions[i - 1])))]

\* One bar of the loop: opening, closing, or both when the position flips.  A
\* change of size with the same sign goes unnoticed.
Visit(prices, positions, seen, i) ==
  LET before == Sign(At(positions, i - 1))
      now == Sign(positions[i])
  IN IF before = now THEN seen
     ELSE [open |-> IF now = 0 THEN NoEntry
                    ELSE [entry |-> i, price |-> prices[i], side |-> now],
           trades |-> IF before = 0 THEN seen.trades
                      ELSE Append(seen.trades, TradeRecord(seen.open, i, prices[i],
                                                           Magnitude(positions[i - 1])))]

\* A trade still open is closed at the last bar.
ExtractTrades(prices, positions) ==
  LET n == Len(prices)
      all == FoldLeft(LAMBDA seen, i : Visit(prices, positions, seen, i),
                      [open |-> NoEntry, trades |-> <<>>], [i \in 1 .. n |-> i])
  IN IF all.open = NoEntry THEN all.trades
     ELSE Append(all.trades, TradeRecord(all.open, n, prices[n], Magnitude(positions[n])))

-------------------------------------------------------------------------------
(* metrics.py *)

Total(fractions) == FoldLeft(Plus, Zero, fractions)

\* total_return()
TotalReturn(equity) ==
  IF Len(equity) < 2 \/ equity[1] = Zero THEN Zero
  ELSE Quotient(Minus(Last(equity), equity[1]), equity[1])

\* Mutant: the fall from the start of the curve.
DrawdownSeries_FromStart(equity) ==
  [i \in DOMAIN equity |->
     IF equity[1] = Zero THEN Zero ELSE Quotient(Minus(equity[1], equity[i]), equity[1])]

\* drawdown_series(): the fall from the highest value so far.
DrawdownSeries(equity) ==
  LET peak[i \in DOMAIN equity] ==
        IF i = 1 THEN equity[1] ELSE Greatest(peak[i - 1], equity[i])
  IN [i \in DOMAIN equity |->
        IF peak[i] = Zero THEN Zero ELSE Quotient(Minus(peak[i], equity[i]), peak[i])]

\* max_drawdown()
MaxDrawdown(equity) ==
  LET dd == DrawdownSeries(equity)
  IN FoldLeft(Greatest, dd[1], dd)

\* win_rate()
WinRate(pnls) ==
  IF pnls = <<>> THEN Zero
  ELSE Quotient(Whole(Len(SelectSeq(pnls, LAMBDA p : Less(Zero, p)))), Whole(Len(pnls)))

Infinite == <<1, 0>>

\* profit_factor()
ProfitFactor(pnls) ==
  LET profit == Total(SelectSeq(pnls, LAMBDA p : Less(Zero, p)))
      loss == Magnitude(Total(SelectSeq(pnls, LAMBDA p : Less(p, Zero))))
  IN IF loss # Zero THEN Quotient(profit, loss)
     ELSE IF Less(Zero, profit) THEN Infinite ELSE Zero

Pnls(trades) == [k \in DOMAIN trades |-> trades[k].pnl]

\* run_vectorized_backtest() and summarize_backtest(), for non-empty arrays of
\* the same length.
RunBacktest(prices, signals) ==
  LET positions == ComputePositions(signals)
      equity == EquityCurve(prices, positions, CostRate)
      trades == ExtractTrades(prices, positions)
  IN [equity |-> equity, trades |-> trades,
      totalReturn |-> TotalReturn(equity), maxDrawdown |-> MaxDrawdown(equity),
      winRate |-> WinRate(Pnls(trades)), profitFactor |-> ProfitFactor(Pnls(trades))]
===============================================================================
