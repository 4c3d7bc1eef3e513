----------------------------- MODULE Optimization -----------------------------
(***************************************************************************)
(* Parameter optimization (backtest/optimize.py): the grid search over a   *)
(* list of parameters and the walk-forward analysis, which optimizes on an *)
(* expanding training window and measures on the window that follows it.   *)
(***************************************************************************)
EXTENDS VectorizedBacktest, TimeSeriesSplit

CONSTANTS SignalFunc(_, _)   \* signal_func(prices, params)

-------------------------------------------------------------------------------
(* grid_search() *)

Score(result, metric) ==
  CASE metric = "total_return"  -> result.totalReturn
    [] metric = "max_drawdown"  -> result.maxDrawdown

\* Higher is better, but for the drawdown.
Better(a, b, metric) == IF metric = "max_drawdown" THEN Less(a, b) ELSE Less(b, a)

\* The first of the best parameters: the sort is stable.
GridSearch(prices, grid, metric) ==
  LET score[k \in DOMAIN grid] ==
        Score(RunBacktest(prices, SignalFunc(prices, grid[k])), metric)
      best == CHOOSE k \in DOMAIN grid :
                \A l \in DOMAIN grid : /\ ~ Better(score[l], score[k], metric)
                                       /\ score[l] = score[k] => k <= l
  IN grid[best]

-------------------------------------------------------------------------------
(* walk_forward() *)

\* An empty training window raises ValueError in the backtest.
Trains(n, k, ratio) == LongEnough(n, k, ratio) /\ FirstTrainEnd(n, ratio) > 0

\* Window i, of 1 .. k: optimized on the bars before it, measured on its own.
OosEquity(prices, grid, metric, k, ratio, i) ==
  LET n == Len(prices)
      train == SubSeq(prices, 1, TrainEnd(n, k, ratio, i))
      oos == SubSeq(prices, TrainEnd(n, k, ratio, i) + 1, OosEnd(n, k, ratio, i))
  IN RunBacktest(oos, SignalFunc(oos, GridSearch(train, grid, metric))).equity

\* Mutant: every segment starts from the initial capital.
Chain_Restarts(curve, segment) ==
  curve \o [i \in DOMAIN segment |->
              Product(segment[i], IF segment[1] = Zero THEN One
                                  ELSE Quotient(Capital, segment[1]))]

\* A segment is scaled to start where the curve ended.
Chain(curve, segment) ==
  LET capital == IF curve = <<>> THEN Capital ELSE Last(curve)
      scale == IF segment[1] = Zero THEN One ELSE Quotient(capital, segment[1])
  IN curve \o [i \in DOMAIN segment |-> Product(segment[i], scale)]

WalkForward(prices, grid, metric, k, ratio) ==
  FoldLeft(LAMBDA curve, i : Chain(curve, OosEquity(prices, grid, metric, k, ratio, i)),
           <<>>, [i \in 1 .. k |-> i])
===============================================================================
