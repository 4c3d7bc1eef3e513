---------------------------- MODULE TimeSeriesSplit ----------------------------
(***************************************************************************)
(* TimeSeriesSplit of backtest/optimize.py: n samples are divided into a   *)
(* first training window, a ratio of them, and k windows to measure on.    *)
(* The ratio is a fraction <<a, b>>; int() truncates.                      *)
(***************************************************************************)
EXTENDS Integers

FirstTrainEnd(n, ratio) == (n * ratio[1]) \div ratio[2]
OosStep(n, k, ratio) == (n - FirstTrainEnd(n, ratio)) \div k

\* Otherwise it raises ValueError.
LongEnough(n, k, ratio) == OosStep(n, k, ratio) >= 1

\* Training window i, of 1 .. k, ends here; the next window follows at once.
TrainEnd(n, k, ratio, i) == FirstTrainEnd(n, ratio) + (i - 1) * OosStep(n, k, ratio)

\* The last window takes what the division left.
OosEnd(n, k, ratio, i) ==
  IF i = k THEN n ELSE TrainEnd(n, k, ratio, i) + OosStep(n, k, ratio)
================================================================================
