------------------------------ MODULE MCBacktests ------------------------------
(* Backtests with signals beyond 1, halves and shorts, prices of which one is *)
(* zero, and a grid of momentum rules.                                        *)
EXTENDS Backtests

MCCapital == Whole(1)
MCCostRate == <<1, 4>>
MCSignal == {<<-1, 1>>, <<0, 1>>, <<1, 2>>, <<3, 2>>}
MCParams == <<<<1, 1>>, <<-1, 2>>>>
MCRatio == {<<1, 4>>, <<2, 3>>}

\* Goes with the last change of the price, scaled by the parameter.
MCSignalFunc(ps, param) ==
  [i \in DOMAIN ps |-> IF i = 1 \/ ps[i] = ps[i - 1] THEN Zero
                       ELSE IF ps[i] > ps[i - 1] THEN param ELSE Minus(Zero, param)]
================================================================================
