---------------------------- MODULE MCRebalancing -----------------------------
(* Rebalancing with one limit of each kind.                                 *)
EXTENDS Rebalancing

CONSTANTS i1, i2

MCInstrument == {i1, i2}
LimitOf(kind, instrument, max) ==
  [kind |-> kind, instrument |-> instrument, max |-> max, enabled |-> TRUE]
MCLimit == {LimitOf("MaxPosition", i1, 2), LimitOf("MaxOrderSize", AnyInstrument, 4),
            LimitOf("MaxNotional", AnyInstrument, 6), LimitOf("MaxDrawdown", AnyInstrument, 30),
            LimitOf("MaxOpenOrders", AnyInstrument, 2)}
MCWeight == {-1, 2}
===============================================================================
