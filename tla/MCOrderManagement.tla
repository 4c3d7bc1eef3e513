-------------------------- MODULE MCOrderManagement --------------------------
(* OrderManagement with two market orders on opposite sides and a resting   *)
(* order on the same instrument, and one instrument more.                   *)
EXTENDS OrderManagement

CONSTANTS buy, sell, rest, i1, i2

MCOrder == {buy, sell, rest}
MCInstrument == {i1, i2}
MCInstrumentOf == [o \in MCOrder |-> IF o = rest THEN i2 ELSE i1]
MCSideOf == [o \in MCOrder |-> IF o = sell THEN "SELL" ELSE "BUY"]
MCOrderTypeOf == [o \in MCOrder |-> IF o = rest THEN "LIMIT" ELSE "MARKET"]
MCQuantityOf == [o \in MCOrder |-> IF o = buy THEN 4 ELSE 2]
===============================================================================
