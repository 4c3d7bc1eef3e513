-------------------------------- MODULE MCReplay --------------------------------
(* Replay of bars of two instruments: of the same time, and not in order.   *)
EXTENDS Replay

CONSTANTS i1, i2

Row(time, close) == [time |-> time, close |-> close]

MCInstruments == <<i1, i2>>
MCHistory == {(i1 :> <<Row(0, 4), Row(2, 7)>>) @@ (i2 :> <<Row(2, 5)>>),
              (i1 :> <<Row(2, 4)>>) @@ (i2 :> <<Row(3, 8), Row(1, 5)>>)}
MCQuantity == {1, -2}
===============================================================================
