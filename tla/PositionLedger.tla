---------------------------- MODULE PositionLedger ----------------------------
(***************************************************************************)
(* The position of one instrument under any sequence of fills.             *)
(***************************************************************************)
EXTENDS Positions

CONSTANTS Quantity,   \* fill quantities
          Price,      \* fill prices
          MaxFills    \* bound on the length of a fill sequence

ASSUME FillAssumption == /\ Quantity \subseteq Nat \ {0} /\ Price \subseteq Nat
                         /\ MaxFills \in Nat

-------------------------------------------------------------------------------
VARIABLES position,
          fills,     \* number of fills so far, at most MaxFills
          cash       \* history: paid and received for all fills

vars == <<position, fills, cash>>

TypeOK == /\ position \in Position
          /\ fills \in 0 .. MaxFills
          /\ cash \in Int

Init == position = Flat /\ fills = 0 /\ cash = 0

ApplyFill(signed, price) ==
  /\ fills < MaxFills
  /\ fills' = fills + 1
  /\ position' = UpdatePosition(position, signed, price)
  /\ cash' = cash - signed * price

Next == \E qty \in Quantity, price \in Price :
          ApplyFill(qty, price) \/ ApplyFill(-qty, price)

Spec == Init /\ [][Next]_vars

-------------------------------------------------------------------------------
(* Properties *)

\* No money appears or vanishes: the realized profit is the cash received so
\* far plus what the open position cost, across opening, adding, reducing,
\* closing and changing sides.
ProfitIsCash ==
  position.realizedPnl =
    Plus(Whole(cash), Times(position.avgEntryPrice, position.quantity))
===============================================================================
