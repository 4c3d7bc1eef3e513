------------------------------- MODULE Positions -------------------------------
(***************************************************************************)
(* The position arithmetic of the order management system                  *)
(* (oms._update_position): what a fill does to the quantity, the average   *)
(* entry price and the realized profit of one instrument.  Decimals are    *)
(* exact fractions here: the 28-digit rounding of Python's Decimal is left *)
(* out.                                                                    *)
(***************************************************************************)
EXTENDS Integers

-------------------------------------------------------------------------------
(* Fractions in lowest terms *)

Abs(x) == IF x < 0 THEN -x ELSE x

\* Euclid's algorithm, for a pair of numbers.
Gcd[p \in Nat \X Nat] == IF p[2] = 0 THEN p[1] ELSE Gcd[<<p[2], p[1] % p[2]>>]

Fraction == Int \X (Nat \ {0})

Lowest[f \in Fraction] ==
  LET g == Gcd[<<Abs(f[1]), f[2]>>] IN <<f[1] \div g, f[2] \div g>>

Added[p \in Fraction \X Fraction] ==
  LET a == p[1]
      b == p[2]
  IN  Lowest[<<a[1] * b[2] + b[1] * a[2], a[2] * b[2]>>]

Zero == <<0, 1>>
Plus(a, b) == Added[<<a, b>>]
Times(a, k) == Lowest[<<a[1] * k, a[2]>>]
Over(a, k) == Lowest[<<a[1], a[2] * k>>]
Minus(a, b) == Added[<<a, Times(b, -1)>>]
Product(a, b) == Lowest[<<a[1] * b[1], a[2] * b[2]>>]
Quotient(a, b) == IF b[1] > 0 THEN Lowest[<<a[1] * b[2], a[2] * b[1]>>]
                              ELSE Lowest[<<-a[1] * b[2], -a[2] * b[1]>>]
Magnitude(a) == <<Abs(a[1]), a[2]>>
LessEq(a, b) == a[1] * b[2] <= b[1] * a[2]
Less(a, b) == ~ LessEq(b, a)
Least(a, b) == IF LessEq(a, b) THEN a ELSE b
Greatest(a, b) == IF LessEq(a, b) THEN b ELSE a
Whole(k) == <<k, 1>>

-------------------------------------------------------------------------------
Position == [quantity : Int,
             avgEntryPrice : Nat \X (Nat \ {0}),
             realizedPnl : Int \X (Nat \ {0})]

Flat == [quantity |-> 0, avgEntryPrice |-> Zero, realizedPnl |-> Zero]

\* _same_sign
SameSign(a, b) == (a > 0 /\ b > 0) \/ (a < 0 /\ b < 0)

\* Profit of closing `closed' units of a long or a short position at a price.
Realized(pos, closed, price) ==
  IF pos.quantity > 0
  THEN Times(Minus(Whole(price), pos.avgEntryPrice), closed)
  ELSE Times(Minus(pos.avgEntryPrice, Whole(price)), closed)

Open(pos, signed, price) ==
  [pos EXCEPT !.quantity = @ + signed, !.avgEntryPrice = Whole(price)]

\* The average entry price becomes that of the old position and the new fill.
AddTo(pos, signed, price) ==
  LET cost == Plus(Times(pos.avgEntryPrice, Abs(pos.quantity)),
                   Whole(price * Abs(signed)))
      total == pos.quantity + signed
  IN  [pos EXCEPT !.quantity = total, !.avgEntryPrice = Over(cost, Abs(total))]

Reduce(pos, signed, price) ==
  LET left == pos.quantity + signed
  IN  [quantity |-> left,
       avgEntryPrice |-> IF left = 0 THEN Zero ELSE pos.avgEntryPrice,
       realizedPnl |-> Plus(pos.realizedPnl, Realized(pos, Abs(signed), price))]

\* Mutant: the whole fill is taken for the closed part.
Flip_ClosesFill(pos, signed, price) ==
  [quantity |-> pos.quantity + signed,
   avgEntryPrice |-> Whole(price),
   realizedPnl |-> Plus(pos.realizedPnl, Realized(pos, Abs(signed), price))]

\* The whole position is closed and the rest of the fill opens a new one.
Flip(pos, signed, price) ==
  [quantity |-> pos.quantity + signed,
   avgEntryPrice |-> Whole(price),
   realizedPnl |-> Plus(pos.realizedPnl, Realized(pos, Abs(pos.quantity), price))]

UpdatePosition(pos, signed, price) ==
  CASE pos.quantity = 0                  -> Open(pos, signed, price)
    [] SameSign(pos.quantity, signed)    -> AddTo(pos, signed, price)
    [] ~ SameSign(pos.quantity, signed) /\ pos.quantity # 0
         /\ Abs(signed) <= Abs(pos.quantity) -> Reduce(pos, signed, price)
    [] OTHER                             -> Flip(pos, signed, price)
===============================================================================
