---------------------------- MODULE BacktestsProofs ----------------------------
(***************************************************************************)
(* Proofs about the vectorized engine, for any prices, signals, capital    *)
(* and cost rate: the profit the ledger books is cash, the drawdown is the *)
(* worst fall, a signal acts from the next bar on, the trades book what    *)
(* the ledger books, and a walk-forward curve compounds its windows.       *)
(*                                                                         *)
(* The invariants say that the arrays are well typed and that the ledger   *)
(* paid for every change of position.  What the curves come to is not a    *)
(* matter of steps: the lemmas follow the recursive functions and folds    *)
(* that compute them from index to index, as least counterexamples.        *)
(***************************************************************************)
EXTENDS Backtests, PositionsProofs

--------------------------------------------------------------------------------
(* The ledger *)

LedgerInv == /\ signals \in Seq(Signal) /\ prices \in Seq(Price) /\ cash \in Int
             /\ Shaped(position) /\ Sound(position, cash) /\ Reduced(position.realizedPnl)

LEMMA InitLedger == BacktestsInit => LedgerInv
<1> SUFFICES ASSUME BacktestsInit PROVE LedgerInv
  OBVIOUS
<1>1. position = Flat /\ cash = 0 /\ signals = <<>> /\ prices = <<>>
  BY DEF BacktestsInit, Init
<1>2. Shaped(position)
  <2>1. PICK z : z = Zero
    OBVIOUS
  <2>2. position = [quantity |-> 0, avgEntryPrice |-> z, realizedPnl |-> z]
    BY <1>1, <2>1 DEF Flat
  <2>3. \E q, a, r : position = [quantity |-> q, avgEntryPrice |-> a, realizedPnl |-> r]
    BY <2>2, Zenon
  <2>4. position.quantity \in Int
    BY <2>2
  <2> QED
    BY <2>3, <2>4, Zenon DEF Shaped
<1>3. Is(Zero, 0, 1) /\ Zero = Whole(0)
  BY DEF Is, Zero, Whole, Fraction
<1>4. Sound(position, 0)
  BY <1>1, <1>3, SoundFlat DEF Flat
<1>5. Reduced(Zero)
  BY <1>3, WholeReduced
<1> QED
  BY <1>1, <1>2, <1>4, <1>5 DEF LedgerInv, Flat

\* Every fill leaves the realized profit in lowest terms.
LEMMA UpdateReduced ==
  ASSUME NEW pos, Shaped(pos), NEW cost \in Int, Sound(pos, cost), Reduced(pos.realizedPnl),
         NEW signed \in Int, NEW price \in Nat, signed # 0
  PROVE  Reduced(UpdatePosition(pos, signed, price).realizedPnl)
<1>1. PICK q, a, r : pos = [quantity |-> q, avgEntryPrice |-> a, realizedPnl |-> r] /\ q \in Int
  BY DEF Shaped
<1>2. PICK n \in Int, d \in Nat :
        d # 0 /\ Is(a, n, d) /\ Is(r, cost * d + n * q, d)
  BY <1>1 DEF Sound
<1>3. ASSUME NEW x \in Int, (q > 0 /\ x <= 0) \/ (q <= 0 /\ x >= 0)
      PROVE  Reduced(Plus(r, Realized(pos, Abs(x), price)))
  <2>1. Is(Realized(pos, Abs(x), price), (n - price * d) * x, d)
    <3>1. price \in Int
      OBVIOUS
    <3> QED
      BY <1>1, <1>2, <1>3, <3>1, RealizedIs
  <2>2. r \in Fraction /\ Realized(pos, Abs(x), price) \in Fraction
    BY <1>2, <2>1 DEF Is
  <2> QED
    BY <2>2, PlusReduced
<1>4. CASE q = 0
  <2>1. UpdatePosition(pos, signed, price) = Open(pos, signed, price)
    BY <1>1, <1>4 DEF UpdatePosition, SameSign
  <2>2. Open(pos, signed, price).realizedPnl = r
    BY <1>1 DEF Open
  <2> QED
    BY <1>1, <2>1, <2>2
<1>5. CASE SameSign(q, signed)
  <2>1. UpdatePosition(pos, signed, price) = AddTo(pos, signed, price)
    BY <1>1, <1>5 DEF UpdatePosition, SameSign
  <2>2. AddTo(pos, signed, price).realizedPnl = r
    BY <1>1 DEF AddTo
  <2> QED
    BY <1>1, <2>1, <2>2
<1>6. CASE ~ SameSign(q, signed) /\ q # 0 /\ Abs(signed) <= Abs(q)
  <2>1. UpdatePosition(pos, signed, price) = Reduce(pos, signed, price)
    BY <1>1, <1>6 DEF UpdatePosition
  <2>2. Reduce(pos, signed, price).realizedPnl = Plus(r, Realized(pos, Abs(signed), price))
    BY <1>1 DEF Reduce
  <2>3. (q > 0 /\ signed <= 0) \/ (q <= 0 /\ signed >= 0)
    BY <1>1, <1>6 DEF SameSign
  <2> QED
    BY <1>3, <2>1, <2>2, <2>3
<1>7. CASE ~ SameSign(q, signed) /\ q # 0 /\ ~ (Abs(signed) <= Abs(q))
  <2>1. UpdatePosition(pos, signed, price) = Flip(pos, signed, price)
    BY <1>1, <1>7 DEF UpdatePosition
  <2>2. PICK x \in Int : x = -q
    BY <1>1
  <2>3. Flip(pos, signed, price).realizedPnl = Plus(r, Realized(pos, Abs(x), price))
    <3>1. Abs(q) = Abs(x)
      BY <1>1, <2>2 DEF Abs
    <3> QED
      BY <1>1, <3>1 DEF Flip
  <2>4. (q > 0 /\ x <= 0) \/ (q <= 0 /\ x >= 0)
    BY <1>1, <2>2
  <2> QED
    BY <1>3, <2>1, <2>3, <2>4
<1> QED
  BY <1>4, <1>5, <1>6, <1>7

LEMMA ClippedFraction ==
  ASSUME NEW ss \in Seq(Signal)
  PROVE  /\ DOMAIN ComputePositions(ss) = 1 .. Len(ss)
         /\ \A i \in 1 .. Len(ss) : ComputePositions(ss)[i] \in Fraction
<1> DEFINE pos == ComputePositions(ss)
<1>1. DOMAIN pos = 1 .. Len(ss)
  BY DEF ComputePositions
<1>2. ASSUME NEW i \in 1 .. Len(ss) PROVE pos[i] \in Fraction
  <2>1. pos[i] = Greatest(Whole(-1), Least(One, ss[i]))
    BY DEF ComputePositions
  <2>2. ss[i] \in Fraction
    BY SignalAssumption
  <2>3. One \in Fraction /\ Whole(-1) \in Fraction
    BY DEF One, Whole, Fraction
  <2> QED
    BY <2>1, <2>2, <2>3 DEF Greatest, Least
<1> QED
  BY <1>1, <1>2

LEMMA ChangeInt ==
  ASSUME NEW ss \in Seq(Signal), NEW s \in Signal
  PROVE  Times(Minus(Last(ComputePositions(Append(ss, s))),
                     At(ComputePositions(ss), Len(ss))), SizeUnit)[1] \in Int
<1>1. PICK tt : tt = Append(ss, s)
  OBVIOUS
<1>2. tt \in Seq(Signal) /\ Len(tt) = Len(ss) + 1 /\ Len(ss) \in Nat
  BY <1>1
<1>3. PICK a : a = Last(ComputePositions(tt)) /\ a \in Fraction
  <2>1. PICK n \in Nat : n = Len(tt) /\ n \in 1 .. Len(tt)
    BY <1>2
  <2>2. DOMAIN ComputePositions(tt) = 1 .. n /\ ComputePositions(tt)[n] \in Fraction
    BY <1>2, <2>1, ClippedFraction
  <2>3. Len(ComputePositions(tt)) = n
    BY <2>1, <2>2
  <2> QED
    BY <2>2, <2>3 DEF Last
<1>4. PICK b : b = At(ComputePositions(ss), Len(ss))
  OBVIOUS
<1>5. b \in Fraction
  <2>1. Zero \in Fraction
    BY DEF Zero, Fraction
  <2>2. Len(ss) # 0 => Len(ss) \in 1 .. Len(ss)
    OBVIOUS
  <2> QED
    BY <1>4, <2>1, <2>2, ClippedFraction DEF At
<1>6. Minus(a, b) \in Fraction
  BY <1>3, <1>5, MinusFraction
<1>7. Reduced(Times(Minus(a, b), SizeUnit))
  <2>1. SizeUnit \in Int
    BY SignalAssumption
  <2> QED
    BY <1>6, <2>1, TimesReduced
<1> QED
  BY <1>1, <1>3, <1>4, <1>7 DEF Reduced, Fraction

LEMMA NextLedger == LedgerInv /\ [BacktestsNext]_allVars => LedgerInv'
<1> SUFFICES ASSUME LedgerInv, [BacktestsNext]_allVars PROVE LedgerInv'
  OBVIOUS
<1>1. CASE UNCHANGED allVars
  BY <1>1 DEF LedgerInv, allVars, vars
<1>2. ASSUME NEW price \in Price, AddPrice(price) PROVE LedgerInv'
  BY <1>2 DEF LedgerInv, AddPrice, vars
<1>3. ASSUME NEW price \in Price, NEW signal \in Signal, AddBar(price, signal) PROVE LedgerInv'
  <2>1. signals' = Append(signals, signal) /\ signals' \in Seq(Signal) /\ prices' \in Seq(Price)
    BY <1>3 DEF LedgerInv, AddBar
  <2>2. PICK change \in Int :
          IF change = 0 THEN UNCHANGED vars ELSE ApplyFill(change, price)
    <3>1. PICK change : change = Times(Minus(Last(ComputePositions(signals')),
                                             At(Held, Len(signals))), SizeUnit)[1]
      OBVIOUS
    <3>2. change \in Int
      BY <2>1, <3>1, ChangeInt DEF Held, LedgerInv
    <3>3. IF change = 0 THEN UNCHANGED vars ELSE ApplyFill(change, price)
      BY <1>3, <3>1 DEF AddBar
    <3> QED
      BY <3>2, <3>3
  <2>3. CASE change = 0
    BY <2>1, <2>2, <2>3 DEF LedgerInv, vars
  <2>4. CASE change # 0
    <3>1. position' = UpdatePosition(position, change, price) /\ cash' = cash - change * price
      BY <2>2, <2>4 DEF ApplyFill
    <3>2. price \in Nat
      BY FillAssumption
    <3>3. PICK pos : pos = position
      OBVIOUS
    <3>4. PICK c : c = cash
      OBVIOUS
    <3>5. Shaped(pos) /\ c \in Int /\ Sound(pos, c) /\ Reduced(pos.realizedPnl)
      BY <3>3, <3>4 DEF LedgerInv
    <3>6. PICK new : new = UpdatePosition(pos, change, price)
      OBVIOUS
    <3>7. PICK d \in Int : d = c - change * price
      BY <3>2, <3>5
    <3>8. Shaped(new)
      BY <3>2, <3>5, <3>6, UpdateShaped
    <3>9. Sound(new, d)
      BY <2>4, <3>2, <3>5, <3>6, <3>7, UpdateSound
    <3>10. Reduced(new.realizedPnl)
      BY <2>4, <3>2, <3>5, <3>6, UpdateReduced
    <3>11. position' = new /\ cash' = d
      BY <3>1, <3>3, <3>4, <3>6, <3>7
    <3> QED
      BY <2>1, <3>7, <3>8, <3>9, <3>10, <3>11 DEF LedgerInv
  <2> QED
    BY <2>3, <2>4
<1> QED
  BY <1>1, <1>2, <1>3 DEF BacktestsNext

\* ProfitIsCash follows: both sides are in lowest terms and have the same value.
LEMMA ProfitByCash == LedgerInv => ProfitIsCash
<1> SUFFICES ASSUME LedgerInv PROVE ProfitIsCash
  OBVIOUS
<1>1. PICK n \in Int, d \in Nat :
        d # 0 /\ Is(position.avgEntryPrice, n, d)
        /\ Is(position.realizedPnl, cash * d + n * position.quantity, d)
  BY DEF LedgerInv, Sound
<1>2. PICK q \in Int : q = position.quantity
  BY DEF LedgerInv, Shaped
<1>3. PICK c \in Int : c = cash
  BY DEF LedgerInv
<1>4. PICK t : t = Times(position.avgEntryPrice, q)
  OBVIOUS
<1>5. Is(t, n * q, d)
  BY <1>1, <1>4, TimesIs
<1>6. PICK u \in Int : u = c * d
  OBVIOUS
<1>7. PICK v \in Int : v = n * q
  OBVIOUS
<1>8. Is(Whole(c), u, d)
  BY <1>6, WholeIs
<1>9. Is(Plus(Whole(c), t), u + v, d)
  BY <1>5, <1>7, <1>8, PlusIs
<1>10. Reduced(Plus(Whole(c), t))
  BY <1>5, <1>8, PlusReduced DEF Is
<1>11. Is(position.realizedPnl, u + v, d) /\ Reduced(position.realizedPnl)
  BY <1>1, <1>2, <1>3, <1>6, <1>7 DEF LedgerInv
<1>12. position.realizedPnl = Plus(Whole(c), t)
  <2>1. u + v \in Int
    OBVIOUS
  <2> QED
    BY <1>1, <1>9, <1>10, <1>11, <2>1, ReducedIs
<1> QED
  BY <1>2, <1>3, <1>4, <1>12 DEF ProfitIsCash

\* Whatever fills a position gets, its realized profit and what it would realize
\* at any price are the cash paid and received for it (_update_position() of the
\* OMS): no fill loses or makes money by the averaging of entry prices.
THEOREM ProfitCorrect == BacktestsSpec => []ProfitIsCash
<1> QED
  BY InitLedger, NextLedger, ProfitByCash, PTL DEF BacktestsSpec

--------------------------------------------------------------------------------
(* Folds *)

GreatestUp(f, n, base, s) ==
  /\ f \in [0 .. n -> Fraction] /\ f[0] = base
  /\ \A i \in 1 .. n : f[i] = Greatest(f[i - 1], s[i])

LEMMA GreatestFolds ==
  ASSUME NEW n \in Nat, NEW base \in Fraction, NEW s, DOMAIN s = 1 .. n,
         \A i \in 1 .. n : s[i] \in Fraction
  PROVE  \E f : GreatestUp(f, n, base, s) /\ FoldLeft(Greatest, base, s) = f[n]
<1> DEFINE Step(h, t) == IF t = {} THEN base ELSE Greatest(h[t \ {Max(t)}], s[Max(t)])
           Iter(h) == h = [t \in SUBSET (1 .. n) |-> Step(h, t)]
           fold == CHOOSE h : Iter(h)
           G == [p \in Fraction \X (1 .. n) |-> Greatest(p[1], s[p[2]])]
<1>1. G \in [Fraction \X (1 .. n) -> Fraction]
  BY GreatestIs
<1>2. \A x \in Fraction, i \in 1 .. n : G[<<x, i>>] = Greatest(x, s[i])
  OBVIOUS
<1> HIDE DEF G
<1>3. PICK g \in [SUBSET (1 .. n) -> Fraction] : FoldsUp(g, n, base, G)
  BY <1>1, FoldExists
<1>4. ASSUME NEW t \in SUBSET (1 .. n) PROVE g[t] = Step(g, t)
  <2>1. CASE t = {}
    BY <1>3, <2>1 DEF FoldsUp
  <2>2. CASE t # {}
    <3>1. Max(t) \in t /\ g[t] = G[<<g[t \ {Max(t)}], Max(t)>>]
      BY <1>3, <2>2 DEF FoldsUp
    <3>2. g[t \ {Max(t)}] \in Fraction /\ Max(t) \in 1 .. n
      <4>1. t \ {Max(t)} \in SUBSET (1 .. n)
        OBVIOUS
      <4> QED
        BY <1>3, <3>1, <4>1
    <3>3. G[<<g[t \ {Max(t)}], Max(t)>>] = Greatest(g[t \ {Max(t)}], s[Max(t)])
      BY <1>2, <3>2
    <3> QED
      BY <2>2, <3>1, <3>3
  <2> QED
    BY <2>1, <2>2
<1>5. FoldLeft(Greatest, base, s) = fold[1 .. n]
  BY DEF FoldLeft, MapThenFoldSet
<1>6. Iter(g)
  BY <1>3, <1>4
<1>7. PICK h : h = fold /\ Iter(h)
  BY <1>6
<1>8. \A t \in SUBSET (1 .. n) : h[t] = Step(h, t)
  BY <1>7
<1> HIDE DEF fold, Iter
<1>9. FoldsTyped(h, n, Fraction, base, G)
  <2> SUFFICES ASSUME NEW t \in SUBSET (1 .. n), t # {}, h[t \ {Max(t)}] \in Fraction
               PROVE  h[t] = G[<<h[t \ {Max(t)}], Max(t)>>]
    BY <1>8 DEF FoldsTyped
  <2>1. Max(t) \in 1 .. n
    BY <1>3 DEF FoldsUp
  <2> QED
    BY <1>2, <1>8, <2>1
<1>10. PICK f \in [0 .. n -> Fraction] : RecursTo(f, n, base, G, h[1 .. n])
  BY <1>1, <1>9, PrefixesRecur
<1>11. \A i \in 1 .. n : f[i] = Greatest(f[i - 1], s[i])
  <2> SUFFICES ASSUME NEW i \in 1 .. n PROVE f[i] = Greatest(f[i - 1], s[i])
    OBVIOUS
  <2>1. f[i - 1] \in Fraction /\ f[i] = G[<<f[i - 1], i>>]
    BY <1>10 DEF RecursTo, Recurs
  <2> QED
    BY <1>2, <2>1
<1>12. f[0] = base
  BY <1>10 DEF RecursTo, Recurs
<1> QED
  BY <1>5, <1>7, <1>10, <1>11, <1>12 DEF GreatestUp, RecursTo

ProductUp(f, n, base, s) ==
  /\ f \in [0 .. n -> Fraction] /\ f[0] = base
  /\ \A i \in 1 .. n : f[i] = Product(f[i - 1], s[i])

LEMMA ProductFolds ==
  ASSUME NEW n \in Nat, NEW base \in Fraction, NEW s, DOMAIN s = 1 .. n,
         \A i \in 1 .. n : s[i] \in Fraction
  PROVE  \E f : ProductUp(f, n, base, s) /\ FoldLeft(Product, base, s) = f[n]
<1> DEFINE Step(h, t) == IF t = {} THEN base ELSE Product(h[t \ {Max(t)}], s[Max(t)])
           Iter(h) == h = [t \in SUBSET (1 .. n) |-> Step(h, t)]
           fold == CHOOSE h : Iter(h)
           G == [p \in Fraction \X (1 .. n) |-> Product(p[1], s[p[2]])]
<1>1. G \in [Fraction \X (1 .. n) -> Fraction]
  BY ProductFraction
<1>2. \A x \in Fraction, i \in 1 .. n : G[<<x, i>>] = Product(x, s[i])
  OBVIOUS
<1> HIDE DEF G
<1>3. PICK g \in [SUBSET (1 .. n) -> Fraction] : FoldsUp(g, n, base, G)
  BY <1>1, FoldExists
<1>4. ASSUME NEW t \in SUBSET (1 .. n) PROVE g[t] = Step(g, t)
  <2>1. CASE t = {}
    BY <1>3, <2>1 DEF FoldsUp
  <2>2. CASE t # {}
    <3>1. Max(t) \in t /\ g[t] = G[<<g[t \ {Max(t)}], Max(t)>>]
      BY <1>3, <2>2 DEF FoldsUp
    <3>2. g[t \ {Max(t)}] \in Fraction /\ Max(t) \in 1 .. n
      <4>1. t \ {Max(t)} \in SUBSET (1 .. n)
        OBVIOUS
      <4> QED
        BY <1>3, <3>1, <4>1
    <3>3. G[<<g[t \ {Max(t)}], Max(t)>>] = Product(g[t \ {Max(t)}], s[Max(t)])
      BY <1>2, <3>2
    <3> QED
      BY <2>2, <3>1, <3>3
  <2> QED
    BY <2>1, <2>2
<1>5. FoldLeft(Product, base, s) = fold[1 .. n]
  BY DEF FoldLeft, MapThenFoldSet
<1>6. Iter(g)
  BY <1>3, <1>4
<1>7. PICK h : h = fold /\ Iter(h)
  BY <1>6
<1>8. \A t \in SUBSET (1 .. n) : h[t] = Step(h, t)
  BY <1>7
<1> HIDE DEF fold, Iter
<1>9. FoldsTyped(h, n, Fraction, base, G)
  <2> SUFFICES ASSUME NEW t \in SUBSET (1 .. n), t # {}, h[t \ {Max(t)}] \in Fraction
               PROVE  h[t] = G[<<h[t \ {Max(t)}], Max(t)>>]
    BY <1>8 DEF FoldsTyped
  <2>1. Max(t) \in 1 .. n
    BY <1>3 DEF FoldsUp
  <2> QED
    BY <1>2, <1>8, <2>1
<1>10. PICK f \in [0 .. n -> Fraction] : RecursTo(f, n, base, G, h[1 .. n])
  BY <1>1, <1>9, PrefixesRecur
<1>11. \A i \in 1 .. n : f[i] = Product(f[i - 1], s[i])
  <2> SUFFICES ASSUME NEW i \in 1 .. n PROVE f[i] = Product(f[i - 1], s[i])
    OBVIOUS
  <2>1. f[i - 1] \in Fraction /\ f[i] = G[<<f[i - 1], i>>]
    BY <1>10 DEF RecursTo, Recurs
  <2> QED
    BY <1>2, <2>1
<1>12. f[0] = base
  BY <1>10 DEF RecursTo, Recurs
<1> QED
  BY <1>5, <1>7, <1>10, <1>11, <1>12 DEF ProductUp, RecursTo

PlusUp(f, n, base, s) ==
  /\ f \in [0 .. n -> Fraction] /\ f[0] = base
  /\ \A i \in 1 .. n : f[i] = Plus(f[i - 1], s[i])

LEMMA PlusFolds ==
  ASSUME NEW n \in Nat, NEW base \in Fraction, NEW s, DOMAIN s = 1 .. n,
         \A i \in 1 .. n : s[i] \in Fraction
  PROVE  \E f : PlusUp(f, n, base, s) /\ FoldLeft(Plus, base, s) = f[n]
<1> DEFINE Step(h, t) == IF t = {} THEN base ELSE Plus(h[t \ {Max(t)}], s[Max(t)])
           Iter(h) == h = [t \in SUBSET (1 .. n) |-> Step(h, t)]
           fold == CHOOSE h : Iter(h)
           G == [p \in Fraction \X (1 .. n) |-> Plus(p[1], s[p[2]])]
<1>1. G \in [Fraction \X (1 .. n) -> Fraction]
  BY PlusFraction
<1>2. \A x \in Fraction, i \in 1 .. n : G[<<x, i>>] = Plus(x, s[i])
  OBVIOUS
<1> HIDE DEF G
<1>3. PICK g \in [SUBSET (1 .. n) -> Fraction] : FoldsUp(g, n, base, G)
  BY <1>1, FoldExists
<1>4. ASSUME NEW t \in SUBSET (1 .. n) PROVE g[t] = Step(g, t)
  <2>1. CASE t = {}
    BY <1>3, <2>1 DEF FoldsUp
  <2>2. CASE t # {}
    <3>1. Max(t) \in t /\ g[t] = G[<<g[t \ {Max(t)}], Max(t)>>]
      BY <1>3, <2>2 DEF FoldsUp
    <3>2. g[t \ {Max(t)}] \in Fraction /\ Max(t) \in 1 .. n
      <4>1. t \ {Max(t)} \in SUBSET (1 .. n)
        OBVIOUS
      <4> QED
        BY <1>3, <3>1, <4>1
    <3>3. G[<<g[t \ {Max(t)}], Max(t)>>] = Plus(g[t \ {Max(t)}], s[Max(t)])
      BY <1>2, <3>2
    <3> QED
      BY <2>2, <3>1, <3>3
  <2> QED
    BY <2>1, <2>2
<1>5. FoldLeft(Plus, base, s) = fold[1 .. n]
  BY DEF FoldLeft, MapThenFoldSet
<1>6. Iter(g)
  BY <1>3, <1>4
<1>7. PICK h : h = fold /\ Iter(h)
  BY <1>6
<1>8. \A t \in SUBSET (1 .. n) : h[t] = Step(h, t)
  BY <1>7
<1> HIDE DEF fold, Iter
<1>9. FoldsTyped(h, n, Fraction, base, G)
  <2> SUFFICES ASSUME NEW t \in SUBSET (1 .. n), t # {}, h[t \ {Max(t)}] \in Fraction
               PROVE  h[t] = G[<<h[t \ {Max(t)}], Max(t)>>]
    BY <1>8 DEF FoldsTyped
  <2>1. Max(t) \in 1 .. n
    BY <1>3 DEF FoldsUp
  <2> QED
    BY <1>2, <1>8, <2>1
<1>10. PICK f \in [0 .. n -> Fraction] : RecursTo(f, n, base, G, h[1 .. n])
  BY <1>1, <1>9, PrefixesRecur
<1>11. \A i \in 1 .. n : f[i] = Plus(f[i - 1], s[i])
  <2> SUFFICES ASSUME NEW i \in 1 .. n PROVE f[i] = Plus(f[i - 1], s[i])
    OBVIOUS
  <2>1. f[i - 1] \in Fraction /\ f[i] = G[<<f[i - 1], i>>]
    BY <1>10 DEF RecursTo, Recurs
  <2> QED
    BY <1>2, <2>1
<1>12. f[0] = base
  BY <1>10 DEF RecursTo, Recurs
<1> QED
  BY <1>5, <1>7, <1>10, <1>11, <1>12 DEF PlusUp, RecursTo

--------------------------------------------------------------------------------
(* Drawdowns *)

\* The highest value up to each bar.
LEMMA PeaksAre ==
  ASSUME NEW n \in Nat, n # 0, NEW equity \in [1 .. n -> Fraction]
  PROVE  \E peak \in [1 .. n -> Fraction] :
           /\ DrawdownSeries(equity) =
                [i \in 1 .. n |-> IF peak[i] = Zero THEN Zero
                                  ELSE Quotient(Minus(peak[i], equity[i]), peak[i])]
           /\ \A j \in 1 .. n : /\ \A i \in 1 .. j : LessEq(equity[i], peak[j])
                                /\ \E i \in 1 .. j : peak[j] = equity[i]
<1> DEFINE Step(h, i) == IF i = 1 THEN equity[1] ELSE Greatest(h[i - 1], equity[i])
           Solves(h) == h = [i \in 1 .. n |-> Step(h, i)]
           peak == CHOOSE h : Solves(h)
           G == [p \in Fraction \X (1 .. n) |->
                   IF p[2] = 1 THEN equity[1] ELSE Greatest(p[1], equity[p[2]])]
<1>1. \A i \in 1 .. n : equity[i] \in Fraction
  OBVIOUS
<1>2. 1 \in 1 .. n
  OBVIOUS
<1>3. G \in [Fraction \X (1 .. n) -> Fraction]
  BY <1>1, <1>2, GreatestIs
<1>4. \A x \in Fraction, i \in 1 .. n :
        G[<<x, i>>] = IF i = 1 THEN equity[1] ELSE Greatest(x, equity[i])
  OBVIOUS
<1> HIDE DEF G
<1>5. PICK f \in [0 .. n -> Fraction] : Recurs(f, n, equity[1], G)
  BY <1>1, <1>2, <1>3, RecursionExists
<1> DEFINE g == [i \in 1 .. n |-> f[i]]
<1>6. ASSUME NEW i \in 1 .. n PROVE g[i] = Step(g, i)
  <2>1. f[i - 1] \in Fraction /\ f[i] = G[<<f[i - 1], i>>]
    BY <1>5 DEF Recurs
  <2>2. f[i] = IF i = 1 THEN equity[1] ELSE Greatest(f[i - 1], equity[i])
    BY <1>4, <2>1
  <2>3. i # 1 => i - 1 \in 1 .. n
    OBVIOUS
  <2> QED
    BY <2>2, <2>3
<1>7. Solves(g)
  BY <1>6
<1> HIDE DEF g
<1>8. Solves(peak)
  BY <1>7
<1>9. PICK p : p = peak /\ Solves(p)
  BY <1>8
<1>10. \A i \in 1 .. n : p[i] = Step(p, i)
  BY <1>9
<1>11. DOMAIN p = 1 .. n
  BY <1>9
<1>12. DrawdownSeries(equity) =
         [i \in 1 .. n |-> IF p[i] = Zero THEN Zero ELSE Quotient(Minus(p[i], equity[i]), p[i])]
  BY <1>9 DEF DrawdownSeries
<1> HIDE DEF peak, Solves
<1> DEFINE Good(j) == /\ p[j] \in Fraction
                      /\ \A i \in 1 .. j : LessEq(equity[i], p[j])
                      /\ \E i \in 1 .. j : p[j] = equity[i]
           S == {0} \cup {j \in 1 .. n : Good(j)}
<1>13. ASSUME NEW j \in 0 .. n - 1, j \in S PROVE j + 1 \in S
  <2>1. j + 1 \in 1 .. n /\ j + 1 \in 1 .. j + 1
    OBVIOUS
  <2>2. equity[j + 1] \in Fraction
    BY <1>1, <2>1
  <2>3. CASE j = 0
    <3>1. p[1] = equity[1]
      BY <1>2, <1>10
    <3>2. LessEq(equity[1], equity[1])
      BY <1>1, <1>2, LessEqOrder
    <3>3. \A i \in 1 .. 1 : i = 1
      OBVIOUS
    <3>4. Good(1)
      BY <1>1, <1>2, <3>1, <3>2, <3>3
    <3> QED
      BY <1>2, <2>3, <3>4
  <2>4. CASE j # 0
    <3>1. j \in 1 .. n /\ Good(j)
      BY <1>13, <2>4
    <3>2. p[j + 1] = Greatest(p[j], equity[j + 1])
      <4>1. j + 1 # 1 /\ (j + 1) - 1 = j
        BY <2>4
      <4> QED
        BY <1>10, <2>1, <4>1
    <3>3. PICK x : x = p[j + 1]
      OBVIOUS
    <3>4. /\ x \in {p[j], equity[j + 1]} /\ x \in Fraction
          /\ LessEq(p[j], x) /\ LessEq(equity[j + 1], x)
      BY <2>2, <3>1, <3>2, <3>3, GreatestIs
    <3>5. ASSUME NEW i \in 1 .. j + 1 PROVE LessEq(equity[i], x)
      <4>1. CASE i = j + 1
        BY <3>4, <4>1
      <4>2. CASE i # j + 1
        <5>1. i \in 1 .. j /\ i \in 1 .. n
          BY <4>2
        <5>2. LessEq(equity[i], p[j]) /\ equity[i] \in Fraction
          BY <1>1, <3>1, <5>1
        <5> QED
          BY <3>1, <3>4, <5>2, LessEqTransitive
      <4> QED
        BY <4>1, <4>2
    <3>6. \E i \in 1 .. j + 1 : x = equity[i]
      <4>1. CASE x = equity[j + 1]
        BY <2>1, <4>1
      <4>2. CASE x = p[j]
        <5>1. PICK i \in 1 .. j : p[j] = equity[i]
          BY <3>1
        <5>2. i \in 1 .. j + 1
          OBVIOUS
        <5> QED
          BY <4>2, <5>1, <5>2
      <4> QED
        BY <3>4, <4>1, <4>2
    <3>7. Good(j + 1)
      BY <3>3, <3>4, <3>5, <3>6
    <3> QED
      BY <2>1, <3>7
  <2> QED
    BY <2>3, <2>4
<1>14. 0 \in S
  OBVIOUS
<1> HIDE DEF Good
<1>15. 0 .. n \subseteq S
  <2> HIDE DEF S
  <2> QED
    BY <1>13, <1>14, StepsUp
<1>16. \A j \in 1 .. n : Good(j)
  BY <1>15
<1>17. p \in [1 .. n -> Fraction]
  <2>1. p = [i \in 1 .. n |-> p[i]]
    BY <1>9, <1>11 DEF Solves
  <2>2. \A i \in 1 .. n : p[i] \in Fraction
    BY <1>16 DEF Good
  <2> QED
    BY <2>1, <2>2
<1>18. \A j \in 1 .. n : /\ \A i \in 1 .. j : LessEq(equity[i], p[j])
                         /\ \E i \in 1 .. j : p[j] = equity[i]
  BY <1>16 DEF Good
<1> QED
  BY <1>12, <1>17, <1>18

LEMMA FallsAre ==
  ASSUME NEW n \in Nat, NEW equity \in [1 .. n -> Fraction], NEW peak \in [1 .. n -> Fraction],
         \A i \in 1 .. n : Reduced(equity[i]),
         \A j \in 1 .. n : \E i \in 1 .. j : peak[j] = equity[i],
         NEW j \in 1 .. n
  PROVE  /\ peak[j] # Zero => peak[j][1] # 0
         /\ (IF peak[j] = Zero THEN Zero
             ELSE Quotient(Minus(peak[j], equity[j]), peak[j])) \in Fraction
<1>1. PICK p \in Fraction : p = peak[j] /\ Reduced(p)
  OBVIOUS
<1>2. PICK e \in Fraction : e = equity[j]
  OBVIOUS
<1>3. Zero \in Fraction
  BY DEF Zero, Fraction
<1>4. p # Zero => p[1] # 0
  BY <1>1, ZeroIs
<1>5. ASSUME p # Zero PROVE Quotient(Minus(p, e), p) \in Fraction
  <2>1. PICK n1, m1, d1 \in Int : d1 > 0 /\ Is(p, n1, d1) /\ Is(e, m1, d1)
    BY CommonTerms
  <2>2. n1 # 0
    BY <1>4, <1>5, <2>1, SignIs
  <2>3. Reduced(Quotient(Minus(p, e), p))
    BY <2>1, <2>2, FallIs
  <2> QED
    BY <2>3 DEF Reduced
<1> QED
  BY <1>1, <1>2, <1>3, <1>4, <1>5

\* The maximum drawdown is the largest of the drawdowns.
LEMMA MaxDrawdownIs ==
  ASSUME NEW n \in Nat, n # 0, NEW equity \in [1 .. n -> Fraction],
         \A i \in 1 .. n : DrawdownSeries(equity)[i] \in Fraction,
         DOMAIN DrawdownSeries(equity) = 1 .. n
  PROVE  /\ \A j \in 1 .. n : LessEq(DrawdownSeries(equity)[j], MaxDrawdown(equity))
         /\ \E j \in 1 .. n : DrawdownSeries(equity)[j] = MaxDrawdown(equity)
         /\ MaxDrawdown(equity) \in Fraction
<1>1. PICK dd : dd = DrawdownSeries(equity)
  OBVIOUS
<1>2. 1 \in 1 .. n /\ dd[1] \in Fraction
  BY <1>1
<1>3. PICK f : GreatestUp(f, n, dd[1], dd) /\ FoldLeft(Greatest, dd[1], dd) = f[n]
  BY <1>1, <1>2, GreatestFolds
<1>4. MaxDrawdown(equity) = f[n]
  BY <1>1, <1>3 DEF MaxDrawdown
<1> DEFINE Good(i) == /\ \A j \in 1 .. i : LessEq(dd[j], f[i])
                      /\ \E j \in 1 .. n : dd[j] = f[i]
           S == {i \in 0 .. n : Good(i)}
<1>5. 0 \in S
  BY <1>2, <1>3 DEF GreatestUp
<1>6. ASSUME NEW i \in 0 .. n - 1, i \in S PROVE i + 1 \in S
  <2>1. i + 1 \in 1 .. n /\ i \in 0 .. n /\ (i + 1) - 1 = i
    OBVIOUS
  <2>2. f[i + 1] = Greatest(f[i], dd[i + 1])
    BY <1>3, <2>1 DEF GreatestUp
  <2>3. f[i] \in Fraction /\ dd[i + 1] \in Fraction
    BY <1>1, <1>3, <2>1 DEF GreatestUp
  <2>4. PICK x : x = f[i + 1]
    OBVIOUS
  <2>5. /\ x \in {f[i], dd[i + 1]} /\ x \in Fraction
        /\ LessEq(f[i], x) /\ LessEq(dd[i + 1], x)
    BY <2>2, <2>3, <2>4, GreatestIs
  <2>6. Good(i)
    BY <1>6
  <2>7. ASSUME NEW j \in 1 .. i + 1 PROVE LessEq(dd[j], x)
    <3>1. CASE j = i + 1
      BY <2>5, <3>1
    <3>2. CASE j # i + 1
      <4>1. j \in 1 .. i /\ j \in 1 .. n
        BY <3>2
      <4>2. LessEq(dd[j], f[i]) /\ dd[j] \in Fraction
        BY <1>1, <2>6, <4>1
      <4> QED
        BY <2>3, <2>5, <4>2, LessEqTransitive
    <3> QED
      BY <3>1, <3>2
  <2>8. \E j \in 1 .. n : dd[j] = x
    BY <2>1, <2>5, <2>6
  <2> QED
    BY <2>1, <2>4, <2>7, <2>8
<1> HIDE DEF Good
<1>7. 0 .. n \subseteq S
  <2> HIDE DEF S
  <2> QED
    BY <1>5, <1>6, StepsUp
<1>8. Good(n)
  BY <1>7
<1> QED
  BY <1>1, <1>3, <1>4, <1>8 DEF Good, GreatestUp

--------------------------------------------------------------------------------
(* The equity curve *)

\* A position and a price for each of the n bars.
Bars(n, ps, held) ==
  /\ Len(ps) = n /\ \A i \in 1 .. n : ps[i] \in Nat
  /\ \A i \in 1 .. n : held[i] \in Fraction

LEMMA PriceReturnIs ==
  ASSUME NEW n \in Nat, NEW ps, NEW held, Bars(n, ps, held), NEW i \in 1 .. n
  PROVE  \E x \in Int, y \in Int : y > 0 /\ x >= -y /\ Is(PriceReturn(ps, i), x, y)
<1>1. CASE i = 1 \/ ps[i - 1] = 0
  <2>1. PriceReturn(ps, i) = Zero
    BY <1>1 DEF PriceReturn
  <2>2. Is(Zero, 0, 1) /\ 1 > 0 /\ 0 >= -1
    BY DEF Is, Zero, Fraction
  <2> QED
    BY <2>1, <2>2
<1>2. CASE ~ (i = 1 \/ ps[i - 1] = 0)
  <2>1. PICK p \in Nat : p = ps[i - 1] /\ p > 0
    <3>1. i - 1 \in 1 .. n
      BY <1>2
    <3> QED
      BY <1>2, <3>1 DEF Bars
  <2>2. PICK q \in Nat : q = ps[i]
    BY DEF Bars
  <2>3. PICK x \in Int : x = q - p /\ x >= -p
    OBVIOUS
  <2>4. PriceReturn(ps, i) = Quotient(Whole(x), Whole(p))
    BY <1>2, <2>1, <2>2, <2>3 DEF PriceReturn
  <2>5. Is(Whole(x), x, 1) /\ Is(Whole(p), p, 1) /\ Whole(p)[1] # 0
    BY <2>1 DEF Is, Whole, Fraction
  <2>6. Is(Quotient(Whole(x), Whole(p)), x * 1, 1 * p)
    BY <2>5, QuotientIs
  <2>7. x * 1 = x /\ 1 * p = p
    OBVIOUS
  <2> QED
    BY <2>1, <2>3, <2>4, <2>6, <2>7
<1> QED
  BY <1>1, <1>2

LEMMA AtFraction ==
  ASSUME NEW n \in Nat, NEW ps, NEW held, Bars(n, ps, held), NEW i \in 0 .. n
  PROVE  At(held, i) \in Fraction
<1>1. Zero \in Fraction
  BY DEF Zero, Fraction
<1>2. i # 0 => i \in 1 .. n
  OBVIOUS
<1> QED
  BY <1>1, <1>2 DEF At, Bars

LEMMA MagnitudeFraction ==
  ASSUME NEW a \in Fraction
  PROVE  Magnitude(a) \in Fraction
BY DEF Magnitude, Fraction, Abs

LEMMA NetReturnFraction ==
  ASSUME NEW n \in Nat, NEW ps, NEW held, Bars(n, ps, held), NEW cost \in Fraction,
         NEW i \in 1 .. n
  PROVE  /\ NetReturn(ps, held, cost, i) \in Fraction
         /\ Plus(One, NetReturn(ps, held, cost, i)) \in Fraction
<1>1. PICK r : r = PriceReturn(ps, i) /\ r \in Fraction
  BY PriceReturnIs DEF Is
<1>2. PICK h : h = At(held, i - 1) /\ h \in Fraction
  <2>1. i - 1 \in 0 .. n
    OBVIOUS
  <2> QED
    BY <2>1, AtFraction
<1>3. PICK g : g = held[i] /\ g \in Fraction
  BY DEF Bars
<1>4. Product(h, r) \in Fraction
  BY <1>1, <1>2, ProductFraction
<1>5. Magnitude(Minus(g, h)) \in Fraction
  BY <1>2, <1>3, MinusFraction, MagnitudeFraction
<1>6. Product(Magnitude(Minus(g, h)), cost) \in Fraction
  BY <1>5, ProductFraction
<1>7. NetReturn(ps, held, cost, i) = Minus(Product(h, r), Product(Magnitude(Minus(g, h)), cost))
  BY <1>1, <1>2, <1>3 DEF NetReturn
<1>8. NetReturn(ps, held, cost, i) \in Fraction
  BY <1>4, <1>6, <1>7, MinusFraction
<1>9. One \in Fraction
  BY DEF One, Whole, Fraction
<1> QED
  BY <1>8, <1>9, PlusFraction

\* The values of an equity curve, the capital before its first bar.
Compounds(f, n, ps, held, cost) ==
  /\ f \in [0 .. n -> Fraction] /\ f[0] = Capital
  /\ \A i \in 1 .. n : /\ f[i] = Product(f[i - 1], Plus(One, NetReturn(ps, held, cost, i)))
                       /\ Reduced(f[i])

LEMMA EquityCurveIs ==
  ASSUME NEW n \in Nat, NEW ps, NEW held, Bars(n, ps, held), NEW cost \in Fraction
  PROVE  \E f : /\ Compounds(f, n, ps, held, cost)
                /\ EquityCurve(ps, held, cost) = [i \in 1 .. n |-> f[i]]
<1> DEFINE Rate(i) == Plus(One, NetReturn(ps, held, cost, i))
           Step(h, i) == IF i = 0 THEN Capital ELSE Product(h[i - 1], Rate(i))
           Solves(h) == h = [i \in 0 .. n |-> Step(h, i)]
           curve == CHOOSE h : Solves(h)
           G == [p \in Fraction \X (1 .. n) |-> Product(p[1], Rate(p[2]))]
<1>1. \A i \in 1 .. n : Rate(i) \in Fraction
  BY NetReturnFraction
<1>2. EquityCurve(ps, held, cost) = [i \in 1 .. n |-> curve[i]]
  BY DEF EquityCurve, Bars
<1> HIDE DEF Rate
<1>3. G \in [Fraction \X (1 .. n) -> Fraction]
  BY <1>1, ProductFraction
<1>4. \A x \in Fraction, i \in 1 .. n : G[<<x, i>>] = Product(x, Rate(i))
  OBVIOUS
<1> HIDE DEF G
<1>5. PICK f \in [0 .. n -> Fraction] : Recurs(f, n, Capital, G)
  BY <1>3, RecursionExists, CapitalAssumption
<1>6. ASSUME NEW i \in 0 .. n PROVE f[i] = Step(f, i)
  <2>1. CASE i = 0
    BY <1>5, <2>1 DEF Recurs
  <2>2. CASE i # 0
    <3>1. i \in 1 .. n /\ i - 1 \in 0 .. n
      BY <2>2
    <3>2. f[i - 1] \in Fraction /\ f[i] = G[<<f[i - 1], i>>]
      BY <1>5, <3>1 DEF Recurs
    <3> QED
      BY <1>4, <2>2, <3>1, <3>2
  <2> QED
    BY <2>1, <2>2
<1>7. Solves(f)
  BY <1>6
<1>8. PICK h : h = curve /\ Solves(h)
  BY <1>7
<1>9. h[0] = Capital /\ \A i \in 1 .. n : h[i] = Product(h[i - 1], Rate(i))
  <2>1. \A i \in 0 .. n : h[i] = Step(h, i)
    BY <1>8
  <2>2. 0 \in 0 .. n /\ \A i \in 1 .. n : i \in 0 .. n /\ i # 0
    OBVIOUS
  <2> QED
    BY <2>1, <2>2
<1>10. DOMAIN h = 0 .. n /\ h = [i \in 0 .. n |-> h[i]]
  BY <1>8
<1> HIDE DEF curve, Solves
<1> DEFINE S == {i \in 0 .. n : h[i] \in Fraction}
<1>11. 0 \in S
  BY <1>9, CapitalAssumption
<1>12. ASSUME NEW i \in 0 .. n - 1, i \in S PROVE i + 1 \in S
  <2>1. i + 1 \in 1 .. n /\ (i + 1) - 1 = i /\ h[i] \in Fraction
    BY <1>12
  <2>2. h[i + 1] = Product(h[i], Rate(i + 1)) /\ Rate(i + 1) \in Fraction
    BY <1>1, <1>9, <2>1
  <2>3. h[i + 1] \in Fraction
    BY <2>1, <2>2, ProductFraction
  <2> QED
    BY <2>1, <2>3
<1>13. 0 .. n \subseteq S
  <2> HIDE DEF S
  <2> QED
    BY <1>11, <1>12, StepsUp
<1>14. h \in [0 .. n -> Fraction]
  BY <1>10, <1>13
<1>15. ASSUME NEW i \in 1 .. n PROVE Reduced(h[i])
  <2>1. h[i - 1] \in Fraction
    BY <1>14
  <2> QED
    BY <1>1, <1>9, <2>1, ProductFraction
<1>16. Compounds(h, n, ps, held, cost)
  BY <1>9, <1>14, <1>15 DEF Compounds, Rate
<1> QED
  BY <1>2, <1>8, <1>16

--------------------------------------------------------------------------------
(* The maximum drawdown is the worst fall *)

LEMMA WorstFallIs ==
  ASSUME NEW n \in Nat, n # 0, NEW equity \in [1 .. n -> Fraction],
         \A i \in 1 .. n : Reduced(equity[i]) /\ equity[i][1] > 0
  PROVE  LET Fall(i, j) == Quotient(Minus(equity[i], equity[j]), equity[i])
         IN /\ \A j \in 1 .. n : \A i \in 1 .. j : LessEq(Fall(i, j), MaxDrawdown(equity))
            /\ \E j \in 1 .. n : \E i \in 1 .. j : Fall(i, j) = MaxDrawdown(equity)
<1> DEFINE Fall(i, j) == Quotient(Minus(equity[i], equity[j]), equity[i])
           dd == DrawdownSeries(equity)
           worst == MaxDrawdown(equity)
<1>1. PICK peak \in [1 .. n -> Fraction] :
        /\ dd = [i \in 1 .. n |-> IF peak[i] = Zero THEN Zero
                                  ELSE Quotient(Minus(peak[i], equity[i]), peak[i])]
        /\ \A j \in 1 .. n : /\ \A i \in 1 .. j : LessEq(equity[i], peak[j])
                             /\ \E i \in 1 .. j : peak[j] = equity[i]
  BY PeaksAre
<1>2. ASSUME NEW j \in 1 .. n
      PROVE  peak[j] # Zero /\ dd[j] = Quotient(Minus(peak[j], equity[j]), peak[j])
  <2>1. PICK i \in 1 .. j : peak[j] = equity[i]
    BY <1>1
  <2>2. i \in 1 .. n
    OBVIOUS
  <2>3. peak[j][1] > 0
    BY <2>1, <2>2
  <2>4. peak[j] # Zero
    BY <2>3 DEF Zero
  <2> HIDE DEF dd
  <2> QED
    BY <1>1, <2>4
<1>3. ASSUME NEW j \in 1 .. n
      PROVE  dd[j] \in Fraction
  <2>1. /\ \A i \in 1 .. n : Reduced(equity[i])
        /\ \A k \in 1 .. n : \E i \in 1 .. k : peak[k] = equity[i]
    BY <1>1
  <2>2. (IF peak[j] = Zero THEN Zero
         ELSE Quotient(Minus(peak[j], equity[j]), peak[j])) \in Fraction
    BY <2>1, FallsAre
  <2> HIDE DEF dd
  <2> QED
    BY <1>2, <2>2
<1>4. DOMAIN dd = 1 .. n
  BY <1>1
<1>5. /\ \A j \in 1 .. n : LessEq(dd[j], worst)
      /\ \E j \in 1 .. n : dd[j] = worst
      /\ worst \in Fraction
  BY <1>3, <1>4, MaxDrawdownIs
<1> HIDE DEF dd, worst
<1>6. ASSUME NEW j \in 1 .. n, NEW i \in 1 .. j PROVE LessEq(Fall(i, j), worst)
  <2>1. i \in 1 .. n
    OBVIOUS
  <2>2. PICK q \in Fraction : q = equity[i] /\ q[1] > 0 /\ Reduced(q)
    BY <2>1
  <2>3. PICK e \in Fraction : e = equity[j] /\ e[1] > 0
    OBVIOUS
  <2>4. PICK p \in Fraction : p = peak[j] /\ LessEq(q, p)
    BY <1>1, <2>2
  <2>5. LessEq(Quotient(Minus(q, e), q), Quotient(Minus(p, e), p))
    BY <2>2, <2>3, <2>4, FallGrows
  <2>6. dd[j] = Quotient(Minus(p, e), p)
    BY <1>2, <2>3, <2>4
  <2>7. LessEq(dd[j], worst) /\ dd[j] \in Fraction
    BY <1>3, <1>5
  <2>8. Quotient(Minus(q, e), q) \in Fraction
    <3>1. PICK x, y, d \in Int : d > 0 /\ Is(q, x, d) /\ Is(e, y, d)
      BY CommonTerms
    <3>2. x # 0
      BY <2>2, <3>1, SignIs
    <3> QED
      BY <3>1, <3>2, FallIs DEF Reduced
  <2>9. LessEq(Quotient(Minus(q, e), q), worst)
    BY <1>5, <2>5, <2>6, <2>7, <2>8, LessEqTransitive
  <2> QED
    BY <2>2, <2>3, <2>9
<1>7. \E j \in 1 .. n : \E i \in 1 .. j : Fall(i, j) = worst
  <2>1. PICK j \in 1 .. n : dd[j] = worst
    BY <1>5
  <2>2. PICK i \in 1 .. j : peak[j] = equity[i]
    BY <1>1
  <2>3. Fall(i, j) = worst
    BY <1>2, <2>1, <2>2
  <2> QED
    BY <2>3
<1> QED
  BY <1>6, <1>7 DEF worst

\* Without short positions and costs nothing can be lost beyond the capital.
LEMMA ProductZero ==
  ASSUME NEW a \in Fraction
  PROVE  Product(a, Zero) = Zero
<1>1. Is(Zero, 0, 1)
  BY DEF Is, Zero, Fraction
<1>2. PICK x \in Int : x = a[1]
  BY IsItself
<1>3. PICK y \in Int : y = a[2] /\ y > 0
  BY IsItself
<1>4. Is(a, x, y)
  BY <1>2, <1>3, IsItself
<1>5. Is(Product(a, Zero), x * 0, y * 1) /\ Reduced(Product(a, Zero))
  BY <1>1, <1>4, ProductIs
<1>6. x * 0 = 0 /\ y * 1 = y
  OBVIOUS
<1>7. Product(a, Zero)[1] = 0
  BY <1>3, <1>5, <1>6, SignIs
<1> QED
  BY <1>5, <1>7, ZeroIs

LEMMA ProductSign ==
  ASSUME NEW a \in Fraction, NEW b \in Fraction, b[1] >= 0
  PROVE  /\ a[1] >= 0 => Product(a, b)[1] >= 0
         /\ a[1] <= 0 => Product(a, b)[1] <= 0
<1>1. PICK x \in Int : x = a[1]
  BY IsItself
<1>2. PICK y \in Int : y = a[2] /\ y > 0
  BY IsItself
<1>3. PICK u \in Int : u = b[1] /\ u >= 0
  BY IsItself
<1>4. PICK v \in Int : v = b[2] /\ v > 0
  BY IsItself
<1>5. Is(a, x, y) /\ Is(b, u, v)
  BY <1>1, <1>2, <1>3, <1>4, IsItself
<1>6. PICK n \in Int : n = x * u
  OBVIOUS
<1>7. PICK d \in Int : d = y * v /\ d > 0
  BY <1>2, <1>4
<1>8. Is(Product(a, b), n, d)
  BY <1>5, <1>6, <1>7, ProductIs
<1>9. (x >= 0 => n >= 0) /\ (x <= 0 => n <= 0)
  BY <1>3, <1>6
<1>10. PICK p \in Int : p = Product(a, b)[1]
  BY <1>8, FractionParts DEF Is
<1>11. (p > 0 <=> n > 0) /\ (p >= 0 <=> n >= 0)
  BY <1>7, <1>8, <1>10, SignIs
<1> QED
  BY <1>1, <1>9, <1>10, <1>11

Long(n, held) == \A i \in 1 .. n : held[i][1] >= 0 /\ LessEq(held[i], One)

LEMMA RateSign ==
  ASSUME NEW n \in Nat, NEW ps, NEW held, Bars(n, ps, held), Long(n, held), NEW i \in 1 .. n
  PROVE  Plus(One, NetReturn(ps, held, Zero, i))[1] >= 0
<1>1. PICK r : r = PriceReturn(ps, i)
  OBVIOUS
<1>2. PICK x \in Int, y \in Int : y > 0 /\ x >= -y /\ Is(r, x, y)
  BY <1>1, PriceReturnIs
<1>3. PICK h \in Fraction : h = At(held, i - 1)
  <2>1. i - 1 \in 0 .. n
    OBVIOUS
  <2> QED
    BY <2>1, AtFraction
<1>4. h[1] >= 0 /\ LessEq(h, One)
  <2>1. CASE i = 1
    BY <1>3, <2>1 DEF At, Zero, LessEq, One, Whole
  <2>2. CASE i # 1
    <3>1. i - 1 \in 1 .. n /\ i - 1 # 0
      BY <2>2
    <3> QED
      BY <1>3, <3>1 DEF At, Long
  <2> QED
    BY <2>1, <2>2
<1>5. PICK u \in Int : u = h[1] /\ u >= 0
  BY <1>4, IsItself
<1>6. PICK v \in Int : v = h[2] /\ v > 0
  BY IsItself
<1>7. Is(h, u, v) /\ u <= v
  <2>1. Is(h, u, v)
    BY <1>5, <1>6, IsItself
  <2>2. u * 1 <= 1 * v
    BY <1>4, <1>5, <1>6 DEF LessEq, One, Whole
  <2> QED
    BY <2>1, <2>2
<1>8. PICK m \in Int : m = u * x
  OBVIOUS
<1>9. PICK d \in Int : d = v * y /\ d > 0
  BY <1>2, <1>6
<1>10. Is(Product(h, r), m, d)
  BY <1>2, <1>7, <1>8, <1>9, ProductIs
<1>11. PICK g \in Fraction : g = held[i]
  BY DEF Bars
<1>12. Product(Magnitude(Minus(g, h)), Zero) = Zero
  BY MinusFraction, MagnitudeFraction, ProductZero
<1>13. PICK z \in Int : z = 0
  OBVIOUS
<1>14. Is(Zero, z, d)
  BY <1>13 DEF Is, Zero, Fraction
<1>15. NetReturn(ps, held, Zero, i) = Minus(Product(h, r), Zero)
  BY <1>1, <1>3, <1>11, <1>12 DEF NetReturn
<1>16. Is(Minus(Product(h, r), Zero), m - z, d)
  BY <1>10, <1>14, MinusIs
<1>17. Is(One, d, d)
  BY DEF Is, One, Whole, Fraction
<1>18. PICK k \in Int : k = m - z /\ k = m
  BY <1>13
<1>19. Is(Plus(One, NetReturn(ps, held, Zero, i)), d + k, d)
  BY <1>15, <1>16, <1>17, <1>18, PlusIs
<1>20. d + k >= 0
  <2>1. PICK w \in Int : w = x + y /\ w >= 0
    BY <1>2
  <2>2. m = u * w - u * y /\ u * w >= 0
    BY <1>5, <1>8, <2>1
  <2>3. u * y <= v * y
    BY <1>2, <1>7, ScaleLess
  <2> QED
    BY <1>9, <1>18, <2>2, <2>3
<1>21. PICK s \in Int : s = d + k
  OBVIOUS
<1> QED
  BY <1>9, <1>19, <1>20, <1>21, SignIs

LEMMA CurveSign ==
  ASSUME NEW n \in Nat, NEW ps, NEW held, Bars(n, ps, held), Long(n, held),
         NEW f, Compounds(f, n, ps, held, Zero), NEW i \in 0 .. n
  PROVE  (Capital[1] >= 0 => f[i][1] >= 0) /\ (Capital[1] <= 0 => f[i][1] <= 0)
<1> DEFINE Good(k) == (Capital[1] >= 0 => f[k][1] >= 0) /\ (Capital[1] <= 0 => f[k][1] <= 0)
           S == {k \in 0 .. n : Good(k)}
<1>1. 0 \in S
  BY DEF Compounds
<1>2. ASSUME NEW k \in 0 .. n - 1, k \in S PROVE k + 1 \in S
  <2>1. k + 1 \in 1 .. n /\ (k + 1) - 1 = k /\ k \in 0 .. n /\ Good(k)
    BY <1>2
  <2>2. PICK r \in Fraction : r = Plus(One, NetReturn(ps, held, Zero, k + 1))
    BY <2>1, NetReturnFraction DEF Zero, Fraction
  <2>3. r[1] >= 0
    BY <2>1, <2>2, RateSign
  <2>4. f[k] \in Fraction /\ f[k + 1] = Product(f[k], r)
    BY <2>1, <2>2 DEF Compounds
  <2>5. f[k][1] \in Int /\ Capital[1] \in Int
    BY <2>4, CapitalAssumption, FractionParts
  <2>6. Good(k + 1)
    BY <2>1, <2>3, <2>4, <2>5, ProductSign
  <2> QED
    BY <2>1, <2>6
<1> HIDE DEF Good
<1>3. 0 .. n \subseteq S
  <2> HIDE DEF S
  <2> QED
    BY <1>1, <1>2, StepsUp
<1>4. Good(i)
  BY <1>3
<1> QED
  BY <1>4 DEF Good

LEMMA FallBounded ==
  ASSUME NEW p \in Fraction, NEW e \in Fraction, p[1] # 0, LessEq(e, p),
         p[1] > 0 => e[1] >= 0
  PROVE  LessEq(Quotient(Minus(p, e), p), One)
<1>1. PICK n, m, d \in Int : d > 0 /\ Is(p, n, d) /\ Is(e, m, d)
  BY CommonTerms
<1>2. n # 0 /\ (n > 0 => m >= 0)
  BY <1>1, SignIs
<1>3. m <= n
  BY <1>1, LessEqIs
<1>4. PICK f : f = Quotient(Minus(p, e), p)
  OBVIOUS
<1>5. PICK k \in Int : k = n - m
  OBVIOUS
<1>6. Is(f, k, n)
  BY <1>1, <1>2, <1>4, <1>5, FallIs
<1>7. CASE n > 0
  <2>1. Is(One, n, n)
    BY DEF Is, One, Whole, Fraction
  <2>2. LessEq(f, One) <=> k <= n
    BY <1>6, <1>7, <2>1, LessEqIs
  <2> QED
    BY <1>2, <1>4, <1>5, <1>7, <2>2
<1>8. CASE n < 0
  <2>1. PICK z \in Int : z = -1
    OBVIOUS
  <2>2. PICK x \in Int : x = k * z /\ x = m - n
    BY <1>5, <2>1
  <2>3. PICK y \in Int : y = n * z /\ y = -n /\ y > 0
    BY <1>8, <2>1
  <2>4. Is(f, x, y)
    BY <1>6, <2>1, <2>2, <2>3, Expand
  <2>5. Is(One, y, y)
    BY DEF Is, One, Whole, Fraction
  <2>6. LessEq(f, One) <=> x <= y
    BY <2>3, <2>4, <2>5, LessEqIs
  <2> QED
    BY <1>3, <1>4, <1>8, <2>2, <2>3, <2>6
<1> QED
  BY <1>2, <1>7, <1>8

LEMMA LossBounded ==
  ASSUME NEW n \in Nat, n # 0, NEW ps, NEW held, Bars(n, ps, held), Long(n, held)
  PROVE  LessEq(MaxDrawdown(EquityCurve(ps, held, Zero)), One)
<1>1. Zero \in Fraction
  BY DEF Zero, Fraction
<1>2. PICK f : /\ Compounds(f, n, ps, held, Zero)
               /\ EquityCurve(ps, held, Zero) = [i \in 1 .. n |-> f[i]]
  BY <1>1, EquityCurveIs
<1>3. PICK equity : equity = [i \in 1 .. n |-> f[i]]
  OBVIOUS
<1>4. equity \in [1 .. n -> Fraction] /\ \A i \in 1 .. n : Reduced(equity[i])
  BY <1>2, <1>3 DEF Compounds
<1>5. \A i \in 1 .. n : (Capital[1] >= 0 => equity[i][1] >= 0)
                        /\ (Capital[1] <= 0 => equity[i][1] <= 0)
  <2> SUFFICES ASSUME NEW i \in 1 .. n
               PROVE  (Capital[1] >= 0 => equity[i][1] >= 0)
                      /\ (Capital[1] <= 0 => equity[i][1] <= 0)
    OBVIOUS
  <2>1. i \in 0 .. n /\ equity[i] = f[i]
    BY <1>3
  <2> QED
    BY <1>2, <2>1, CurveSign
<1>6. PICK peak \in [1 .. n -> Fraction] :
        /\ DrawdownSeries(equity) =
             [i \in 1 .. n |-> IF peak[i] = Zero THEN Zero
                               ELSE Quotient(Minus(peak[i], equity[i]), peak[i])]
        /\ \A j \in 1 .. n : /\ \A i \in 1 .. j : LessEq(equity[i], peak[j])
                             /\ \E i \in 1 .. j : peak[j] = equity[i]
  BY <1>4, PeaksAre
<1> DEFINE dd == DrawdownSeries(equity)
<1>7. ASSUME NEW j \in 1 .. n
      PROVE  dd[j] \in Fraction /\ LessEq(dd[j], One)
  <2>1. PICK p \in Fraction : p = peak[j]
    OBVIOUS
  <2>2. PICK e \in Fraction : e = equity[j]
    BY <1>4
  <2>3. dd[j] = IF p = Zero THEN Zero ELSE Quotient(Minus(p, e), p)
    BY <1>6, <2>1, <2>2
  <2>4. (p # Zero => p[1] # 0)
        /\ (IF p = Zero THEN Zero ELSE Quotient(Minus(p, e), p)) \in Fraction
    <3>1. /\ peak[j] # Zero => peak[j][1] # 0
          /\ (IF peak[j] = Zero THEN Zero
              ELSE Quotient(Minus(peak[j], equity[j]), peak[j])) \in Fraction
      BY <1>4, <1>6, FallsAre
    <3> QED
      BY <2>1, <2>2, <3>1
  <2> HIDE DEF dd
  <2>5. CASE p = Zero
    <3>1. LessEq(Zero, One)
      BY DEF LessEq, Zero, One, Whole
    <3> QED
      BY <2>3, <2>4, <2>5, <3>1
  <2>6. CASE p # Zero
    <3>1. LessEq(e, p)
      <4>1. j \in 1 .. j
        OBVIOUS
      <4> QED
        BY <1>6, <2>1, <2>2, <4>1
    <3>2. p[1] > 0 => e[1] >= 0
      <4>1. PICK i \in 1 .. j : p = equity[i]
        BY <1>6, <2>1
      <4>2. i \in 1 .. n
        OBVIOUS
      <4>3. Capital[1] \in Int /\ p[1] \in Int
        BY CapitalAssumption, FractionParts
      <4> QED
        BY <1>5, <2>2, <4>1, <4>2, <4>3
    <3>3. LessEq(Quotient(Minus(p, e), p), One)
      BY <2>4, <2>6, <3>1, <3>2, FallBounded
    <3> QED
      BY <2>3, <2>4, <2>6, <3>3
  <2> QED
    BY <2>5, <2>6
<1>8. DOMAIN dd = 1 .. n
  BY <1>6
<1>9. \E j \in 1 .. n : dd[j] = MaxDrawdown(equity)
  BY <1>4, <1>7, <1>8, MaxDrawdownIs
<1> HIDE DEF dd
<1> QED
  BY <1>2, <1>3, <1>7, <1>9

\* The arrays of a backtest grow together.
BarsInv == /\ signals \in Seq(Signal) /\ prices \in Seq(Price)
           /\ job = "backtest" => Len(prices) = Len(signals)
           /\ job # "backtest" => signals = <<>>

LEMMA InitBars == BacktestsInit => BarsInv
BY DEF BacktestsInit, BarsInv

LEMMA NextBars == BarsInv /\ [BacktestsNext]_allVars => BarsInv'
<1> SUFFICES ASSUME BarsInv, [BacktestsNext]_allVars PROVE BarsInv'
  OBVIOUS
<1>1. CASE UNCHANGED allVars
  BY <1>1 DEF BarsInv, allVars
<1>2. ASSUME NEW price \in Price, AddPrice(price) PROVE BarsInv'
  BY <1>2 DEF BarsInv, AddPrice
<1>3. ASSUME NEW price \in Price, NEW signal \in Signal, AddBar(price, signal) PROVE BarsInv'
  BY <1>3 DEF BarsInv, AddBar
<1> QED
  BY <1>1, <1>2, <1>3 DEF BacktestsNext

LEMMA HeldBars ==
  ASSUME BarsInv, signals # <<>>
  PROVE  /\ Len(signals) \in Nat \ {0} /\ Len(prices) = Len(signals)
         /\ Bars(Len(signals), prices, Held) /\ DOMAIN Held = 1 .. Len(signals)
         /\ \A i \in 1 .. Len(signals) : LessEq(Held[i], One)
<1>1. signals \in Seq(Signal) /\ prices \in Seq(Price) /\ Len(prices) = Len(signals)
  BY DEF BarsInv
<1>2. Len(signals) \in Nat \ {0}
  BY <1>1
<1>3. /\ DOMAIN Held = 1 .. Len(signals)
      /\ \A i \in 1 .. Len(signals) : Held[i] \in Fraction
  BY <1>1, ClippedFraction DEF Held
<1>4. \A i \in 1 .. Len(signals) : prices[i] \in Nat
  <2>1. \A i \in 1 .. Len(prices) : prices[i] \in Price
    BY <1>1
  <2>2. Price \subseteq Nat
    BY FillAssumption
  <2> QED
    BY <1>1, <2>1, <2>2
<1>5. ASSUME NEW i \in 1 .. Len(signals) PROVE LessEq(Held[i], One)
  <2>1. PICK s \in Fraction : s = signals[i]
    BY <1>1, SignalAssumption
  <2>2. Held[i] = Greatest(Whole(-1), Least(One, s))
    BY <1>1, <2>1 DEF Held, ComputePositions
  <2>3. One \in Fraction /\ Whole(-1) \in Fraction
    BY DEF One, Whole, Fraction
  <2>4. LessEq(Least(One, s), One)
    BY <2>3, LessEqOrder DEF Least
  <2>5. LessEq(Whole(-1), One)
    BY DEF LessEq, One, Whole
  <2> QED
    BY <2>2, <2>4, <2>5 DEF Greatest
<1> QED
  BY <1>1, <1>2, <1>3, <1>4, <1>5 DEF Bars

LEMMA DrawdownByBars == BarsInv => DrawdownIsWorstFall
<1> SUFFICES ASSUME BarsInv, signals # <<>> PROVE DrawdownIsWorstFall
  BY DEF DrawdownIsWorstFall
<1>1. PICK n \in Nat : n = Len(signals) /\ n # 0
  BY HeldBars
<1>2. PICK ps : ps = prices
  OBVIOUS
<1>3. PICK held : held = Held
  OBVIOUS
<1>4. /\ Bars(n, ps, held)
      /\ \A i \in 1 .. n : LessEq(held[i], One) /\ held[i] \in Fraction
  BY <1>1, <1>2, <1>3, HeldBars DEF Bars
<1>5. PICK f : /\ Compounds(f, n, ps, held, CostRate)
               /\ EquityCurve(ps, held, CostRate) = [i \in 1 .. n |-> f[i]]
  BY <1>4, EquityCurveIs, CapitalAssumption
<1>6. PICK equity : equity = EquityCurve(ps, held, CostRate)
  OBVIOUS
<1>7. /\ equity \in [1 .. n -> Fraction] /\ \A i \in 1 .. n : Reduced(equity[i])
      /\ Len(equity) = n
  BY <1>5, <1>6 DEF Compounds
<1> DEFINE Fall(i, j) == Quotient(Minus(equity[i], equity[j]), equity[i])
           worst == MaxDrawdown(equity)
<1>8. ASSUME \A i \in 1 .. n : Less(Zero, equity[i])
      PROVE  /\ \A j \in 1 .. n : \A i \in 1 .. j : LessEq(Fall(i, j), worst)
             /\ \E j \in 1 .. n : \E i \in 1 .. j : Fall(i, j) = worst
  <2>1. \A i \in 1 .. n : Reduced(equity[i]) /\ equity[i][1] > 0
    BY <1>7, <1>8, LessZero
  <2> QED
    BY <1>1, <1>7, <2>1, WorstFallIs
<1>9. ASSUME Less(One, MaxDrawdown(EquityCurve(ps, held, Zero)))
      PROVE  \E i \in 1 .. n : Less(held[i], Zero)
  <2> SUFFICES ASSUME \A i \in 1 .. n : ~ Less(held[i], Zero) PROVE FALSE
    OBVIOUS
  <2>1. ASSUME NEW i \in 1 .. n PROVE held[i][1] >= 0
    <3>1. held[i] \in Fraction
      BY <1>4
    <3>2. held[i][1] \in Int
      BY <3>1, FractionParts
    <3> QED
      BY <3>1, <3>2, LessZero
  <2>2. Long(n, held)
    BY <1>4, <2>1 DEF Long
  <2>3. LessEq(MaxDrawdown(EquityCurve(ps, held, Zero)), One)
    BY <1>1, <1>4, <2>2, LossBounded
  <2> QED
    BY <1>9, <2>3 DEF Less
<1> QED
  BY <1>2, <1>3, <1>6, <1>7, <1>8, <1>9 DEF DrawdownIsWorstFall

\* max_drawdown(), which keeps a running maximum, finds the worst fall between any
\* two bars of a positive equity curve, and no worse one; without costs it exceeds
\* one only when a short position was held.
THEOREM DrawdownCorrect == BacktestsSpec => []DrawdownIsWorstFall
<1> QED
  BY InitBars, NextBars, DrawdownByBars, PTL DEF BacktestsSpec

--------------------------------------------------------------------------------
(* The round trips of a backtest *)

Trip == [side : Int, entry : Nat, exit : Nat, quantity : Fraction, pnl : Fraction]
Entry == [entry : Nat, price : Nat, side : Int]
Visited == [open : Entry, trades : Seq(Trip)]
Start == [open |-> NoEntry, trades |-> <<>>]

LEMMA TradeRecordIs ==
  ASSUME NEW open \in Entry, NEW exit \in Nat, NEW price \in Nat, NEW quantity \in Fraction
  PROVE  TradeRecord(open, exit, price, quantity) \in Trip
<1>1. PICK w \in Int : w = open.side * (price - open.price)
  BY DEF Entry
<1>2. Whole(w) \in Fraction
  BY DEF Whole, Fraction
<1>3. Product(Whole(w), quantity) \in Fraction
  BY <1>2, ProductFraction
<1> QED
  BY <1>1, <1>3 DEF TradeRecord, Trip, Entry

LEMMA StartIs == Start \in Visited
<1>1. NoEntry \in Entry
  BY DEF NoEntry, Entry
<1>2. <<>> \in Seq(Trip)
  OBVIOUS
<1> QED
  BY <1>1, <1>2 DEF Start, Visited

LEMMA VisitIs ==
  ASSUME NEW n \in Nat, NEW ps, NEW held, Bars(n, ps, held), NEW i \in 1 .. n,
         NEW seen \in Visited
  PROVE  Visit(ps, held, seen, i) \in Visited
<1>1. PICK before \in Int : before = Sign(At(held, i - 1))
  BY DEF Sign
<1>2. PICK now \in Int : now = Sign(held[i])
  BY DEF Sign
<1>3. PICK p \in Nat : p = ps[i]
  BY DEF Bars
<1>4. seen.open \in Entry /\ seen.trades \in Seq(Trip)
  BY DEF Visited
<1>5. PICK open : open = IF now = 0 THEN NoEntry ELSE [entry |-> i, price |-> p, side |-> now]
  OBVIOUS
<1>6. open \in Entry
  BY <1>5 DEF NoEntry, Entry
<1>7. PICK q : q = Magnitude(held[i - 1])
  OBVIOUS
<1>8. before # 0 => q \in Fraction
  <2> SUFFICES ASSUME before # 0 PROVE q \in Fraction
    OBVIOUS
  <2>1. i # 1
    BY <1>1 DEF At, Sign, Zero
  <2>2. i - 1 \in 1 .. n
    BY <2>1
  <2> QED
    BY <1>7, <2>2, MagnitudeFraction DEF Bars
<1>9. PICK t : t = TradeRecord(seen.open, i, p, q)
  OBVIOUS
<1>10. before # 0 => t \in Trip
  BY <1>4, <1>8, <1>9, TradeRecordIs
<1>11. PICK trades : trades = IF before = 0 THEN seen.trades ELSE Append(seen.trades, t)
  OBVIOUS
<1>12. trades \in Seq(Trip)
  BY <1>4, <1>10, <1>11
<1>13. Visit(ps, held, seen, i) = IF before = now THEN seen ELSE [open |-> open, trades |-> trades]
  BY <1>1, <1>2, <1>3, <1>5, <1>7, <1>9, <1>11 DEF Visit
<1>14. [open |-> open, trades |-> trades] \in Visited
  BY <1>6, <1>12 DEF Visited
<1> QED
  BY <1>13, <1>14

\* What the loop has seen after each bar.
Visits(v, n, ps, held) ==
  /\ v \in [0 .. n -> Visited] /\ v[0] = Start
  /\ \A i \in 1 .. n : v[i] = Visit(ps, held, v[i - 1], i)

LEMMA ExtractTradesIs ==
  ASSUME NEW n \in Nat, NEW ps, NEW held, Bars(n, ps, held)
  PROVE  \E v : /\ Visits(v, n, ps, held)
                /\ ExtractTrades(ps, held) =
                     IF v[n].open = NoEntry THEN v[n].trades
                     ELSE Append(v[n].trades,
                                 TradeRecord(v[n].open, n, ps[n], Magnitude(held[n])))
<1> DEFINE Step(h, t) == IF t = {} THEN Start ELSE Visit(ps, held, h[t \ {Max(t)}], Max(t))
           Iter(h) == h = [t \in SUBSET (1 .. n) |-> Step(h, t)]
           fold == CHOOSE h : Iter(h)
           G == [p \in Visited \X (1 .. n) |-> Visit(ps, held, p[1], p[2])]
<1>1. G \in [Visited \X (1 .. n) -> Visited]
  BY VisitIs
<1>2. \A x \in Visited, i \in 1 .. n : G[<<x, i>>] = Visit(ps, held, x, i)
  OBVIOUS
<1> HIDE DEF G
<1>3. PICK g \in [SUBSET (1 .. n) -> Visited] : FoldsUp(g, n, Start, G)
  BY <1>1, StartIs, FoldExists
<1>4. ASSUME NEW t \in SUBSET (1 .. n), t # {}
      PROVE  Max(t) \in 1 .. n
  BY <1>3, <1>4 DEF FoldsUp
<1>5. ASSUME NEW t \in SUBSET (1 .. n) PROVE g[t] = Step(g, t)
  <2>1. CASE t = {}
    BY <1>3, <2>1 DEF FoldsUp
  <2>2. CASE t # {}
    <3>1. Max(t) \in t /\ g[t] = G[<<g[t \ {Max(t)}], Max(t)>>]
      BY <1>3, <2>2 DEF FoldsUp
    <3>2. g[t \ {Max(t)}] \in Visited /\ Max(t) \in 1 .. n
      <4>1. t \ {Max(t)} \in SUBSET (1 .. n)
        OBVIOUS
      <4> QED
        BY <1>3, <3>1, <4>1
    <3>3. G[<<g[t \ {Max(t)}], Max(t)>>] = Visit(ps, held, g[t \ {Max(t)}], Max(t))
      BY <1>2, <3>2
    <3> QED
      BY <2>2, <3>1, <3>3
  <2> QED
    BY <2>1, <2>2
<1> DEFINE index == [i \in 1 .. n |-> i]
           Other(h, t) == IF t = {} THEN Start
                          ELSE Visit(ps, held, h[t \ {Max(t)}], index[Max(t)])
           OtherIter(h) == h = [t \in SUBSET (1 .. n) |-> Other(h, t)]
           other == CHOOSE h : OtherIter(h)
<1>6. FoldLeft(LAMBDA seen, i : Visit(ps, held, seen, i), Start, index) = other[1 .. n]
  BY DEF FoldLeft, MapThenFoldSet
<1>7. \A h, t : t \in SUBSET (1 .. n) => Other(h, t) = Step(h, t)
  BY <1>4
<1> HIDE DEF Step, Other
<1>8. \A h : OtherIter(h) <=> Iter(h)
  BY <1>7
<1>9. Iter(g)
  BY <1>3, <1>5
<1>10. PICK h : h = other /\ OtherIter(h)
  BY <1>8, <1>9
<1>11. \A t \in SUBSET (1 .. n) : h[t] = Step(h, t)
  BY <1>7, <1>10
<1> HIDE DEF other, OtherIter, Iter, fold
<1>12. FoldsTyped(h, n, Visited, Start, G)
  <2> SUFFICES ASSUME NEW t \in SUBSET (1 .. n), t # {}, h[t \ {Max(t)}] \in Visited
               PROVE  h[t] = G[<<h[t \ {Max(t)}], Max(t)>>]
    BY <1>11 DEF FoldsTyped, Step
  <2>1. Max(t) \in 1 .. n
    BY <1>4
  <2> QED
    BY <1>2, <1>11, <2>1 DEF Step
<1>13. PICK v \in [0 .. n -> Visited] : RecursTo(v, n, Start, G, h[1 .. n])
  BY <1>1, <1>12, StartIs, PrefixesRecur
<1>14. \A i \in 1 .. n : v[i] = Visit(ps, held, v[i - 1], i)
  <2> SUFFICES ASSUME NEW i \in 1 .. n PROVE v[i] = Visit(ps, held, v[i - 1], i)
    OBVIOUS
  <2>1. v[i - 1] \in Visited /\ v[i] = G[<<v[i - 1], i>>]
    BY <1>13 DEF RecursTo, Recurs
  <2> QED
    BY <1>2, <2>1
<1>15. Visits(v, n, ps, held)
  BY <1>13, <1>14 DEF Visits, RecursTo, Recurs
<1>16. Len(ps) = n
  BY DEF Bars
<1>17. ExtractTrades(ps, held) =
         IF v[n].open = NoEntry THEN v[n].trades
         ELSE Append(v[n].trades, TradeRecord(v[n].open, n, ps[n], Magnitude(held[n])))
  BY <1>6, <1>10, <1>13, <1>16 DEF ExtractTrades, Start, index, RecursTo
<1> QED
  BY <1>15, <1>17

LEMMA ProductAgree ==
  ASSUME NEW n \in Nat, NEW m \in Nat, NEW base, NEW s, NEW t, NEW f, NEW g, n <= m,
         ProductUp(f, n, base, s), ProductUp(g, m, base, t), \A i \in 1 .. n : s[i] = t[i]
  PROVE  f[n] = g[n]
<1> DEFINE S == {i \in 0 .. n : f[i] = g[i]}
<1>1. 0 \in S
  BY DEF ProductUp
<1>2. ASSUME NEW i \in 0 .. n - 1, i \in S PROVE i + 1 \in S
  <2>1. i + 1 \in 1 .. n /\ i + 1 \in 1 .. m /\ (i + 1) - 1 = i /\ f[i] = g[i]
    BY <1>2
  <2>2. f[i + 1] = Product(f[i], s[i + 1]) /\ g[i + 1] = Product(g[i], t[i + 1])
    BY <2>1 DEF ProductUp
  <2>3. f[i + 1] = g[i + 1]
    BY <2>1, <2>2
  <2> QED
    BY <2>1, <2>3
<1>3. 0 .. n \subseteq S
  <2> HIDE DEF S
  <2> QED
    BY <1>1, <1>2, StepsUp
<1> QED
  BY <1>3

LEMMA ProductAppend ==
  ASSUME NEW s \in Seq(Fraction), NEW x \in Fraction, NEW base \in Fraction
  PROVE  /\ FoldLeft(Product, base, Append(s, x)) = Product(FoldLeft(Product, base, s), x)
         /\ FoldLeft(Product, base, s) \in Fraction
         /\ FoldLeft(Product, base, <<>>) = base
<1>1. PICK n \in Nat : n = Len(s)
  OBVIOUS
<1>2. PICK t : t = Append(s, x)
  OBVIOUS
<1>3. /\ DOMAIN t = 1 .. n + 1 /\ \A i \in 1 .. n : s[i] = t[i] /\ t[n + 1] = x
      /\ \A i \in 1 .. n + 1 : t[i] \in Fraction
  BY <1>1, <1>2
<1>4. DOMAIN s = 1 .. n /\ \A i \in 1 .. n : s[i] \in Fraction
  BY <1>1
<1>5. PICK f : ProductUp(f, n, base, s) /\ FoldLeft(Product, base, s) = f[n]
  BY <1>4, ProductFolds
<1>6. PICK m \in Nat : m = n + 1 /\ n <= m /\ m \in 1 .. m /\ m - 1 = n
  OBVIOUS
<1>7. PICK g : ProductUp(g, m, base, t) /\ FoldLeft(Product, base, t) = g[m]
  BY <1>3, <1>6, ProductFolds
<1>8. \A i \in 1 .. n : s[i] = t[i]
  BY <1>3
<1>9. f[n] = g[n]
  <2>1. ProductUp(f, n, base, s) /\ ProductUp(g, m, base, t) /\ n <= m
    BY <1>5, <1>6, <1>7
  <2> HIDE DEF ProductUp
  <2> QED
    BY <1>8, <2>1, ProductAgree
<1>10. t[n + 1] = x
  BY <1>1, <1>2
<1>11. g[m] = Product(g[n], x)
  BY <1>6, <1>7, <1>10 DEF ProductUp
<1>12. f[n] \in Fraction
  BY <1>5 DEF ProductUp
<1>13. FoldLeft(Product, base, <<>>) = base
  <2>1. PICK e : e = <<>>
    OBVIOUS
  <2>2. 0 \in Nat /\ DOMAIN e = 1 .. 0 /\ \A i \in 1 .. 0 : e[i] \in Fraction
    BY <2>1
  <2>3. PICK h : ProductUp(h, 0, base, e) /\ FoldLeft(Product, base, e) = h[0]
    BY <2>2, ProductFolds
  <2> QED
    BY <2>1, <2>3 DEF ProductUp
<1> QED
  BY <1>2, <1>5, <1>7, <1>9, <1>11, <1>12, <1>13

LEMMA PlusAgree ==
  ASSUME NEW n \in Nat, NEW m \in Nat, NEW base, NEW s, NEW t, NEW f, NEW g, n <= m,
         PlusUp(f, n, base, s), PlusUp(g, m, base, t), \A i \in 1 .. n : s[i] = t[i]
  PROVE  f[n] = g[n]
<1> DEFINE S == {i \in 0 .. n : f[i] = g[i]}
<1>1. 0 \in S
  BY DEF PlusUp
<1>2. ASSUME NEW i \in 0 .. n - 1, i \in S PROVE i + 1 \in S
  <2>1. i + 1 \in 1 .. n /\ i + 1 \in 1 .. m /\ (i + 1) - 1 = i /\ f[i] = g[i]
    BY <1>2
  <2>2. f[i + 1] = Plus(f[i], s[i + 1]) /\ g[i + 1] = Plus(g[i], t[i + 1])
    BY <2>1 DEF PlusUp
  <2>3. f[i + 1] = g[i + 1]
    BY <2>1, <2>2
  <2> QED
    BY <2>1, <2>3
<1>3. 0 .. n \subseteq S
  <2> HIDE DEF S
  <2> QED
    BY <1>1, <1>2, StepsUp
<1> QED
  BY <1>3

LEMMA PlusAppend ==
  ASSUME NEW s \in Seq(Fraction), NEW x \in Fraction, NEW base \in Fraction
  PROVE  /\ FoldLeft(Plus, base, Append(s, x)) = Plus(FoldLeft(Plus, base, s), x)
         /\ FoldLeft(Plus, base, s) \in Fraction
         /\ FoldLeft(Plus, base, <<>>) = base
<1>1. PICK n \in Nat : n = Len(s)
  OBVIOUS
<1>2. PICK t : t = Append(s, x)
  OBVIOUS
<1>3. /\ DOMAIN t = 1 .. n + 1 /\ \A i \in 1 .. n : s[i] = t[i] /\ t[n + 1] = x
      /\ \A i \in 1 .. n + 1 : t[i] \in Fraction
  BY <1>1, <1>2
<1>4. DOMAIN s = 1 .. n /\ \A i \in 1 .. n : s[i] \in Fraction
  BY <1>1
<1>5. PICK f : PlusUp(f, n, base, s) /\ FoldLeft(Plus, base, s) = f[n]
  BY <1>4, PlusFolds
<1>6. PICK m \in Nat : m = n + 1 /\ n <= m /\ m \in 1 .. m /\ m - 1 = n
  OBVIOUS
<1>7. PICK g : PlusUp(g, m, base, t) /\ FoldLeft(Plus, base, t) = g[m]
  BY <1>3, <1>6, PlusFolds
<1>8. \A i \in 1 .. n : s[i] = t[i]
  BY <1>3
<1>9. f[n] = g[n]
  <2>1. PlusUp(f, n, base, s) /\ PlusUp(g, m, base, t) /\ n <= m
    BY <1>5, <1>6, <1>7
  <2> HIDE DEF PlusUp
  <2> QED
    BY <1>8, <2>1, PlusAgree
<1>10. t[n + 1] = x
  BY <1>1, <1>2
<1>11. g[m] = Plus(g[n], x)
  BY <1>6, <1>7, <1>10 DEF PlusUp
<1>12. f[n] \in Fraction
  BY <1>5 DEF PlusUp
<1>13. FoldLeft(Plus, base, <<>>) = base
  <2>1. PICK e : e = <<>>
    OBVIOUS
  <2>2. 0 \in Nat /\ DOMAIN e = 1 .. 0 /\ \A i \in 1 .. 0 : e[i] \in Fraction
    BY <2>1
  <2>3. PICK h : PlusUp(h, 0, base, e) /\ FoldLeft(Plus, base, e) = h[0]
    BY <2>2, PlusFolds
  <2> QED
    BY <2>1, <2>3 DEF PlusUp
<1> QED
  BY <1>2, <1>5, <1>7, <1>9, <1>11, <1>12, <1>13

--------------------------------------------------------------------------------
(* A signal acts from the next bar on *)

LEMMA MinusZero ==
  ASSUME NEW a, Reduced(a)
  PROVE  Minus(a, Zero) = a
<1>1. PICK x \in Int : x = a[1]
  BY IsItself DEF Reduced
<1>2. PICK y \in Int : y = a[2] /\ y > 0
  BY IsItself DEF Reduced
<1>3. Is(a, x, y)
  BY <1>1, <1>2, IsItself DEF Reduced
<1>4. PICK z \in Int : z = 0
  OBVIOUS
<1>5. Is(Zero, z, y) /\ Zero \in Fraction
  BY <1>4 DEF Is, Zero, Fraction
<1>6. Is(Minus(a, Zero), x - z, y)
  BY <1>3, <1>5, MinusIs
<1>7. x - z = x
  BY <1>4
<1>8. Reduced(Minus(a, Zero))
  BY <1>5, MinusFraction DEF Reduced
<1> QED
  BY <1>2, <1>3, <1>6, <1>7, <1>8, ReducedIs

LEMMA ZeroProduct ==
  ASSUME NEW a \in Fraction
  PROVE  Product(Zero, a) = Zero
<1>1. Is(Zero, 0, 1)
  BY DEF Is, Zero, Fraction
<1>2. PICK x \in Int : x = a[1]
  BY IsItself
<1>3. PICK y \in Int : y = a[2] /\ y > 0
  BY IsItself
<1>4. Is(a, x, y)
  BY <1>2, <1>3, IsItself
<1>5. Is(Product(Zero, a), 0 * x, 1 * y) /\ Reduced(Product(Zero, a))
  BY <1>1, <1>4, ProductIs
<1>6. 0 * x = 0 /\ 1 * y = y
  OBVIOUS
<1>7. Product(Zero, a)[1] = 0
  BY <1>3, <1>5, <1>6, SignIs
<1> QED
  BY <1>5, <1>7, ZeroIs

LEMMA ProductOne ==
  ASSUME NEW a, Reduced(a)
  PROVE  Product(a, One) = a
<1>1. PICK x \in Int : x = a[1]
  BY IsItself DEF Reduced
<1>2. PICK y \in Int : y = a[2] /\ y > 0
  BY IsItself DEF Reduced
<1>3. Is(a, x, y)
  BY <1>1, <1>2, IsItself DEF Reduced
<1>4. Is(One, 1, 1)
  BY DEF Is, One, Whole, Fraction
<1>5. Is(Product(a, One), x * 1, y * 1) /\ Reduced(Product(a, One))
  BY <1>3, <1>4, ProductIs
<1>6. x * 1 = x /\ y * 1 = y
  OBVIOUS
<1> QED
  BY <1>2, <1>3, <1>5, <1>6, ReducedIs

\* Without costs a bar earns what the position entering it earns.
LEMMA FreeReturn ==
  ASSUME NEW n \in Nat, NEW ps, NEW held, Bars(n, ps, held), NEW i \in 1 .. n
  PROVE  /\ NetReturn(ps, held, Zero, i) = Product(At(held, i - 1), PriceReturn(ps, i))
         /\ Reduced(Product(At(held, i - 1), PriceReturn(ps, i)))
<1>1. PICK r \in Fraction : r = PriceReturn(ps, i)
  BY PriceReturnIs DEF Is
<1>2. PICK h \in Fraction : h = At(held, i - 1)
  <2>1. i - 1 \in 0 .. n
    OBVIOUS
  <2> QED
    BY <2>1, AtFraction
<1>3. PICK g \in Fraction : g = held[i]
  BY DEF Bars
<1>4. PICK m \in Fraction : m = Magnitude(Minus(g, h))
  BY MinusFraction, MagnitudeFraction
<1>5. Product(m, Zero) = Zero
  BY ProductZero
<1>6. Reduced(Product(h, r))
  BY ProductFraction
<1>7. NetReturn(ps, held, Zero, i) = Minus(Product(h, r), Product(m, Zero))
  BY <1>1, <1>2, <1>3, <1>4 DEF NetReturn
<1>8. Minus(Product(h, r), Zero) = Product(h, r)
  BY <1>6, MinusZero
<1> QED
  BY <1>1, <1>2, <1>5, <1>6, <1>7, <1>8

LEMMA LastSignalFree ==
  ASSUME NEW n \in Nat, n # 0, NEW ps, NEW held, NEW other, Bars(n, ps, held), Bars(n, ps, other),
         \A i \in 1 .. n : i # n => held[i] = other[i]
  PROVE  Last(EquityCurve(ps, held, Zero)) = Last(EquityCurve(ps, other, Zero))
<1>1. Zero \in Fraction
  BY DEF Zero, Fraction
<1>2. PICK f : Compounds(f, n, ps, held, Zero) /\ EquityCurve(ps, held, Zero) = [i \in 1 .. n |-> f[i]]
  BY <1>1, EquityCurveIs
<1>3. PICK g : Compounds(g, n, ps, other, Zero) /\ EquityCurve(ps, other, Zero) = [i \in 1 .. n |-> g[i]]
  BY <1>1, EquityCurveIs
<1> DEFINE S == {i \in 0 .. n : f[i] = g[i]}
<1>4. 0 \in S
  BY <1>2, <1>3 DEF Compounds
<1>5. ASSUME NEW i \in 0 .. n - 1, i \in S PROVE i + 1 \in S
  <2>1. PICK k \in 1 .. n : k = i + 1 /\ k - 1 = i
    OBVIOUS
  <2>2. At(held, i) = At(other, i)
    <3>1. i # 0 => i \in 1 .. n /\ i # n
      OBVIOUS
    <3> QED
      BY <3>1 DEF At
  <2>3. NetReturn(ps, held, Zero, k) = NetReturn(ps, other, Zero, k)
    BY <2>1, <2>2, FreeReturn
  <2>4. f[k] = Product(f[i], Plus(One, NetReturn(ps, held, Zero, k)))
    BY <1>2, <2>1 DEF Compounds
  <2>5. g[k] = Product(g[i], Plus(One, NetReturn(ps, other, Zero, k)))
    BY <1>3, <2>1 DEF Compounds
  <2> QED
    BY <1>5, <2>1, <2>3, <2>4, <2>5
<1>6. n \in S
  <2>1. 0 .. n \subseteq S
    <3> HIDE DEF S
    <3> QED
      BY <1>4, <1>5, StepsUp
  <2> QED
    BY <2>1
<1>7. n \in 1 .. n /\ Len([i \in 1 .. n |-> f[i]]) = n /\ Len([i \in 1 .. n |-> g[i]]) = n
  OBVIOUS
<1> QED
  BY <1>2, <1>3, <1>6, <1>7 DEF Last

--------------------------------------------------------------------------------
(* All of the capital invested or nothing *)

LEMMA GrowthIs ==
  ASSUME NEW p \in Int, NEW q \in Int, q > 0
  PROVE  Is(Quotient(Whole(p), Whole(q)), p, q) /\ Reduced(Quotient(Whole(p), Whole(q)))
<1>1. Is(Whole(p), p, 1) /\ Is(Whole(q), q, 1) /\ Whole(q)[1] # 0
  BY DEF Is, Whole, Fraction
<1>2. /\ Is(Quotient(Whole(p), Whole(q)), p * 1, 1 * q)
      /\ Reduced(Quotient(Whole(p), Whole(q)))
  BY <1>1, QuotientIs
<1>3. p * 1 = p /\ 1 * q = q
  OBVIOUS
<1> QED
  BY <1>2, <1>3

LEMMA GrowthOne ==
  ASSUME NEW q \in Int, q > 0
  PROVE  Quotient(Whole(q), Whole(q)) = One
<1>1. Is(Quotient(Whole(q), Whole(q)), q, q) /\ Reduced(Quotient(Whole(q), Whole(q)))
  BY GrowthIs
<1>2. PICK k \in Int : k = 1
  OBVIOUS
<1>3. Is(One, q, q) /\ Reduced(One)
  BY <1>2, WholeReduced DEF Is, One, Whole, Fraction
<1> QED
  BY <1>1, <1>3, ReducedIs

LEMMA CompoundTwice ==
  ASSUME NEW c \in Fraction, NEW a \in Int, a > 0, NEW b \in Int, b > 0, NEW d \in Int,
         NEW r, Is(r, d, b)
  PROVE  Product(Product(c, Quotient(Whole(b), Whole(a))), r)
           = Product(c, Quotient(Whole(d), Whole(a)))
<1>1. PICK x \in Int : x = c[1]
  BY IsItself
<1>2. PICK y \in Int : y = c[2] /\ y > 0
  BY IsItself
<1>3. Is(c, x, y)
  BY <1>1, <1>2, IsItself
<1>4. PICK g : g = Quotient(Whole(b), Whole(a)) /\ Is(g, b, a)
  BY GrowthIs
<1>5. PICK h : h = Quotient(Whole(d), Whole(a)) /\ Is(h, d, a)
  BY GrowthIs
<1>6. PICK n \in Int : n = x * b
  OBVIOUS
<1>7. PICK m \in Int : m = y * a /\ m > 0
  BY <1>2
<1>8. Is(Product(c, g), n, m)
  BY <1>3, <1>4, <1>6, <1>7, ProductIs
<1>9. PICK p : p = Product(c, g)
  OBVIOUS
<1>10. PICK u \in Int : u = n * d
  OBVIOUS
<1>11. PICK v \in Int : v = m * b /\ v > 0
  BY <1>7
<1>12. Is(Product(p, r), u, v) /\ Reduced(Product(p, r))
  BY <1>8, <1>9, <1>10, <1>11, ProductIs
<1>13. PICK w \in Int : w = x * d
  OBVIOUS
<1>14. Is(Product(c, h), w, m) /\ Reduced(Product(c, h))
  BY <1>3, <1>5, <1>7, <1>13, ProductIs
<1>15. u = w * b
  BY <1>6, <1>10, <1>13
<1>16. Is(Product(c, h), u, v)
  BY <1>11, <1>14, <1>15, Expand
<1>17. Product(p, r) = Product(c, h)
  BY <1>11, <1>12, <1>14, <1>16, ReducedIs
<1> QED
  BY <1>4, <1>5, <1>9, <1>17

LEMMA RateWhenFlat ==
  ASSUME NEW n \in Nat, NEW ps, NEW held, Bars(n, ps, held), NEW i \in 1 .. n,
         At(held, i - 1) = Zero
  PROVE  Plus(One, NetReturn(ps, held, Zero, i)) = One
<1>1. PICK r \in Fraction : r = PriceReturn(ps, i)
  BY PriceReturnIs DEF Is
<1>2. NetReturn(ps, held, Zero, i) = Zero
  BY <1>1, FreeReturn, ZeroProduct
<1>3. PICK z \in Int : z = 0
  OBVIOUS
<1>4. PICK o \in Int : o = 1
  OBVIOUS
<1>5. Is(Zero, z, o) /\ Is(One, o, o) /\ Zero \in Fraction /\ One \in Fraction
  BY <1>3, <1>4 DEF Is, One, Zero, Whole, Fraction
<1>6. Is(Plus(One, Zero), o + z, o) /\ Reduced(Plus(One, Zero))
  BY <1>5, PlusIs, PlusReduced
<1>7. o + z = o
  BY <1>3
<1>8. Reduced(One)
  BY WholeReduced DEF One
<1>9. Plus(One, Zero) = One
  BY <1>4, <1>5, <1>6, <1>7, <1>8, ReducedIs
<1> QED
  BY <1>2, <1>9

LEMMA RateWhenIn ==
  ASSUME NEW n \in Nat, NEW ps, NEW held, Bars(n, ps, held), NEW i \in 1 .. n, i # 1,
         At(held, i - 1) = One, ps[i - 1] > 0
  PROVE  Is(Plus(One, NetReturn(ps, held, Zero, i)), ps[i], ps[i - 1])
<1>1. PICK p \in Int : p = ps[i - 1] /\ p > 0
  <2>1. i - 1 \in 1 .. n
    OBVIOUS
  <2> QED
    BY <2>1 DEF Bars
<1>2. PICK q \in Int : q = ps[i]
  BY DEF Bars
<1>3. PICK x \in Int : x = q - p
  OBVIOUS
<1>4. PICK r : r = PriceReturn(ps, i) /\ r = Quotient(Whole(x), Whole(p))
  BY <1>1, <1>2, <1>3 DEF PriceReturn
<1>5. Is(r, x, p)
  BY <1>1, <1>4, GrowthIs
<1>6. PICK o \in Int : o = 1
  OBVIOUS
<1>7. Is(One, o, o) /\ Is(One, p, p)
  BY <1>6 DEF Is, One, Whole, Fraction
<1>8. Is(Product(One, r), o * x, o * p)
  BY <1>5, <1>7, ProductIs
<1>9. o * x = x /\ o * p = p
  BY <1>6
<1>10. PICK t : t = Product(One, r) /\ Is(t, x, p)
  BY <1>8, <1>9
<1>11. NetReturn(ps, held, Zero, i) = t
  BY <1>4, <1>10, FreeReturn
<1>12. Is(Plus(One, t), p + x, p)
  BY <1>7, <1>10, PlusIs
<1>13. p + x = q
  BY <1>3
<1> QED
  BY <1>1, <1>2, <1>11, <1>12, <1>13

\* What the trades so far multiplied the capital by.
Growths(trades, ps) ==
  [k \in DOMAIN trades |-> Quotient(Whole(ps[trades[k].exit]), Whole(ps[trades[k].entry]))]
Gained(trades, ps) == FoldLeft(Product, Capital, Growths(trades, ps))

\* Trades between bars of the backtest.
Within(trades, n) ==
  /\ trades \in Seq(Trip)
  /\ \A k \in 1 .. Len(trades) : trades[k].entry \in 1 .. n /\ trades[k].exit \in 1 .. n

AllIn(n, ps, held) ==
  /\ Bars(n, ps, held) /\ Reduced(Capital)
  /\ \A i \in 1 .. n : held[i] \in {Zero, One} /\ ps[i] > 0

LEMMA GrowthsTyped ==
  ASSUME NEW n \in Nat, NEW ps, NEW held, AllIn(n, ps, held), NEW trades, Within(trades, n)
  PROVE  Growths(trades, ps) \in Seq(Fraction)
<1>1. PICK m \in Nat : m = Len(trades) /\ DOMAIN trades = 1 .. m
  BY DEF Within
<1>2. ASSUME NEW k \in 1 .. m
      PROVE  Quotient(Whole(ps[trades[k].exit]), Whole(ps[trades[k].entry])) \in Fraction
  <2>1. PICK e \in 1 .. n : e = trades[k].entry
    BY <1>1 DEF Within
  <2>2. PICK x \in 1 .. n : x = trades[k].exit
    BY <1>1 DEF Within
  <2>3. ps[x] \in Int /\ ps[e] \in Int /\ ps[e] > 0
    BY DEF AllIn, Bars
  <2>4. Reduced(Quotient(Whole(ps[x]), Whole(ps[e])))
    BY <2>3, GrowthIs
  <2> QED
    BY <2>1, <2>2, <2>4 DEF Reduced
<1>3. PICK g : g = Growths(trades, ps)
  OBVIOUS
<1>4. g = [k \in 1 .. m |-> Quotient(Whole(ps[trades[k].exit]), Whole(ps[trades[k].entry]))]
  BY <1>1, <1>3 DEF Growths
<1>5. g \in [1 .. m -> Fraction]
  BY <1>2, <1>4
<1>6. g \in Seq(Fraction)
  BY <1>5
<1> QED
  BY <1>3, <1>6

LEMMA GainedIs ==
  ASSUME NEW n \in Nat, NEW ps, NEW held, AllIn(n, ps, held), NEW trades, Within(trades, n),
         NEW t \in Trip, t.entry \in 1 .. n, t.exit \in 1 .. n
  PROVE  /\ Within(Append(trades, t), n)
         /\ Gained(Append(trades, t), ps)
              = Product(Gained(trades, ps), Quotient(Whole(ps[t.exit]), Whole(ps[t.entry])))
<1>1. PICK m \in Nat : m = Len(trades) /\ DOMAIN trades = 1 .. m
  BY DEF Within
<1>2. PICK all : all = Append(trades, t)
  OBVIOUS
<1>3. /\ all \in Seq(Trip) /\ Len(all) = m + 1 /\ DOMAIN all = 1 .. m + 1 /\ all[m + 1] = t
      /\ \A k \in 1 .. m : all[k] = trades[k]
  BY <1>1, <1>2 DEF Within
<1>4. Within(all, n)
  <2> SUFFICES ASSUME NEW k \in 1 .. Len(all) PROVE all[k].entry \in 1 .. n /\ all[k].exit \in 1 .. n
    BY <1>3 DEF Within
  <2>1. CASE k = m + 1
    BY <1>3, <2>1
  <2>2. CASE k # m + 1
    <3>1. k \in 1 .. m
      BY <1>3, <2>2
    <3> QED
      BY <1>1, <1>3, <3>1 DEF Within
  <2> QED
    BY <2>1, <2>2
<1>5. PICK g : g = Growths(trades, ps) /\ g \in Seq(Fraction)
  BY GrowthsTyped
<1>6. PICK h : h = Growths(all, ps) /\ h \in Seq(Fraction)
  BY <1>4, GrowthsTyped
<1>7. PICK x : x = Quotient(Whole(ps[t.exit]), Whole(ps[t.entry]))
  OBVIOUS
<1>8. DOMAIN g = 1 .. m /\ DOMAIN h = 1 .. m + 1 /\ h[m + 1] = x /\ \A k \in 1 .. m : h[k] = g[k]
  BY <1>1, <1>3, <1>5, <1>6, <1>7 DEF Growths
<1>9. x \in Fraction
  <2>1. m + 1 \in 1 .. m + 1
    OBVIOUS
  <2> QED
    BY <1>6, <1>8, <2>1
<1>10. h = Append(g, x)
  <2>1. PICK a : a = Append(g, x)
    OBVIOUS
  <2>2. Len(g) = m
    BY <1>5, <1>8
  <2>3. DOMAIN a = 1 .. m + 1 /\ a[m + 1] = x /\ \A k \in 1 .. m : a[k] = g[k]
    BY <1>5, <2>1, <2>2
  <2>4. a \in Seq(Fraction)
    BY <1>5, <1>9, <2>1
  <2>5. a = [k \in 1 .. m + 1 |-> a[k]] /\ h = [k \in 1 .. m + 1 |-> h[k]]
    BY <1>6, <1>8, <2>3, <2>4
  <2>6. \A k \in 1 .. m + 1 : a[k] = h[k]
    <3> SUFFICES ASSUME NEW k \in 1 .. m + 1 PROVE a[k] = h[k]
      OBVIOUS
    <3>1. k = m + 1 \/ k \in 1 .. m
      OBVIOUS
    <3> QED
      BY <1>8, <2>3, <3>1
  <2> QED
    BY <2>1, <2>5, <2>6
<1>11. PICK c : c = Capital /\ c \in Fraction
  BY DEF AllIn, Reduced
<1>12. FoldLeft(Product, c, Append(g, x)) = Product(FoldLeft(Product, c, g), x)
  BY <1>5, <1>9, <1>11, ProductAppend
<1> QED
  BY <1>2, <1>4, <1>5, <1>6, <1>7, <1>10, <1>11, <1>12 DEF Gained

\* After bar i: flat the equity is what the trades gained, invested it is that
\* multiplied by the growth since the entry.
Invested(i, seen, value, n, ps, held) ==
  /\ seen \in Visited /\ Within(seen.trades, n) /\ Reduced(value)
  /\ At(held, i) = Zero => seen.open = NoEntry /\ value = Gained(seen.trades, ps)
  /\ At(held, i) = One =>
       /\ seen.open.entry \in 1 .. n
       /\ value = Product(Gained(seen.trades, ps),
                          Quotient(Whole(ps[i]), Whole(ps[seen.open.entry])))

LEMMA GainedFraction ==
  ASSUME NEW n \in Nat, NEW ps, NEW held, AllIn(n, ps, held), NEW trades, Within(trades, n)
  PROVE  Gained(trades, ps) \in Fraction
<1>1. PICK g : g = Growths(trades, ps) /\ g \in Seq(Fraction)
  BY GrowthsTyped
<1>2. PICK c : c = Capital /\ c \in Fraction
  BY DEF AllIn, Reduced
<1>3. FoldLeft(Product, c, g) \in Fraction
  <2>1. One \in Fraction
    BY DEF One, Whole, Fraction
  <2> QED
    BY <1>1, <1>2, <2>1, ProductAppend
<1> QED
  BY <1>1, <1>2, <1>3 DEF Gained

LEMMA InvestedStep ==
  ASSUME NEW n \in Nat, NEW ps, NEW held, AllIn(n, ps, held), NEW i \in 1 .. n,
         NEW seen, NEW value, Invested(i - 1, seen, value, n, ps, held)
  PROVE  Invested(i, Visit(ps, held, seen, i),
                  Product(value, Plus(One, NetReturn(ps, held, Zero, i))), n, ps, held)
<1>1. PICK r : r = Plus(One, NetReturn(ps, held, Zero, i))
  OBVIOUS
<1>2. PICK next : next = Visit(ps, held, seen, i)
  OBVIOUS
<1>3. PICK trades : trades = seen.trades
  OBVIOUS
<1>4. Bars(n, ps, held) /\ At(held, i) = held[i] /\ held[i] \in {Zero, One}
  BY DEF AllIn, At
<1>5. seen \in Visited /\ next \in Visited /\ Within(trades, n) /\ Reduced(value)
  BY <1>2, <1>3, <1>4, VisitIs DEF Invested
<1>6. PICK gain \in Fraction : gain = Gained(trades, ps)
  BY <1>5, GainedFraction
<1>7. ps[i] \in Int /\ ps[i] > 0
  BY DEF AllIn, Bars
<1>8. Zero # One /\ Sign(Zero) = 0 /\ Sign(One) = 1
  BY DEF Zero, One, Whole, Sign
<1>9. CASE At(held, i - 1) = Zero
  <2>1. seen.open = NoEntry /\ value = gain
    BY <1>3, <1>6, <1>9 DEF Invested
  <2>2. r = One
    BY <1>1, <1>4, <1>9, RateWhenFlat
  <2>3. Product(value, r) = value
    BY <1>5, <2>2, ProductOne
  <2>4. CASE held[i] = Zero
    <3>1. next = seen
      BY <1>2, <1>9, <2>4 DEF Visit
    <3>2. Invested(i, next, value, n, ps, held)
      BY <1>3, <1>4, <1>5, <1>6, <1>8, <2>1, <2>4, <3>1 DEF Invested
    <3> QED
      BY <1>1, <1>2, <2>3, <3>2
  <2>5. CASE held[i] = One
    <3>1. next.open.entry = i /\ next.trades = trades
      BY <1>2, <1>3, <1>8, <1>9, <2>5 DEF Visit
    <3>2. PICK p \in Int : p = ps[i] /\ p > 0
      BY <1>7
    <3>3. Quotient(Whole(p), Whole(p)) = One
      BY <3>2, GrowthOne
    <3>4. Product(gain, One) = gain
      BY <1>5, <2>1, ProductOne
    <3>5. Invested(i, next, value, n, ps, held)
      BY <1>4, <1>5, <1>6, <1>8, <2>1, <2>5, <3>1, <3>2, <3>3, <3>4 DEF Invested
    <3> QED
      BY <1>1, <1>2, <2>3, <3>5
  <2> QED
    BY <1>4, <2>4, <2>5
<1>10. CASE At(held, i - 1) = One
  <2>1. i # 1 /\ i - 1 \in 1 .. n
    BY <1>8, <1>10 DEF At
  <2>2. PICK b \in Int : b = ps[i - 1] /\ b > 0
    BY <2>1 DEF AllIn, Bars
  <2>3. PICK d \in Int : d = ps[i]
    BY <1>7
  <2>4. Is(r, d, b)
    BY <1>1, <1>4, <1>10, <2>1, <2>2, <2>3, RateWhenIn
  <2>5. PICK e \in 1 .. n : e = seen.open.entry
    BY <1>10 DEF Invested
  <2>6. PICK a \in Int : a = ps[e] /\ a > 0
    BY DEF AllIn, Bars
  <2>7. value = Product(gain, Quotient(Whole(b), Whole(a)))
    BY <1>3, <1>6, <1>10, <2>2, <2>5, <2>6 DEF Invested
  <2>8. Product(value, r) = Product(gain, Quotient(Whole(d), Whole(a)))
    BY <2>2, <2>4, <2>6, <2>7, CompoundTwice
  <2>9. PICK new : new = Product(value, r)
    OBVIOUS
  <2>10. Reduced(new)
    <3>1. value \in Fraction /\ r \in Fraction
      BY <1>5, <2>4 DEF Reduced, Is
    <3> QED
      BY <2>9, <3>1, ProductFraction
  <2>11. CASE held[i] = One
    <3>1. next = seen
      BY <1>2, <1>10, <2>11 DEF Visit
    <3>2. Invested(i, next, new, n, ps, held)
      BY <1>3, <1>4, <1>5, <1>6, <1>8, <2>3, <2>5, <2>6, <2>8, <2>9, <2>10, <2>11, <3>1
         DEF Invested
    <3> QED
      BY <1>1, <1>2, <2>9, <3>2
  <2>12. CASE held[i] = Zero
    <3>1. PICK t : t = TradeRecord(seen.open, i, ps[i], Magnitude(held[i - 1]))
      OBVIOUS
    <3>2. t \in Trip
      <4>1. Magnitude(held[i - 1]) \in Fraction /\ ps[i] \in Nat /\ i \in Nat
        BY <1>4, <2>1, MagnitudeFraction DEF Bars
      <4>2. seen.open \in Entry
        BY <1>5 DEF Visited
      <4> QED
        BY <3>1, <4>1, <4>2, TradeRecordIs
    <3>3. t.entry = e /\ t.exit = i
      BY <2>5, <3>1 DEF TradeRecord
    <3>4. next.open = NoEntry /\ next.trades = Append(trades, t)
      BY <1>2, <1>3, <1>8, <1>10, <2>12, <3>1 DEF Visit
    <3>5. /\ Within(Append(trades, t), n)
          /\ Gained(Append(trades, t), ps)
               = Product(Gained(trades, ps), Quotient(Whole(ps[t.exit]), Whole(ps[t.entry])))
      BY <1>5, <3>2, <3>3, GainedIs
    <3>6. Gained(next.trades, ps) = new
      BY <1>6, <2>3, <2>6, <2>8, <2>9, <3>3, <3>4, <3>5
    <3>7. Invested(i, next, new, n, ps, held)
      BY <1>4, <1>5, <1>8, <2>10, <2>12, <3>4, <3>5, <3>6 DEF Invested
    <3> QED
      BY <1>1, <1>2, <2>9, <3>7
  <2> QED
    BY <1>4, <2>11, <2>12
<1>11. At(held, i - 1) \in {Zero, One}
  <2>1. CASE i = 1
    BY <2>1 DEF At
  <2>2. CASE i # 1
    <3>1. i - 1 \in 1 .. n /\ i - 1 # 0
      BY <2>2
    <3> QED
      BY <3>1 DEF At, AllIn
  <2> QED
    BY <2>1, <2>2
<1> QED
  BY <1>9, <1>10, <1>11

LEMMA AllInCompounds ==
  ASSUME NEW n \in Nat, n # 0, NEW ps, NEW held, AllIn(n, ps, held)
  PROVE  Last(EquityCurve(ps, held, Zero)) = Gained(ExtractTrades(ps, held), ps)
<1>1. Bars(n, ps, held) /\ Zero \in Fraction /\ n \in 1 .. n
  BY DEF AllIn, Zero, Fraction
<1>2. PICK f : Compounds(f, n, ps, held, Zero) /\ EquityCurve(ps, held, Zero) = [i \in 1 .. n |-> f[i]]
  BY <1>1, EquityCurveIs
<1>3. PICK v : /\ Visits(v, n, ps, held)
               /\ ExtractTrades(ps, held) =
                    IF v[n].open = NoEntry THEN v[n].trades
                    ELSE Append(v[n].trades,
                                TradeRecord(v[n].open, n, ps[n], Magnitude(held[n])))
  BY <1>1, ExtractTradesIs
<1> DEFINE S == {i \in 0 .. n : Invested(i, v[i], f[i], n, ps, held)}
<1>4. 0 \in S
  <2>1. f[0] = Capital /\ v[0] = Start /\ Start \in Visited /\ Start.open = NoEntry /\ Start.trades = <<>>
    BY <1>2, <1>3, StartIs DEF Compounds, Visits, Start
  <2>2. Within(<<>>, n)
    BY DEF Within
  <2>3. At(held, 0) = Zero /\ Zero # One
    BY DEF At, Zero, One, Whole
  <2>4. PICK g : g = Growths(<<>>, ps) /\ g \in Seq(Fraction)
    BY <2>2, GrowthsTyped
  <2>5. g = <<>>
    <3>1. DOMAIN g = {}
      BY <2>4 DEF Growths
    <3> QED
      BY <2>4, <3>1
  <2>6. PICK c : c = Capital /\ c \in Fraction /\ Reduced(c)
    BY DEF AllIn, Reduced
  <2>7. FoldLeft(Product, c, <<>>) = c
    BY <2>4, <2>6, <1>1, ProductAppend
  <2>8. Gained(<<>>, ps) = Capital
    BY <2>4, <2>5, <2>6, <2>7 DEF Gained
  <2>9. Invested(0, v[0], f[0], n, ps, held)
    BY <2>1, <2>2, <2>3, <2>6, <2>8 DEF Invested
  <2> QED
    BY <2>9
<1>5. ASSUME NEW i \in 0 .. n - 1, i \in S PROVE i + 1 \in S
  <2>1. PICK k \in 1 .. n : k = i + 1 /\ k - 1 = i
    OBVIOUS
  <2>2. Invested(k - 1, v[i], f[i], n, ps, held)
    BY <1>5, <2>1
  <2>3. f[k] = Product(f[i], Plus(One, NetReturn(ps, held, Zero, k)))
    BY <1>2, <2>1 DEF Compounds
  <2>4. v[k] = Visit(ps, held, v[i], k)
    BY <1>3, <2>1 DEF Visits
  <2>5. Invested(k, v[k], f[k], n, ps, held)
    BY <2>2, <2>3, <2>4, InvestedStep
  <2> QED
    BY <2>1, <2>5
<1>6. Invested(n, v[n], f[n], n, ps, held)
  <2>1. 0 .. n \subseteq S
    <3> HIDE DEF S
    <3> QED
      BY <1>4, <1>5, StepsUp
  <2> QED
    BY <2>1
<1>7. Last(EquityCurve(ps, held, Zero)) = f[n]
  <2>1. Len([i \in 1 .. n |-> f[i]]) = n
    OBVIOUS
  <2> QED
    BY <1>1, <1>2, <2>1 DEF Last
<1>8. At(held, n) = held[n]
  BY DEF At
<1>9. CASE held[n] = Zero
  <2>1. v[n].open = NoEntry /\ f[n] = Gained(v[n].trades, ps)
    BY <1>6, <1>8, <1>9 DEF Invested
  <2> QED
    BY <1>3, <1>7, <2>1
<1>10. CASE held[n] = One
  <2>1. PICK e \in 1 .. n : e = v[n].open.entry
    BY <1>6, <1>8, <1>10 DEF Invested
  <2>2. f[n] = Product(Gained(v[n].trades, ps), Quotient(Whole(ps[n]), Whole(ps[e])))
    BY <1>6, <1>8, <1>10, <2>1 DEF Invested
  <2>3. v[n].open # NoEntry
    BY <2>1 DEF NoEntry
  <2>4. PICK t : t = TradeRecord(v[n].open, n, ps[n], Magnitude(held[n]))
    OBVIOUS
  <2>5. t \in Trip
    <3>1. Magnitude(held[n]) \in Fraction /\ ps[n] \in Nat
      BY <1>1, MagnitudeFraction DEF Bars
    <3>2. v[n].open \in Entry
      BY <1>6 DEF Visited, Invested
    <3> QED
      BY <2>4, <3>1, <3>2, TradeRecordIs
  <2>6. t.entry = e /\ t.exit = n
    BY <2>1, <2>4 DEF TradeRecord
  <2>7. Within(v[n].trades, n)
    BY <1>6 DEF Invested
  <2>8. Gained(Append(v[n].trades, t), ps)
          = Product(Gained(v[n].trades, ps), Quotient(Whole(ps[t.exit]), Whole(ps[t.entry])))
    BY <1>1, <2>5, <2>6, <2>7, GainedIs
  <2> QED
    BY <1>3, <1>7, <2>2, <2>3, <2>4, <2>6, <2>8
<1>11. held[n] \in {Zero, One}
  BY <1>1 DEF AllIn
<1> QED
  BY <1>9, <1>10, <1>11

LEMMA ActsByBars == BarsInv => ActsFromNextBar
<1> SUFFICES ASSUME BarsInv, signals # <<>> PROVE ActsFromNextBar
  BY DEF ActsFromNextBar
<1>1. PICK n \in Nat : n = Len(signals) /\ n # 0
  BY HeldBars
<1>2. PICK ps : ps = prices
  OBVIOUS
<1>3. PICK held : held = Held
  OBVIOUS
<1>4. Bars(n, ps, held)
  BY <1>1, <1>2, <1>3, HeldBars
<1>5. signals \in Seq(Signal)
  BY DEF BarsInv
<1>6. ASSUME NEW o \in Signal
      PROVE  Last(EquityCurve(ps, held, Zero))
               = Last(EquityCurve(ps, ComputePositions([signals EXCEPT ![n] = o]), Zero))
  <2>1. PICK ss : ss = [signals EXCEPT ![n] = o]
    OBVIOUS
  <2>2. ss \in Seq(Signal) /\ Len(ss) = n /\ DOMAIN ss = 1 .. n
        /\ \A i \in 1 .. n : i # n => ss[i] = signals[i]
    BY <1>1, <1>5, <2>1
  <2>3. PICK other : other = ComputePositions(ss)
    OBVIOUS
  <2>4. \A i \in 1 .. n : other[i] \in Fraction
    BY <2>2, <2>3, ClippedFraction
  <2>5. Bars(n, ps, other)
    BY <1>4, <2>4 DEF Bars
  <2>6. \A i \in 1 .. n : i # n => held[i] = other[i]
    <3>1. DOMAIN signals = 1 .. n
      BY <1>1, <1>5
    <3> QED
      BY <1>3, <2>2, <2>3, <3>1 DEF Held, ComputePositions
  <2>7. Last(EquityCurve(ps, held, Zero)) = Last(EquityCurve(ps, other, Zero))
    BY <1>1, <1>4, <2>5, <2>6, LastSignalFree
  <2> QED
    BY <2>1, <2>3, <2>7
<1>7. ASSUME \A i \in DOMAIN signals : held[i] \in {Zero, One} /\ ps[i] > 0
      PROVE  Last(EquityCurve(ps, held, Zero))
               = Gained(ExtractTrades(ps, held), ps)
  <2>1. Reduced(Capital)
    <3>1. Reduced(Lowest[Capital])
      BY CapitalAssumption, LowestReduced
    <3> QED
      BY <3>1, CapitalAssumption
  <2>2. DOMAIN signals = 1 .. n
    BY <1>1, <1>5
  <2>3. AllIn(n, ps, held)
    BY <1>4, <1>7, <2>1, <2>2 DEF AllIn
  <2> QED
    BY <1>1, <2>3, AllInCompounds
<1> QED
  BY <1>1, <1>2, <1>3, <1>6, <1>7 DEF ActsFromNextBar, Gained, Growths, Trades

\* No signal earns the return of its own bar (compute_equity_curve() takes the
\* position entering the bar), and capital all in or all out grows by what each
\* trade of extract_trades() gained, for any prices and signals.
THEOREM ActsCorrect == BacktestsSpec => []ActsFromNextBar
<1> QED
  BY InitBars, NextBars, ActsByBars, PTL DEF BacktestsSpec

--------------------------------------------------------------------------------
(* The ledger pays for every change of position *)

\* A position is a whole number of units of the ledger.
LEMMA UnitsAre ==
  ASSUME NEW s \in Signal
  PROVE  \E u \in Int : Is(s, u, SizeUnit)
<1>1. PICK x \in Int : x = s[1]
  BY SignalAssumption, FractionParts
<1>2. PICK y \in Int : y = s[2] /\ y > 0
  BY SignalAssumption, FractionParts
<1>3. PICK d \in Int : d = SizeUnit /\ d > 0
  BY SignalAssumption
<1>4. PICK t : t = Times(s, d)
  OBVIOUS
<1>5. PICK n \in Int : n = x * d
  OBVIOUS
<1>6. Is(s, x, y) /\ s \in Fraction
  BY <1>1, <1>2, SignalAssumption, IsItself
<1>7. Is(t, n, y)
  BY <1>4, <1>5, <1>6, TimesIs
<1>8. t[2] = 1
  BY <1>3, <1>4, SignalAssumption
<1>9. PICK u \in Int : u = t[1]
  BY <1>7 DEF Is, Fraction
<1>10. u * y = n * 1
  BY <1>7, <1>8, <1>9 DEF Is
<1>11. x * d = u * y
  BY <1>5, <1>10
<1>12. Is(s, u, d)
  BY <1>1, <1>2, <1>6, <1>11 DEF Is
<1> QED
  BY <1>3, <1>12

LEMMA HeldUnits ==
  ASSUME NEW ss \in Seq(Signal), NEW i \in 0 .. Len(ss)
  PROVE  \E u \in Int : Is(At(ComputePositions(ss), i), u, SizeUnit)
<1>1. PICK d \in Int : d = SizeUnit /\ d > 0
  BY SignalAssumption
<1>2. CASE i = 0
  <2>1. PICK z \in Int : z = 0
    OBVIOUS
  <2>2. Is(Zero, z, d)
    BY <2>1 DEF Is, Zero, Fraction
  <2> QED
    BY <1>1, <1>2, <2>2 DEF At
<1>3. CASE i # 0
  <2>1. i \in 1 .. Len(ss)
    BY <1>3
  <2>2. PICK s \in Signal : s = ss[i]
    BY <2>1
  <2>3. At(ComputePositions(ss), i) = Greatest(Whole(-1), Least(One, s))
    BY <1>3, <2>1, <2>2 DEF At, ComputePositions
  <2>4. Greatest(Whole(-1), Least(One, s)) \in {Whole(-1), One, s}
    BY DEF Greatest, Least
  <2>5. PICK w \in Int : w = -1
    OBVIOUS
  <2>6. PICK o \in Int : o = 1
    OBVIOUS
  <2>7. PICK m \in Int : m = w * d
    OBVIOUS
  <2>8. PICK k \in Int : k = o * d
    OBVIOUS
  <2>9. Is(Whole(w), m, d) /\ Is(Whole(o), k, d)
    BY <2>7, <2>8, WholeIs
  <2>10. \E u \in Int : Is(s, u, d)
    BY <1>1, UnitsAre
  <2> QED
    BY <1>1, <2>3, <2>4, <2>5, <2>6, <2>9, <2>10 DEF One
<1> QED
  BY <1>2, <1>3

LEMMA UnitsUnique ==
  ASSUME NEW a, NEW u \in Int, NEW w \in Int, NEW d \in Int, Is(a, u, d), Is(a, w, d)
  PROVE  u = w
<1>1. PICK x \in Int : x = a[1]
  BY FractionParts DEF Is
<1>2. PICK y \in Int : y = a[2] /\ y # 0
  BY FractionParts DEF Is
<1>3. x * d = u * y /\ x * d = w * y
  BY <1>1, <1>2 DEF Is
<1> QED
  BY <1>2, <1>3, Cancel

LEMMA ChangeIs ==
  ASSUME NEW a, NEW b, NEW u \in Int, NEW w \in Int, NEW d \in Int, d > 0, Is(a, u, d), Is(b, w, d)
  PROVE  Times(Minus(a, b), d)[1] = u - w
<1>1. PICK n \in Int : n = u - w
  OBVIOUS
<1>2. PICK m : m = Minus(a, b)
  OBVIOUS
<1>3. Is(m, n, d) /\ m \in Fraction
  <2>1. Is(Minus(a, b), u - w, d)
    BY MinusIs
  <2>2. Is(m, n, d)
    BY <1>1, <1>2, <2>1
  <2> QED
    BY <2>2 DEF Is
<1>4. PICK k \in Int : k = n * d
  OBVIOUS
<1>5. Is(Times(m, d), k, d) /\ Reduced(Times(m, d))
  BY <1>3, <1>4, TimesIs, TimesReduced
<1>6. Is(Whole(n), k, d) /\ Reduced(Whole(n))
  BY <1>4, WholeIs, WholeReduced
<1>7. Times(m, d) = Whole(n)
  BY <1>5, <1>6, ReducedIs
<1> QED
  BY <1>1, <1>2, <1>7 DEF Whole

\* The cash after every bar.
PaysUp(c, n, ps, held) ==
  /\ c \in [0 .. n -> Int] /\ c[0] = 0
  /\ \A i \in 1 .. n :
       c[i] = c[i - 1] - Times(Minus(held[i], At(held, i - 1)), SizeUnit)[1] * ps[i]

PaidBy(c, n, ps, held, quantity, money) ==
  PaysUp(c, n, ps, held) /\ money = c[n] /\ Is(At(held, n), quantity, SizeUnit)

Paid == \E c : PaidBy(c, Len(signals), prices, Held, position.quantity, cash)

LEMMA InitPaid == BacktestsInit => Paid
<1> SUFFICES ASSUME BacktestsInit PROVE Paid
  OBVIOUS
<1>1. position.quantity = 0 /\ cash = 0 /\ Len(signals) = 0
  BY DEF BacktestsInit, Init, Flat
<1>2. PICK c : c = [i \in 0 .. 0 |-> 0]
  OBVIOUS
<1>3. PaysUp(c, 0, prices, Held) /\ c[0] = 0
  BY <1>2 DEF PaysUp
<1>4. Is(At(Held, 0), 0, SizeUnit)
  BY SignalAssumption DEF At, Is, Zero, Fraction
<1> QED
  BY <1>1, <1>3, <1>4 DEF Paid, PaidBy

LEMMA NextPaid == BarsInv /\ LedgerInv /\ Paid /\ [BacktestsNext]_allVars => Paid'
<1> SUFFICES ASSUME BarsInv, LedgerInv, Paid, [BacktestsNext]_allVars PROVE Paid'
  OBVIOUS
<1>1. CASE UNCHANGED allVars
  BY <1>1 DEF Paid, Held, allVars, vars
<1>2. PICK c : PaidBy(c, Len(signals), prices, Held, position.quantity, cash)
  BY DEF Paid
<1>3. PICK ss \in Seq(Signal) : ss = signals
  BY DEF BarsInv
<1>4. PICK n \in Nat : n = Len(ss)
  BY <1>3
<1>5. PICK held : held = ComputePositions(ss)
  OBVIOUS
<1>6. PICK ps \in Seq(Price) : ps = prices
  BY DEF BarsInv
<1>7. PICK q \in Int : q = position.quantity
  BY DEF LedgerInv, Shaped
<1>8. PaysUp(c, n, ps, held) /\ cash = c[n] /\ Is(At(held, n), q, SizeUnit)
  BY <1>2, <1>3, <1>4, <1>5, <1>6, <1>7 DEF PaidBy, Held
<1>9. PICK d \in Int : d = SizeUnit /\ d > 0
  BY SignalAssumption
<1>10. ASSUME NEW price \in Price, AddPrice(price) PROVE Paid'
  <2>1. n = 0
    BY <1>3, <1>4, <1>10 DEF BarsInv, AddPrice
  <2>2. PaysUp(c, 0, prices', Held')
    BY <1>8, <2>1 DEF PaysUp
  <2>3. /\ Len(signals') = n /\ Held' = held /\ cash' = cash
        /\ position' = position
    BY <1>3, <1>4, <1>5, <1>10 DEF AddPrice, vars, Held
  <2>4. PaidBy(c, Len(signals'), prices', Held', position'.quantity, cash')
    BY <1>7, <1>8, <2>1, <2>2, <2>3 DEF PaidBy
  <2> QED
    BY <2>4 DEF Paid
<1>11. ASSUME NEW price \in Price, NEW signal \in Signal, AddBar(price, signal) PROVE Paid'
  <2>1. PICK m \in Nat : m = n + 1 /\ m - 1 = n /\ m \in 1 .. m /\ m # 0
    OBVIOUS
  <2>2. PICK tt : tt = Append(ss, signal)
    OBVIOUS
  <2>3. tt \in Seq(Signal) /\ Len(tt) = m /\ \A i \in 1 .. n : tt[i] = ss[i]
    BY <1>4, <2>1, <2>2
  <2>4. PICK all : all = ComputePositions(tt)
    OBVIOUS
  <2>5. Len(all) = m /\ \A i \in 1 .. n : all[i] = held[i]
    <3>1. DOMAIN all = 1 .. m /\ DOMAIN ss = 1 .. n /\ DOMAIN tt = 1 .. m
      BY <1>4, <2>3, <2>4, ClippedFraction
    <3>2. Len(all) = m
      BY <3>1
    <3> QED
      BY <1>5, <2>1, <2>3, <2>4, <3>1, <3>2 DEF ComputePositions
  <2>6. PICK qs : qs = Append(ps, price)
    OBVIOUS
  <2>7. signals' = tt /\ prices' = qs /\ Held' = all /\ At(all, m) = all[m] /\ Last(all) = all[m]
    BY <1>3, <1>6, <1>11, <2>1, <2>2, <2>4, <2>5, <2>6 DEF AddBar, Held, At, Last
  <2>8. n = 0 \/ Len(ps) = n
    BY <1>3, <1>4, <1>6, <1>11 DEF BarsInv, AddBar
  <2>9. Len(ps) = n
    BY <1>3, <1>4, <1>6, <1>11 DEF BarsInv, AddBar
  <2>10. qs[m] = price /\ \A i \in 1 .. n : qs[i] = ps[i]
    BY <2>1, <2>6, <2>9
  <2>11. PICK u \in Int : Is(all[m], u, d)
    <3>1. m \in 0 .. Len(tt)
      BY <2>1, <2>3
    <3> QED
      BY <1>9, <2>3, <2>4, <2>7, <3>1, HeldUnits
  <2>12. PICK b : b = At(held, n)
    OBVIOUS
  <2>13. At(all, n) = b
    <3>1. n # 0 => n \in 1 .. n
      OBVIOUS
    <3> QED
      BY <2>5, <2>12, <3>1 DEF At
  <2>14. PICK change \in Int : change = u - q
    OBVIOUS
  <2>15. Times(Minus(all[m], b), d)[1] = change
    BY <1>8, <1>9, <2>11, <2>12, <2>14, ChangeIs
  <2>16. IF change = 0 THEN UNCHANGED vars ELSE ApplyFill(change, price)
    <3>1. Times(Minus(Last(ComputePositions(signals')), At(Held, Len(signals))), SizeUnit)[1]
            = change
      BY <1>3, <1>4, <1>5, <1>9, <2>4, <2>7, <2>12, <2>15 DEF Held
    <3> QED
      BY <1>11, <3>1 DEF AddBar
  <2>17. PICK p \in Int : p = price
    BY FillAssumption
  <2>18. PICK paid \in Int : paid = change * p
    OBVIOUS
  <2>19. cash' = cash - paid /\ position'.quantity = u
    <3>1. CASE change = 0
      <4>1. paid = 0 /\ u = q /\ cash \in Int
        BY <2>14, <2>18, <3>1 DEF LedgerInv
      <4> QED
        BY <1>7, <2>16, <3>1, <4>1 DEF vars
    <3>2. CASE change # 0
      <4>1. PICK pos : pos = position /\ Shaped(pos) /\ pos.quantity = q
        BY <1>7 DEF LedgerInv
      <4>2. UpdatePosition(pos, change, price).quantity = q + change
        BY <4>1, UpdateShaped
      <4>3. q + change = u
        BY <2>14
      <4> QED
        BY <2>16, <2>17, <2>18, <3>2, <4>1, <4>2, <4>3 DEF ApplyFill
    <3> QED
      BY <3>1, <3>2
  <2>20. PICK e : e = [i \in 0 .. m |-> IF i = m THEN c[n] - paid ELSE c[i]]
    OBVIOUS
  <2>21. e \in [0 .. m -> Int] /\ e[0] = 0 /\ e[m] = c[n] - paid /\ \A i \in 0 .. n : e[i] = c[i]
    <3>1. c[n] \in Int /\ c[0] = 0 /\ \A i \in 0 .. n : c[i] \in Int
      BY <1>8 DEF PaysUp
    <3>2. \A i \in 0 .. m : i = m \/ i \in 0 .. n
      BY <2>1
    <3> QED
      BY <2>1, <2>18, <2>20, <3>1, <3>2
  <2>22. ASSUME NEW i \in 1 .. m
         PROVE  e[i] = e[i - 1] - Times(Minus(all[i], At(all, i - 1)), SizeUnit)[1] * qs[i]
    <3>1. CASE i = m
      <4>1. e[i - 1] = c[n] /\ At(all, i - 1) = b /\ n \in 0 .. n
        BY <2>1, <2>13, <2>21, <3>1
      <4> QED
        BY <1>9, <2>10, <2>15, <2>17, <2>18, <2>21, <3>1, <4>1
    <3>2. CASE i # m
      <4>1. i \in 1 .. n /\ i - 1 \in 0 .. n /\ i \in 0 .. n
        BY <2>1, <3>2
      <4>2. At(all, i - 1) = At(held, i - 1)
        <5>1. i - 1 # 0 => i - 1 \in 1 .. n
          BY <4>1
        <5> QED
          BY <2>5, <5>1 DEF At
      <4>3. c[i] = c[i - 1] - Times(Minus(held[i], At(held, i - 1)), SizeUnit)[1] * ps[i]
        BY <1>8, <4>1 DEF PaysUp
      <4>4. e[i] = c[i] /\ e[i - 1] = c[i - 1] /\ all[i] = held[i] /\ qs[i] = ps[i]
        BY <2>5, <2>10, <2>21, <4>1
      <4> QED
        BY <4>2, <4>3, <4>4
    <3> QED
      BY <3>1, <3>2
  <2>23. PaysUp(e, m, qs, all)
    BY <2>21, <2>22 DEF PaysUp
  <2>24. PaidBy(e, m, qs, all, u, cash')
    BY <1>8, <1>9, <2>7, <2>11, <2>19, <2>21, <2>23 DEF PaidBy
  <2>25. PaidBy(e, Len(signals'), prices', Held', position'.quantity, cash')
    BY <2>3, <2>7, <2>19, <2>24
  <2> QED
    BY <2>25 DEF Paid
<1> QED
  BY <1>1, <1>10, <1>11 DEF BacktestsNext

LEMMA MagnitudeIs ==
  ASSUME NEW a, NEW u \in Int, NEW d \in Int, d > 0, Is(a, u, d)
  PROVE  Is(Magnitude(a), Abs(u), d)
<1>1. PICK x \in Int : x = a[1]
  BY FractionParts DEF Is
<1>2. PICK y \in Int : y = a[2] /\ y > 0
  BY FractionParts DEF Is
<1>3. x * d = u * y
  BY <1>1, <1>2 DEF Is
<1>4. x > 0 <=> u > 0
  BY <1>1, SignIs
<1>5. Abs(x) * d = Abs(u) * y
  <2>1. CASE x < 0
    <3>1. u < 0 \/ u = 0
      BY <1>4, <2>1
    <3>2. (-x) * d = -(x * d) /\ (-u) * y = -(u * y)
      BY <1>2
    <3>3. Abs(x) = -x /\ Abs(u) = -u
      BY <2>1, <3>1 DEF Abs
    <3> QED
      BY <1>3, <3>2, <3>3
  <2>2. CASE x >= 0
    <3>1. u >= 0
      <4>1. ASSUME u < 0 PROVE FALSE
        <5>1. u * y < 0
          BY <1>2, <4>1
        <5>2. x * d >= 0
          BY <2>2
        <5> QED
          BY <1>3, <5>1, <5>2
      <4> QED
        BY <4>1
    <3>2. Abs(x) = x /\ Abs(u) = u
      BY <2>2, <3>1 DEF Abs
    <3> QED
      BY <1>3, <3>2
  <2> QED
    BY <2>1, <2>2
<1>6. Magnitude(a) = <<Abs(x), y>>
  BY <1>1, <1>2 DEF Magnitude
<1>7. Abs(x) \in Int
  BY DEF Abs
<1> QED
  BY <1>2, <1>5, <1>6, <1>7 DEF Is, Fraction

LEMMA TradePays ==
  ASSUME NEW open \in Entry, NEW u \in Int, u # 0, open.side = IF u > 0 THEN 1 ELSE -1,
         NEW d \in Int, d > 0, NEW h, Is(h, u, d), NEW exit \in Nat, NEW p \in Nat,
         NEW w \in Int, w = (p - open.price) * u
  PROVE  LET t == TradeRecord(open, exit, p, Magnitude(h)) IN t \in Trip /\ Is(t.pnl, w, d)
<1>1. Is(Magnitude(h), Abs(u), d)
  BY MagnitudeIs
<1>2. TradeRecord(open, exit, p, Magnitude(h)) \in Trip
  BY <1>1, TradeRecordIs DEF Is
<1>3. PICK e \in Int : e = p - open.price
  BY DEF Entry
<1>4. PICK s \in Int : s = open.side
  BY DEF Entry
<1>5. PICK x \in Int : x = s * e
  OBVIOUS
<1>6. PICK v \in Int : v = Abs(u)
  BY DEF Abs
<1>7. PICK o \in Int : o = 1
  OBVIOUS
<1>8. Is(Whole(x), x, o)
  BY <1>7 DEF Is, Whole, Fraction
<1>9. Is(Product(Whole(x), Magnitude(h)), x * v, o * d)
  BY <1>1, <1>6, <1>8, ProductIs
<1>10. x * v = w /\ o * d = d
  <2>1. w = e * u
    BY <1>3
  <2>2. CASE u > 0
    <3>1. v = u /\ x = e
      BY <1>4, <1>5, <1>6, <2>2 DEF Abs
    <3> QED
      BY <1>7, <2>1, <3>1
  <2>3. CASE u < 0
    <3>1. v = -u /\ x = -e
      BY <1>4, <1>5, <1>6, <2>3 DEF Abs
    <3>2. (-e) * (-u) = e * u
      OBVIOUS
    <3> QED
      BY <1>7, <2>1, <3>1, <3>2
  <2> QED
    BY <2>2, <2>3
<1>11. TradeRecord(open, exit, p, Magnitude(h)).pnl = Product(Whole(x), Magnitude(h))
  BY <1>3, <1>4, <1>5 DEF TradeRecord
<1> QED
  BY <1>2, <1>9, <1>10, <1>11

Booked(trades) == Total(Pnls(trades))

LEMMA BookedIs ==
  ASSUME NEW trades \in Seq(Trip), NEW t \in Trip
  PROVE  /\ Booked(Append(trades, t)) = Plus(Booked(trades), t.pnl)
         /\ Booked(<<>>) = Zero
<1>1. PICK m \in Nat : m = Len(trades) /\ DOMAIN trades = 1 .. m
  OBVIOUS
<1>2. PICK all : all = Append(trades, t)
  OBVIOUS
<1>3. /\ all \in Seq(Trip) /\ Len(all) = m + 1 /\ DOMAIN all = 1 .. m + 1 /\ all[m + 1] = t
      /\ \A k \in 1 .. m : all[k] = trades[k]
  BY <1>1, <1>2
<1>4. PICK x \in Fraction : x = t.pnl
  BY DEF Trip
<1>5. PICK g : g = Pnls(trades)
  OBVIOUS
<1>6. PICK h : h = Pnls(all)
  OBVIOUS
<1>7. g \in Seq(Fraction) /\ DOMAIN g = 1 .. m
  <2>1. ASSUME NEW k \in 1 .. m PROVE trades[k].pnl \in Fraction
    <3>1. trades[k] \in Trip
      BY <1>1
    <3> QED
      BY <3>1 DEF Trip
  <2>2. g = [k \in 1 .. m |-> trades[k].pnl]
    BY <1>1, <1>5 DEF Pnls
  <2>3. g \in [1 .. m -> Fraction]
    BY <2>1, <2>2
  <2> QED
    BY <2>3
<1>8. h = [k \in 1 .. m + 1 |-> all[k].pnl] /\ g = [k \in 1 .. m |-> trades[k].pnl]
  BY <1>1, <1>3, <1>5, <1>6 DEF Pnls
<1>9. h = Append(g, x)
  <2>1. PICK a : a = Append(g, x)
    OBVIOUS
  <2>2. Len(g) = m
    BY <1>7
  <2>3. /\ a \in Seq(Fraction) /\ DOMAIN a = 1 .. m + 1 /\ a[m + 1] = x
        /\ \A k \in 1 .. m : a[k] = g[k]
    BY <1>7, <2>1, <2>2
  <2>4. a = [k \in 1 .. m + 1 |-> a[k]]
    BY <2>3
  <2>5. \A k \in 1 .. m + 1 : a[k] = all[k].pnl
    <3> SUFFICES ASSUME NEW k \in 1 .. m + 1 PROVE a[k] = all[k].pnl
      OBVIOUS
    <3>1. k = m + 1 \/ k \in 1 .. m
      OBVIOUS
    <3>2. k \in 1 .. m => g[k] = trades[k].pnl
      BY <1>8
    <3> QED
      BY <1>3, <1>4, <2>3, <3>1, <3>2
  <2> QED
    BY <1>8, <2>1, <2>4, <2>5
<1>10. PICK z : z = Zero /\ z \in Fraction
  <2>1. Zero \in Fraction
    BY DEF Zero, Fraction
  <2> QED
    BY <2>1
<1>11. FoldLeft(Plus, z, Append(g, x)) = Plus(FoldLeft(Plus, z, g), x) /\ FoldLeft(Plus, z, <<>>) = z
  BY <1>4, <1>7, <1>10, PlusAppend
<1>12. Pnls(<<>>) = <<>>
  BY DEF Pnls
<1> QED
  BY <1>2, <1>4, <1>5, <1>6, <1>9, <1>10, <1>11, <1>12 DEF Booked, Total

\* After bar i, with t units of profit booked and c paid for u units: flat it is
\* all cash, otherwise what was received and what the position cost.
Settled(i, seen, c, held) ==
  /\ seen \in Visited
  /\ \E u \in Int, t \in Int :
       /\ Is(At(held, i), u, SizeUnit) /\ Is(Booked(seen.trades), t, SizeUnit)
       /\ u = 0 => seen.open = NoEntry /\ t = c
       /\ u # 0 => /\ seen.open.side = (IF u > 0 THEN 1 ELSE -1) /\ seen.open.entry # 0
                   /\ t = c + u * seen.open.price

Keeps(n, held) ==
  \A i \in 2 .. n : Sign(held[i]) = Sign(held[i - 1]) => held[i] = held[i - 1]

LEMMA UnitSign ==
  ASSUME NEW a, NEW u \in Int, NEW d \in Int, d > 0, Is(a, u, d)
  PROVE  Sign(a) = IF u > 0 THEN 1 ELSE IF u < 0 THEN -1 ELSE 0
<1>1. PICK x \in Int : x = a[1]
  BY FractionParts DEF Is
<1>2. (x > 0 <=> u > 0) /\ (x >= 0 <=> u >= 0)
  BY <1>1, SignIs
<1> QED
  BY <1>1, <1>2 DEF Sign

LEMMA SettledStep ==
  ASSUME NEW n \in Nat, NEW ps, NEW held, Bars(n, ps, held), Keeps(n, held), NEW i \in 1 .. n,
         NEW w \in Int, Is(held[i], w, SizeUnit), NEW seen, NEW c \in Int,
         Settled(i - 1, seen, c, held)
  PROVE  Settled(i, Visit(ps, held, seen, i),
                 c - Times(Minus(held[i], At(held, i - 1)), SizeUnit)[1] * ps[i], held)
<1>1. PICK d \in Int : d = SizeUnit /\ d > 0
  BY SignalAssumption
<1>2. PICK u \in Int, t \in Int :
       /\ Is(At(held, i - 1), u, d) /\ Is(Booked(seen.trades), t, d)
       /\ u = 0 => seen.open = NoEntry /\ t = c
       /\ u # 0 => /\ seen.open.side = (IF u > 0 THEN 1 ELSE -1) /\ seen.open.entry # 0
                   /\ t = c + u * seen.open.price
  BY <1>1 DEF Settled
<1>3. PICK next : next = Visit(ps, held, seen, i)
  OBVIOUS
<1>4. seen \in Visited /\ next \in Visited
  BY <1>3, VisitIs DEF Settled
<1>5. PICK p \in Nat : p = ps[i]
  BY DEF Bars
<1>6. PICK change \in Int : change = w - u
  OBVIOUS
<1>7. PICK paid \in Int : paid = change * p
  OBVIOUS
<1>8. Times(Minus(held[i], At(held, i - 1)), SizeUnit)[1] = change
  BY <1>1, <1>2, <1>6, ChangeIs
<1>9. Sign(At(held, i - 1)) = (IF u > 0 THEN 1 ELSE IF u < 0 THEN -1 ELSE 0)
      /\ Sign(held[i]) = (IF w > 0 THEN 1 ELSE IF w < 0 THEN -1 ELSE 0)
  BY <1>1, <1>2, UnitSign
<1>10. At(held, i) = held[i]
  BY DEF At
<1>11. SUFFICES Settled(i, next, c - paid, held)
  BY <1>3, <1>5, <1>7, <1>8
<1>12. CASE Sign(At(held, i - 1)) = Sign(held[i])
  <2>1. next = seen
    BY <1>3, <1>12 DEF Visit
  <2>2. w = u
    <3>1. CASE u = 0
      BY <1>9, <1>12, <3>1
    <3>2. CASE u # 0
      <4>1. i # 1
        <5>1. ASSUME i = 1 PROVE FALSE
          <6>1. At(held, i - 1) = Zero /\ Sign(Zero) = 0
            BY <5>1 DEF At, Sign, Zero
          <6> QED
            BY <1>9, <3>2, <6>1
        <5> QED
          BY <5>1
      <4>2. i \in 2 .. n /\ At(held, i - 1) = held[i - 1]
        BY <4>1 DEF At
      <4>3. held[i] = held[i - 1]
        BY <1>12, <4>2 DEF Keeps
      <4>4. Is(held[i], u, d) /\ Is(held[i], w, d)
        BY <1>1, <1>2, <4>2, <4>3
      <4> QED
        BY <4>4, UnitsUnique
    <3> QED
      BY <3>1, <3>2
  <2>3. c - paid = c
    BY <1>6, <1>7, <2>2
  <2>4. Is(At(held, i), u, SizeUnit) /\ Is(Booked(next.trades), t, SizeUnit)
    BY <1>1, <1>2, <1>10, <2>1, <2>2
  <2> QED
    BY <1>2, <1>4, <2>1, <2>3, <2>4 DEF Settled
<1>13. CASE Sign(At(held, i - 1)) # Sign(held[i])
  <2>1. next.open = IF w = 0 THEN NoEntry
                    ELSE [entry |-> i, price |-> p, side |-> IF w > 0 THEN 1 ELSE -1]
    BY <1>3, <1>5, <1>9, <1>13 DEF Visit
  <2>2. PICK r : r = TradeRecord(seen.open, i, p, Magnitude(held[i - 1]))
    OBVIOUS
  <2>3. next.trades = IF u = 0 THEN seen.trades ELSE Append(seen.trades, r)
    BY <1>3, <1>5, <1>9, <1>13, <2>2 DEF Visit
  <2>4. PICK v \in Int : v = w * p
    OBVIOUS
  <2>5. PICK x \in Int : x = u * p
    OBVIOUS
  <2>6. paid = v - x
    BY <1>6, <1>7, <2>4, <2>5
  <2>7. Is(Booked(next.trades), c + x, d)
    <3>1. CASE u = 0
      <4>1. x = 0 /\ c + x = t
        BY <1>2, <2>5, <3>1
      <4> QED
        BY <1>2, <2>3, <3>1, <4>1
    <3>2. CASE u # 0
      <4>1. i # 1
        <5>1. ASSUME i = 1 PROVE FALSE
          <6>1. At(held, i - 1) = Zero /\ Sign(Zero) = 0
            BY <5>1 DEF At, Sign, Zero
          <6> QED
            BY <1>9, <3>2, <6>1
        <5> QED
          BY <5>1
      <4>2. At(held, i - 1) = held[i - 1]
        BY <4>1 DEF At
      <4>3. seen.open \in Entry /\ seen.trades \in Seq(Trip) /\ i \in Nat
        BY <1>4 DEF Visited
      <4>4. PICK b \in Int : b = seen.open.price
        BY <4>3 DEF Entry
      <4>5. PICK y \in Int : y = u * b
        OBVIOUS
      <4>6. PICK g \in Int : g = (p - seen.open.price) * u
        BY <4>3 DEF Entry
      <4>7. g = x - y
        BY <2>5, <4>4, <4>5, <4>6
      <4>8. r \in Trip /\ Is(r.pnl, g, d)
        BY <1>1, <1>2, <2>2, <3>2, <4>2, <4>3, <4>6, TradePays
      <4>9. Booked(next.trades) = Plus(Booked(seen.trades), r.pnl)
        BY <2>3, <3>2, <4>3, <4>8, BookedIs
      <4>10. Is(Plus(Booked(seen.trades), r.pnl), t + g, d)
        BY <1>1, <1>2, <4>8, PlusIs
      <4>11. t + g = c + x
        BY <1>2, <3>2, <4>4, <4>5, <4>7
      <4> QED
        BY <4>9, <4>10, <4>11
    <3> QED
      BY <3>1, <3>2
  <2>8. PICK new \in Int : new = c + x
    OBVIOUS
  <2>9. PICK rest \in Int : rest = c - paid /\ new = rest + v
    BY <2>6, <2>8
  <2>10. Is(At(held, i), w, SizeUnit) /\ Is(Booked(next.trades), new, SizeUnit)
    BY <1>1, <1>10, <2>7, <2>8
  <2>11. w = 0 => next.open = NoEntry /\ new = rest
    BY <2>1, <2>4, <2>9
  <2>12. w # 0 => /\ next.open.side = (IF w > 0 THEN 1 ELSE -1) /\ next.open.entry # 0
                  /\ new = rest + w * next.open.price
    BY <2>1, <2>4, <2>9
  <2>13. Settled(i, next, rest, held)
    BY <1>4, <2>10, <2>11, <2>12 DEF Settled
  <2> QED
    BY <2>9, <2>13
<1> QED
  BY <1>12, <1>13

LEMMA UnitsTimes ==
  ASSUME NEW a, NEW t \in Int, NEW d \in Int, d > 0, Is(a, t, d)
  PROVE  Times(a, d) = Whole(t)
<1>1. PICK k \in Int : k = t * d
  OBVIOUS
<1>2. Is(Times(a, d), k, d) /\ Reduced(Times(a, d))
  <2>1. a \in Fraction
    BY DEF Is
  <2>2. Is(Times(a, d), t * d, d)
    BY TimesIs
  <2> QED
    BY <1>1, <2>1, <2>2, TimesReduced
<1>3. Is(Whole(t), k, d) /\ Reduced(Whole(t))
  BY <1>1, WholeIs, WholeReduced
<1> QED
  BY <1>2, <1>3, ReducedIs

LEMMA TradesSettle ==
  ASSUME NEW n \in Nat, n # 0, NEW ps, NEW held, Bars(n, ps, held), Keeps(n, held),
         \A i \in 1 .. n : \E w \in Int : Is(held[i], w, SizeUnit),
         NEW c, PaysUp(c, n, ps, held), NEW q \in Int, Is(At(held, n), q, SizeUnit)
  PROVE  Times(Booked(ExtractTrades(ps, held)), SizeUnit) = Whole(c[n] + q * ps[n])
<1>1. PICK v : /\ Visits(v, n, ps, held)
               /\ ExtractTrades(ps, held) =
                    IF v[n].open = NoEntry THEN v[n].trades
                    ELSE Append(v[n].trades,
                                TradeRecord(v[n].open, n, ps[n], Magnitude(held[n])))
  BY ExtractTradesIs
<1>2. PICK d \in Int : d = SizeUnit /\ d > 0
  BY SignalAssumption
<1> DEFINE S == {i \in 0 .. n : Settled(i, v[i], c[i], held)}
<1>3. 0 \in S
  <2>1. v[0] = Start /\ Start \in Visited /\ Start.open = NoEntry /\ Start.trades = <<>>
    BY <1>1, StartIs DEF Visits, Start
  <2>2. c[0] = 0
    BY DEF PaysUp
  <2>3. Booked(<<>>) = Zero
    <3>1. Zero \in Fraction
      BY DEF Zero, Fraction
    <3>2. PICK z : z = Zero /\ z \in Fraction
      BY <3>1
    <3>3. [side |-> 0, entry |-> 0, exit |-> 0, quantity |-> z, pnl |-> z] \in Trip
      BY <3>2 DEF Trip
    <3>4. <<>> \in Seq(Trip)
      OBVIOUS
    <3> QED
      BY <3>3, <3>4, BookedIs
  <2>4. PICK z \in Int : z = 0
    OBVIOUS
  <2>5. Is(Zero, z, SizeUnit) /\ At(held, 0) = Zero
    BY <1>2, <2>4 DEF At, Is, Zero, Fraction
  <2>6. Settled(0, v[0], c[0], held)
    BY <2>1, <2>2, <2>3, <2>4, <2>5 DEF Settled
  <2> QED
    BY <2>6
<1>4. ASSUME NEW i \in 0 .. n - 1, i \in S PROVE i + 1 \in S
  <2>1. PICK k \in 1 .. n : k = i + 1 /\ k - 1 = i
    OBVIOUS
  <2>2. Settled(k - 1, v[i], c[i], held) /\ c[i] \in Int
    BY <1>4, <2>1 DEF PaysUp
  <2>3. PICK w \in Int : Is(held[k], w, SizeUnit)
    OBVIOUS
  <2>4. c[k] = c[i] - Times(Minus(held[k], At(held, k - 1)), SizeUnit)[1] * ps[k]
    BY <2>1 DEF PaysUp
  <2>5. v[k] = Visit(ps, held, v[i], k)
    BY <1>1, <2>1 DEF Visits
  <2>6. PICK money \in Int : money = c[i]
    BY <2>2
  <2>7. PICK seen : seen = v[i]
    OBVIOUS
  <2>8. Settled(k, Visit(ps, held, seen, k),
                money - Times(Minus(held[k], At(held, k - 1)), SizeUnit)[1] * ps[k], held)
    BY <2>2, <2>3, <2>6, <2>7, SettledStep
  <2> QED
    BY <2>1, <2>4, <2>5, <2>6, <2>7, <2>8
<1>5. Settled(n, v[n], c[n], held)
  <2>1. 0 .. n \subseteq S
    <3> HIDE DEF S
    <3> QED
      BY <1>3, <1>4, StepsUp
  <2> QED
    BY <2>1
<1>6. PICK money \in Int : money = c[n]
  BY DEF PaysUp
<1>7. PICK seen : seen = v[n]
  OBVIOUS
<1>8. PICK u \in Int, t \in Int :
       /\ Is(At(held, n), u, d) /\ Is(Booked(seen.trades), t, d)
       /\ u = 0 => seen.open = NoEntry /\ t = money
       /\ u # 0 => /\ seen.open.side = (IF u > 0 THEN 1 ELSE -1) /\ seen.open.entry # 0
                   /\ t = money + u * seen.open.price
  BY <1>2, <1>5, <1>6, <1>7 DEF Settled
<1>9. u = q
  <2>1. Is(At(held, n), q, d)
    BY <1>2
  <2> QED
    BY <1>8, <2>1, UnitsUnique
<1>10. PICK p \in Nat : p = ps[n]
  BY DEF Bars
<1>11. PICK x \in Int : x = u * p
  OBVIOUS
<1>12. PICK all : all = ExtractTrades(ps, held)
  OBVIOUS
<1>13. PICK total \in Int : total = money + x
  OBVIOUS
<1>14. Is(Booked(all), total, d)
  <2>1. CASE u = 0
    <3>1. total = t
      BY <1>8, <1>11, <1>13, <2>1
    <3> QED
      BY <1>1, <1>7, <1>8, <1>12, <2>1, <3>1
  <2>2. CASE u # 0
    <3>1. seen \in Visited
      BY <1>5, <1>7 DEF Settled
    <3>2. seen.open \in Entry /\ seen.trades \in Seq(Trip)
      BY <3>1 DEF Visited
    <3>3. PICK b \in Int : b = seen.open.price
      BY <3>2 DEF Entry
    <3>4. PICK y \in Int : y = u * b
      OBVIOUS
    <3>5. PICK g \in Int : g = (p - seen.open.price) * u
      BY <3>2 DEF Entry
    <3>6. g = x - y
      BY <1>11, <3>3, <3>4, <3>5
    <3>7. PICK r : r = TradeRecord(seen.open, n, p, Magnitude(held[n]))
      OBVIOUS
    <3>8. At(held, n) = held[n]
      BY DEF At
    <3>9. r \in Trip /\ Is(r.pnl, g, d)
      BY <1>2, <1>8, <2>2, <3>2, <3>5, <3>7, <3>8, TradePays
    <3>10. seen.open # NoEntry
      BY <1>8, <2>2 DEF NoEntry
    <3>11. all = Append(seen.trades, r)
      BY <1>1, <1>7, <1>10, <1>12, <3>7, <3>10
    <3>12. Booked(all) = Plus(Booked(seen.trades), r.pnl)
      BY <3>2, <3>9, <3>11, BookedIs
    <3>13. Is(Plus(Booked(seen.trades), r.pnl), t + g, d)
      BY <1>8, <3>9, PlusIs
    <3>14. t + g = total
      BY <1>8, <1>13, <2>2, <3>3, <3>4, <3>6
    <3> QED
      BY <3>12, <3>13, <3>14
  <2> QED
    BY <2>1, <2>2
<1>15. Times(Booked(all), d) = Whole(total)
  BY <1>2, <1>14, UnitsTimes
<1> QED
  BY <1>2, <1>6, <1>9, <1>10, <1>11, <1>12, <1>13, <1>15

LEMMA TradesByLedger == BarsInv /\ LedgerInv /\ Paid => TradesBookLedgerProfit
<1> SUFFICES ASSUME BarsInv, LedgerInv, Paid, signals # <<>>,
                    \A i \in 2 .. Len(signals) :
                      Sign(Held[i]) = Sign(Held[i - 1]) => Held[i] = Held[i - 1]
             PROVE  TradesBookLedgerProfit
  BY DEF TradesBookLedgerProfit
<1>1. PICK n \in Nat : n = Len(signals) /\ n # 0
  BY HeldBars
<1>2. PICK ps : ps = prices
  OBVIOUS
<1>3. PICK held : held = Held
  OBVIOUS
<1>4. Bars(n, ps, held) /\ Len(ps) = n
  BY <1>1, <1>2, <1>3, HeldBars
<1>5. Keeps(n, held)
  BY <1>1, <1>3 DEF Keeps
<1>6. ASSUME NEW i \in 1 .. n PROVE \E w \in Int : Is(held[i], w, SizeUnit)
  <2>1. PICK ss \in Seq(Signal) : ss = signals
    BY DEF BarsInv
  <2>2. i \in 0 .. Len(ss) /\ At(held, i) = held[i]
    BY <1>1, <2>1 DEF At
  <2> QED
    BY <1>3, <2>1, <2>2, HeldUnits DEF Held
<1>7. PICK c : PaidBy(c, Len(signals), prices, Held, position.quantity, cash)
  BY DEF Paid
<1>8. PICK q \in Int : q = position.quantity
  BY DEF LedgerInv, Shaped
<1>9. PICK money \in Int : money = cash
  BY DEF LedgerInv
<1>10. PaysUp(c, n, ps, held) /\ money = c[n] /\ Is(At(held, n), q, SizeUnit)
  BY <1>1, <1>2, <1>3, <1>7, <1>8, <1>9 DEF PaidBy
<1>11. PICK p \in Nat : p = ps[n]
  BY <1>1, <1>4 DEF Bars
<1>12. Times(Booked(ExtractTrades(ps, held)), SizeUnit) = Whole(money + q * p)
  BY <1>1, <1>4, <1>5, <1>6, <1>10, <1>11, TradesSettle
<1>13. PICK pos : pos = position /\ Shaped(pos) /\ Sound(pos, money) /\ pos.quantity = q
  BY <1>8, <1>9 DEF LedgerInv
<1>14. Plus(pos.realizedPnl, Realized(pos, Abs(pos.quantity), p)) = Whole(money + pos.quantity * p)
  BY <1>13, ProfitIs
<1>15. Last(prices) = p
  BY <1>1, <1>2, <1>4, <1>11 DEF Last
<1> QED
  BY <1>2, <1>3, <1>12, <1>13, <1>14, <1>15 DEF TradesBookLedgerProfit, Trades, Booked

\* extract_trades() and the ledger of the OMS, two accounts of one series of
\* positions, agree on the profit, unless a position changes its size and keeps
\* its sign.
THEOREM TradesCorrect == BacktestsSpec => []TradesBookLedgerProfit
<1> DEFINE Inv == BarsInv /\ LedgerInv /\ Paid
<1>1. BacktestsInit => Inv
  BY InitBars, InitLedger, InitPaid
<1>2. Inv /\ [BacktestsNext]_allVars => Inv'
  BY NextBars, NextLedger, NextPaid
<1>3. Inv => TradesBookLedgerProfit
  BY TradesByLedger
<1> QED
  BY <1>1, <1>2, <1>3, PTL DEF BacktestsSpec

--------------------------------------------------------------------------------
(* The windows of a walk-forward analysis *)

\* The windows follow one another up to the last bar.
Windows(n, k, ratio, first, step) ==
  /\ first > 0 /\ step > 0 /\ first + k * step <= n
  /\ FirstTrainEnd(n, ratio) = first /\ OosStep(n, k, ratio) = step

LEMMA WindowsAre ==
  ASSUME NEW n \in Nat, NEW k \in Nat, k # 0, NEW ratio \in Ratio, Trains(n, k, ratio)
  PROVE  \E first \in Nat, step \in Nat : Windows(n, k, ratio, first, step)
<1>1. PICK a \in Nat : a = ratio[1]
  BY WindowAssumption, FractionParts
<1>2. PICK b \in Nat : b = ratio[2] /\ b > 0 /\ a < b
  BY <1>1, WindowAssumption, FractionParts
<1>3. PICK x \in Nat : x = n * a
  OBVIOUS
<1>4. PICK first \in Nat : first = x \div b
  BY <1>2, DivMod
<1>5. PICK r \in Nat : r = x % b
  BY <1>2, DivMod
<1>6. x = b * first + r
  <2>1. x = b * (x \div b) + (x % b)
    <3>1. b # 0
      BY <1>2
    <3> HIDE <1>2, <1>3
    <3> QED
      BY <3>1, DivMod, Zenon
  <2> QED
    BY <1>4, <1>5, <2>1
<1>7. first <= n
  <2>1. PICK y \in Nat : y = b * first
    OBVIOUS
  <2>2. PICK z \in Nat : z = n * b
    OBVIOUS
  <2>3. x <= z
    <3>1. PICK e \in Nat : b = a + e
      BY <1>2
    <3>2. z = n * a + n * e /\ n * e >= 0
      BY <2>2, <3>1
    <3> QED
      BY <1>3, <3>2
  <2>4. y <= z
    BY <1>6, <2>1, <2>3
  <2>5. first * b <= n * b
    BY <2>1, <2>2, <2>4
  <2>6. first \in Int /\ n \in Int /\ b \in Int
    OBVIOUS
  <2> QED
    BY <1>2, <2>5, <2>6, ScaleLess
<1>8. FirstTrainEnd(n, ratio) = first
  BY <1>1, <1>2, <1>3, <1>4 DEF FirstTrainEnd
<1>9. PICK rest \in Nat : rest = n - first
  BY <1>7
<1>10. PICK step \in Nat : step = rest \div k
  BY DivMod
<1>11. PICK s \in Nat : s = rest % k
  BY DivMod
<1>12. rest = k * step + s
  <2>1. rest = k * (rest \div k) + (rest % k)
    BY DivMod
  <2> QED
    BY <1>10, <1>11, <2>1
<1>13. OosStep(n, k, ratio) = step
  BY <1>8, <1>9, <1>10 DEF OosStep
<1>14. first > 0 /\ step > 0
  BY <1>8, <1>13 DEF Trains, LongEnough
<1>15. first + k * step <= n
  <2>1. PICK y \in Nat : y = k * step
    OBVIOUS
  <2> QED
    BY <1>9, <1>12, <2>1
<1> QED
  BY <1>8, <1>13, <1>14, <1>15 DEF Windows

LEMMA WindowIs ==
  ASSUME NEW n \in Nat, NEW k \in Nat, k # 0, NEW ratio, NEW first \in Nat, NEW step \in Nat,
         Windows(n, k, ratio, first, step), NEW i \in 1 .. k
  PROVE  /\ TrainEnd(n, k, ratio, i) \in Nat /\ OosEnd(n, k, ratio, i) \in Nat
         /\ 0 < TrainEnd(n, k, ratio, i)
         /\ TrainEnd(n, k, ratio, i) < OosEnd(n, k, ratio, i)
         /\ OosEnd(n, k, ratio, i) <= n
         /\ TrainEnd(n, k, ratio, i) =
              IF i = 1 THEN FirstTrainEnd(n, ratio) ELSE OosEnd(n, k, ratio, i - 1)
<1>1. PICK j \in Nat : j = i - 1
  OBVIOUS
<1>2. PICK x \in Nat : x = j * step
  OBVIOUS
<1>3. PICK t \in Nat : t = first + x
  OBVIOUS
<1>4. TrainEnd(n, k, ratio, i) = t
  BY <1>1, <1>2, <1>3 DEF TrainEnd, Windows
<1>5. first > 0 /\ step > 0
  BY DEF Windows
<1>6. PICK y \in Nat : y = k * step
  OBVIOUS
<1>7. t + step <= n
  <2>1. PICK z \in Nat : z = k - i
    OBVIOUS
  <2>2. y = x + step + z * step
    <3>1. k = j + 1 + z
      BY <1>1, <2>1
    <3>2. (j + 1 + z) * step = j * step + step + z * step
      OBVIOUS
    <3> QED
      BY <1>2, <1>6, <3>1, <3>2
  <2>3. PICK w \in Nat : w = z * step
    OBVIOUS
  <2>4. first + y <= n
    BY <1>6 DEF Windows
  <2> QED
    BY <1>3, <2>2, <2>3, <2>4
<1>8. OosEnd(n, k, ratio, i) = IF i = k THEN n ELSE t + step
  BY <1>4 DEF OosEnd, Windows
<1>9. t = IF i = 1 THEN FirstTrainEnd(n, ratio) ELSE OosEnd(n, k, ratio, i - 1)
  <2>1. CASE i = 1
    <3>1. x = 0
      BY <1>1, <1>2, <2>1
    <3> QED
      BY <1>3, <2>1, <3>1 DEF Windows
  <2>2. CASE i # 1
    <3>1. PICK m \in Nat : m = i - 1 - 1
      BY <2>2
    <3>2. PICK v \in Nat : v = m * step
      OBVIOUS
    <3>3. x = v + step
      <4>1. j = m + 1
        BY <1>1, <3>1
      <4>2. (m + 1) * step = m * step + step
        OBVIOUS
      <4> QED
        BY <1>2, <3>2, <4>1, <4>2
    <3>4. TrainEnd(n, k, ratio, i - 1) = first + v
      BY <3>1, <3>2 DEF TrainEnd, Windows
    <3>5. OosEnd(n, k, ratio, i - 1) = first + v + step
      <4>1. i - 1 # k
        OBVIOUS
      <4> QED
        BY <3>4, <4>1 DEF OosEnd, Windows
    <3> QED
      BY <1>3, <2>2, <3>3, <3>5
  <2> QED
    BY <2>1, <2>2
<1> QED
  BY <1>3, <1>4, <1>5, <1>7, <1>8, <1>9

LEMMA LastWindow ==
  ASSUME NEW n, NEW k, NEW ratio
  PROVE  OosEnd(n, k, ratio, k) = n
BY DEF OosEnd

\* The windows of TimeSeriesSplit, for any number of bars, splits and ratio: each is
\* measured on at least one bar that follows its training window at once, and the
\* measured parts follow one another from the first training window to the last bar.
THEOREM WindowsTile ==
  ASSUME NEW n \in Nat, NEW k \in Nat, k # 0, NEW ratio \in Ratio, Trains(n, k, ratio)
  PROVE  /\ \A i \in 1 .. k :
              /\ 0 < TrainEnd(n, k, ratio, i)
              /\ TrainEnd(n, k, ratio, i) < OosEnd(n, k, ratio, i)
              /\ TrainEnd(n, k, ratio, i) =
                   IF i = 1 THEN FirstTrainEnd(n, ratio) ELSE OosEnd(n, k, ratio, i - 1)
         /\ OosEnd(n, k, ratio, k) = n
<1>1. PICK first \in Nat, step \in Nat : Windows(n, k, ratio, first, step)
  BY WindowsAre
<1>2. ASSUME NEW i \in 1 .. k
      PROVE  /\ 0 < TrainEnd(n, k, ratio, i)
             /\ TrainEnd(n, k, ratio, i) < OosEnd(n, k, ratio, i)
             /\ TrainEnd(n, k, ratio, i) =
                  IF i = 1 THEN FirstTrainEnd(n, ratio) ELSE OosEnd(n, k, ratio, i - 1)
  BY <1>1, WindowIs
<1> QED
  BY <1>2, LastWindow

\* The best of finitely many scores exists.
LEMMA LessTransitive ==
  ASSUME NEW a \in Fraction, NEW b \in Fraction, NEW c \in Fraction, Less(a, b), Less(b, c)
  PROVE  Less(a, c)
<1> SUFFICES ASSUME LessEq(c, a) PROVE FALSE
  BY DEF Less
<1>1. LessEq(a, b)
  BY LessEqOrder DEF Less
<1>2. LessEq(c, b)
  BY <1>1, LessEqTransitive
<1> QED
  BY <1>2 DEF Less

LEMMA BetterIs ==
  ASSUME NEW a \in Fraction, NEW b \in Fraction, NEW c \in Fraction, NEW metric
  PROVE  /\ ~ Better(a, a, metric)
         /\ Better(a, b, metric) /\ Better(b, c, metric) => Better(a, c, metric)
<1>1. ~ Less(a, a)
  BY LessEqOrder DEF Less
<1> QED
  BY <1>1, LessTransitive DEF Better

Leads(k, n, score, metric) ==
  \A l \in 1 .. n : /\ ~ Better(score[l], score[k], metric)
                    /\ score[l] = score[k] => k <= l

LEMMA BestExists ==
  ASSUME NEW n \in Nat, n # 0, NEW score, \A k \in 1 .. n : score[k] \in Fraction, NEW metric
  PROVE  \E k \in 1 .. n : Leads(k, n, score, metric)
<1> DEFINE Found(i) == \E k \in 1 .. i + 1 : Leads(k, i + 1, score, metric)
           S == {i \in 0 .. n - 1 : Found(i)}
<1>1. PICK m \in Nat : m = n - 1 /\ m + 1 = n
  OBVIOUS
<1>2. 0 \in S
  <2>1. 1 \in 1 .. n
    OBVIOUS
  <2>2. score[1] \in Fraction
    BY <2>1
  <2>3. ~ Better(score[1], score[1], metric)
    BY <2>2, BetterIs
  <2>4. Leads(1, 1, score, metric)
    BY <2>3 DEF Leads
  <2> QED
    BY <2>4
<1>3. ASSUME NEW i \in 0 .. m - 1, i \in S PROVE i + 1 \in S
  <2>1. PICK j \in Nat : j = i + 1 /\ j \in 1 .. n /\ j + 1 \in 1 .. n /\ j \in 0 .. n - 1
    BY <1>1
  <2>2. PICK k \in 1 .. j : Leads(k, j, score, metric)
    BY <1>3, <2>1
  <2>3. PICK e \in 1 .. n : e = j + 1
    BY <2>1
  <2>4. score[e] \in Fraction /\ score[k] \in Fraction /\ \A l \in 1 .. j : score[l] \in Fraction
    BY <2>1
  <2>5. \A l \in 1 .. e : l = e \/ l \in 1 .. j
    BY <2>3
  <2>6. CASE Better(score[e], score[k], metric)
    <3>1. ASSUME NEW l \in 1 .. e
          PROVE  ~ Better(score[l], score[e], metric) /\ (score[l] = score[e] => e <= l)
      <4>1. CASE l = e
        BY <2>4, <4>1, BetterIs
      <4>2. CASE l \in 1 .. j
        <5>1. ~ Better(score[l], score[k], metric)
          BY <2>2, <4>2 DEF Leads
        <5> QED
          BY <2>4, <2>6, <4>2, <5>1, BetterIs
      <4> QED
        BY <2>5, <4>1, <4>2
    <3>2. Leads(e, e, score, metric)
      BY <3>1 DEF Leads
    <3> QED
      BY <2>1, <2>3, <3>2
  <2>7. CASE ~ Better(score[e], score[k], metric)
    <3>1. ASSUME NEW l \in 1 .. e
          PROVE  ~ Better(score[l], score[k], metric) /\ (score[l] = score[k] => k <= l)
      <4>1. CASE l = e
        BY <2>3, <2>7, <4>1
      <4>2. CASE l \in 1 .. j
        BY <2>2, <4>2 DEF Leads
      <4> QED
        BY <2>5, <4>1, <4>2
    <3>2. Leads(k, e, score, metric) /\ k \in 1 .. e
      BY <2>3, <3>1 DEF Leads
    <3> QED
      BY <2>1, <2>3, <3>2
  <2> QED
    BY <2>6, <2>7
<1>4. 0 .. m \subseteq S
  <2> HIDE DEF S
  <2> QED
    BY <1>2, <1>3, StepsUp
<1>5. m \in S
  BY <1>4
<1> QED
  BY <1>1, <1>5

\* The scores are fractions.
LEMMA DrawdownFraction ==
  ASSUME NEW n \in Nat, n # 0, NEW equity \in [1 .. n -> Fraction],
         \A i \in 1 .. n : Reduced(equity[i])
  PROVE  MaxDrawdown(equity) \in Fraction
<1>1. PICK peak \in [1 .. n -> Fraction] :
        /\ DrawdownSeries(equity) =
             [i \in 1 .. n |-> IF peak[i] = Zero THEN Zero
                               ELSE Quotient(Minus(peak[i], equity[i]), peak[i])]
        /\ \A j \in 1 .. n : /\ \A i \in 1 .. j : LessEq(equity[i], peak[j])
                             /\ \E i \in 1 .. j : peak[j] = equity[i]
  BY PeaksAre
<1>2. PICK dd : dd = DrawdownSeries(equity)
  OBVIOUS
<1>3. DOMAIN dd = 1 .. n
  BY <1>1, <1>2
<1>4. ASSUME NEW j \in 1 .. n PROVE dd[j] \in Fraction
  <2>1. (IF peak[j] = Zero THEN Zero
         ELSE Quotient(Minus(peak[j], equity[j]), peak[j])) \in Fraction
    BY <1>1, FallsAre
  <2>2. dd[j] = IF peak[j] = Zero THEN Zero ELSE Quotient(Minus(peak[j], equity[j]), peak[j])
    BY <1>1, <1>2
  <2> QED
    BY <2>1, <2>2
<1> QED
  BY <1>2, <1>3, <1>4, MaxDrawdownIs

LEMMA ReturnFraction ==
  ASSUME NEW n \in Nat, n # 0, NEW equity \in [1 .. n -> Fraction],
         \A i \in 1 .. n : Reduced(equity[i])
  PROVE  TotalReturn(equity) \in Fraction
<1>1. Zero \in Fraction
  BY DEF Zero, Fraction
<1>2. PICK a \in Fraction : a = equity[1] /\ Reduced(a)
  OBVIOUS
<1>3. Len(equity) = n
  OBVIOUS
<1>4. PICK b \in Fraction : b = Last(equity)
  BY <1>3 DEF Last
<1>5. ASSUME a # Zero PROVE Quotient(Minus(b, a), a) \in Fraction
  <2>1. a[1] # 0
    BY <1>2, <1>5, ZeroIs
  <2>2. PICK x \in Int : x = a[1]
    BY IsItself
  <2>3. PICK y \in Int : y = a[2] /\ y > 0
    BY IsItself
  <2>4. PICK c \in Fraction : c = Minus(b, a)
    BY MinusFraction
  <2>5. PICK u \in Int : u = c[1]
    BY IsItself
  <2>6. PICK v \in Int : v = c[2] /\ v > 0
    BY IsItself
  <2>7. Is(a, x, y) /\ Is(c, u, v)
    BY <2>2, <2>3, <2>5, <2>6, IsItself
  <2>8. Reduced(Quotient(c, a))
    BY <2>1, <2>3, <2>6, <2>7, QuotientIs
  <2> QED
    BY <2>4, <2>8 DEF Reduced
<1> QED
  BY <1>1, <1>2, <1>4, <1>5 DEF TotalReturn

Priced(ps, m) == m \in 1 .. MaxPrices /\ ps \in [1 .. m -> Price]

LEMMA SignalsAre ==
  ASSUME NEW m \in Nat, NEW ps, Priced(ps, m), NEW j \in DOMAIN Params
  PROVE  m # 0 /\ Bars(m, ps, ComputePositions(SignalFunc(ps, Params[j])))
<1>1. PICK ss : ss = SignalFunc(ps, Params[j])
  OBVIOUS
<1>2. m \in 1 .. MaxPrices /\ ps \in [1 .. m -> Price] /\ MaxPrices \in Nat
  BY WindowAssumption DEF Priced
<1>3. ss \in [1 .. m -> Fraction]
  BY <1>1, <1>2, WindowAssumption
<1>4. PICK held : held = ComputePositions(ss)
  OBVIOUS
<1>5. ASSUME NEW i \in 1 .. m PROVE held[i] \in Fraction
  <2>1. held[i] = Greatest(Whole(-1), Least(One, ss[i]))
    BY <1>3, <1>4 DEF ComputePositions
  <2>2. ss[i] \in Fraction
    BY <1>3
  <2>3. One \in Fraction /\ Whole(-1) \in Fraction
    BY DEF One, Whole, Fraction
  <2> QED
    BY <2>1, <2>2, <2>3 DEF Greatest, Least
<1>6. Len(ps) = m /\ \A i \in 1 .. m : ps[i] \in Nat
  <2>1. Len(ps) = m /\ \A i \in 1 .. m : ps[i] \in Price
    BY <1>2
  <2>2. Price \subseteq Nat
    BY FillAssumption
  <2> QED
    BY <2>1, <2>2
<1> QED
  BY <1>1, <1>2, <1>4, <1>5, <1>6 DEF Bars

LEMMA ResultIs ==
  ASSUME NEW m \in Nat, NEW ps, Priced(ps, m), NEW j \in DOMAIN Params
  PROVE  LET result == RunBacktest(ps, SignalFunc(ps, Params[j]))
         IN /\ result.equity \in [1 .. m -> Fraction]
            /\ \A i \in 1 .. m : Reduced(result.equity[i])
            /\ result.totalReturn \in Fraction /\ result.maxDrawdown \in Fraction
<1>1. PICK held : held = ComputePositions(SignalFunc(ps, Params[j]))
  OBVIOUS
<1>2. m # 0 /\ Bars(m, ps, held)
  BY <1>1, SignalsAre
<1>3. PICK f : /\ Compounds(f, m, ps, held, CostRate)
               /\ EquityCurve(ps, held, CostRate) = [i \in 1 .. m |-> f[i]]
  BY <1>2, EquityCurveIs, CapitalAssumption
<1>4. PICK equity : equity = EquityCurve(ps, held, CostRate)
  OBVIOUS
<1>5. equity \in [1 .. m -> Fraction] /\ \A i \in 1 .. m : Reduced(equity[i])
  BY <1>3, <1>4 DEF Compounds
<1>6. TotalReturn(equity) \in Fraction /\ MaxDrawdown(equity) \in Fraction
  BY <1>2, <1>5, ReturnFraction, DrawdownFraction
<1>7. PICK result : result = RunBacktest(ps, SignalFunc(ps, Params[j]))
  OBVIOUS
<1>8. /\ result.equity = equity /\ result.totalReturn = TotalReturn(equity)
      /\ result.maxDrawdown = MaxDrawdown(equity)
  BY <1>1, <1>4, <1>7 DEF RunBacktest
<1> QED
  BY <1>5, <1>6, <1>7, <1>8

LEMMA GridSearchIs ==
  ASSUME NEW m \in Nat, NEW ps, Priced(ps, m),
         NEW metric \in {"total_return", "max_drawdown"}
  PROVE  \E j \in DOMAIN Params : GridSearch(ps, Params, metric) = Params[j]
<1>1. PICK score : score = [k \in DOMAIN Params |->
                              Score(RunBacktest(ps, SignalFunc(ps, Params[k])), metric)]
  OBVIOUS
<1>2. PICK n \in Nat : n # 0 /\ DOMAIN Params = 1 .. n
  BY WindowAssumption
<1>3. ASSUME NEW k \in 1 .. n PROVE score[k] \in Fraction
  <2>1. PICK result : result = RunBacktest(ps, SignalFunc(ps, Params[k]))
    OBVIOUS
  <2>2. result.totalReturn \in Fraction /\ result.maxDrawdown \in Fraction
    BY <1>2, <2>1, ResultIs
  <2>3. score[k] = Score(result, metric)
    BY <1>1, <1>2, <2>1
  <2> QED
    BY <2>2, <2>3 DEF Score
<1>4. \E k \in DOMAIN Params : \A l \in DOMAIN Params :
        ~ Better(score[l], score[k], metric) /\ (score[l] = score[k] => k <= l)
  <2>1. PICK k \in 1 .. n : Leads(k, n, score, metric)
    BY <1>2, <1>3, BestExists
  <2> QED
    BY <1>2, <2>1 DEF Leads
<1>5. PICK best : best = CHOOSE k \in DOMAIN Params : \A l \in DOMAIN Params :
        /\ ~ Better(score[l], score[k], metric)
        /\ score[l] = score[k] => k <= l
  OBVIOUS
<1>6. best \in DOMAIN Params
  BY <1>4, <1>5
<1>7. GridSearch(ps, Params, metric) = Params[best]
  BY <1>1, <1>5 DEF GridSearch
<1> QED
  BY <1>6, <1>7

\* The equity of a window has a value for each of its bars.
OosLength(n, k, ratio, i) == OosEnd(n, k, ratio, i) - TrainEnd(n, k, ratio, i)

LEMMA OosIs ==
  ASSUME NEW n \in Nat, n <= MaxPrices, NEW ps \in Seq(Price), Len(ps) = n,
         NEW k \in Nat, k # 0, NEW ratio, NEW first \in Nat, NEW step \in Nat,
         Windows(n, k, ratio, first, step), NEW i \in 1 .. k,
         NEW metric \in {"total_return", "max_drawdown"}
  PROVE  /\ OosLength(n, k, ratio, i) \in Nat \ {0}
         /\ OosEquity(ps, Params, metric, k, ratio, i)
              \in [1 .. OosLength(n, k, ratio, i) -> Fraction]
         /\ \A b \in 1 .. OosLength(n, k, ratio, i) :
              Reduced(OosEquity(ps, Params, metric, k, ratio, i)[b])
<1>1. PICK t \in Nat : t = TrainEnd(n, k, ratio, i)
  BY WindowIs
<1>2. PICK e \in Nat : e = OosEnd(n, k, ratio, i)
  BY WindowIs
<1>3. 0 < t /\ t < e /\ e <= n
  BY <1>1, <1>2, WindowIs
<1>4. MaxPrices \in Nat
  BY WindowAssumption
<1>5. PICK train : train = SubSeq(ps, 1, t)
  OBVIOUS
<1>6. PICK oos : oos = SubSeq(ps, t + 1, e)
  OBVIOUS
<1>7. PICK m \in Nat : m = e - t /\ m # 0 /\ m <= n
  BY <1>3
<1>8. train \in [1 .. t -> Price]
  <2>1. DOMAIN ps = 1 .. n /\ \A b \in 1 .. n : ps[b] \in Price
    OBVIOUS
  <2>2. train = [b \in 1 .. t |-> ps[b]]
    BY <1>3, <1>5, <2>1
  <2> QED
    BY <1>3, <2>1, <2>2
<1>9. oos \in [1 .. m -> Price]
  <2>1. DOMAIN ps = 1 .. n /\ \A b \in 1 .. n : ps[b] \in Price
    OBVIOUS
  <2>2. oos = [b \in 1 .. m |-> ps[b + t]]
    BY <1>3, <1>6, <1>7, <2>1
  <2>3. \A b \in 1 .. m : b + t \in 1 .. n
    BY <1>3, <1>7
  <2> QED
    BY <2>1, <2>2, <2>3
<1>10. Priced(train, t) /\ Priced(oos, m)
  BY <1>3, <1>4, <1>7, <1>8, <1>9 DEF Priced
<1>11. PICK j \in DOMAIN Params : GridSearch(train, Params, metric) = Params[j]
  BY <1>10, GridSearchIs
<1>12. OosEquity(ps, Params, metric, k, ratio, i)
         = RunBacktest(oos, SignalFunc(oos, Params[j])).equity
  BY <1>1, <1>2, <1>5, <1>6, <1>11 DEF OosEquity
<1>13. PICK result : result = RunBacktest(oos, SignalFunc(oos, Params[j]))
  OBVIOUS
<1>14. result.equity \in [1 .. m -> Fraction] /\ \A b \in 1 .. m : Reduced(result.equity[b])
  BY <1>10, <1>13, ResultIs
<1>15. OosLength(n, k, ratio, i) = m
  BY <1>1, <1>2, <1>7 DEF OosLength
<1> QED
  BY <1>7, <1>12, <1>13, <1>14, <1>15

--------------------------------------------------------------------------------
(* The curve of a walk-forward analysis *)

\* What a segment is multiplied by.
Scale(curve, segment) ==
  IF segment[1] = Zero THEN One
  ELSE Quotient(IF curve = <<>> THEN Capital ELSE Last(curve), segment[1])

LEMMA QuotientFraction ==
  ASSUME NEW a \in Fraction, NEW b \in Fraction, b[1] # 0
  PROVE  Quotient(a, b) \in Fraction /\ Reduced(Quotient(a, b))
<1>1. PICK x \in Int : x = a[1]
  BY IsItself
<1>2. PICK y \in Int : y = a[2] /\ y > 0
  BY IsItself
<1>3. PICK u \in Int : u = b[1]
  BY IsItself
<1>4. PICK v \in Int : v = b[2] /\ v > 0
  BY IsItself
<1>5. Is(a, x, y) /\ Is(b, u, v)
  BY <1>1, <1>2, <1>3, <1>4, IsItself
<1>6. Reduced(Quotient(a, b))
  BY <1>2, <1>4, <1>5, QuotientIs
<1> QED
  BY <1>6 DEF Reduced

LEMMA ChainIs ==
  ASSUME NEW curve \in Seq(Fraction), NEW m \in Nat, m # 0, NEW segment \in [1 .. m -> Fraction],
         Reduced(segment[1])
  PROVE  /\ Scale(curve, segment) \in Fraction
         /\ Chain(curve, segment) \in Seq(Fraction)
         /\ Len(Chain(curve, segment)) = Len(curve) + m
         /\ \A b \in 1 .. Len(curve) : Chain(curve, segment)[b] = curve[b]
         /\ \A b \in 1 .. m :
              Chain(curve, segment)[Len(curve) + b] = Product(segment[b], Scale(curve, segment))
<1>1. PICK l \in Nat : l = Len(curve)
  OBVIOUS
<1>2. PICK capital : capital = (IF curve = <<>> THEN Capital ELSE Last(curve))
  OBVIOUS
<1>3. capital \in Fraction
  <2>1. curve # <<>> => Last(curve) \in Fraction
    BY DEF Last
  <2> QED
    BY <1>2, <2>1, CapitalAssumption
<1>4. PICK a \in Fraction : a = segment[1] /\ Reduced(a)
  OBVIOUS
<1>5. One \in Fraction
  BY DEF One, Whole, Fraction
<1>6. PICK scale : scale = (IF a = Zero THEN One ELSE Quotient(capital, a))
  OBVIOUS
<1>7. scale \in Fraction
  <2>1. a # Zero => a[1] # 0
    BY <1>4, ZeroIs
  <2>2. a # Zero => Quotient(capital, a) \in Fraction
    BY <1>3, <2>1, QuotientFraction
  <2> QED
    BY <1>5, <1>6, <2>2
<1>8. Scale(curve, segment) = scale
  BY <1>2, <1>4, <1>6 DEF Scale
<1>9. PICK part : part = [b \in 1 .. m |-> Product(segment[b], scale)]
  OBVIOUS
<1>10. part \in [1 .. m -> Fraction]
  BY <1>7, <1>9, ProductFraction
<1>11. part \in Seq(Fraction) /\ Len(part) = m
  BY <1>10
<1>12. Chain(curve, segment) = curve \o part
  BY <1>2, <1>4, <1>6, <1>9 DEF Chain
<1>13. PICK all : all = curve \o part
  OBVIOUS
<1>14. /\ all \in Seq(Fraction) /\ Len(all) = l + m
       /\ \A b \in 1 .. l : all[b] = curve[b]
  <2>1. all \in Seq(Fraction)
    BY <1>11, <1>13
  <2>2. Len(all) = l + m
    <3>1. PICK x \in Seq(Fraction) : x = curve
      OBVIOUS
    <3>2. PICK y \in Seq(Fraction) : y = part
      BY <1>11
    <3>3. Len(x \o y) = Len(x) + Len(y)
      OBVIOUS
    <3> QED
      BY <1>1, <1>11, <1>13, <3>1, <3>2, <3>3
  <2>3. \A b \in 1 .. l : all[b] = curve[b]
    BY <1>1, <1>11, <1>13
  <2> QED
    BY <2>1, <2>2, <2>3
<1>15. \A b \in 1 .. m : all[l + b] = part[b]
  BY <1>1, <1>11, <1>13
<1>16. \A b \in 1 .. m : part[b] = Product(segment[b], scale)
  BY <1>9
<1> QED
  BY <1>1, <1>7, <1>8, <1>12, <1>13, <1>14, <1>15, <1>16

\* The equities of the k windows, with their lengths.
Segments(s, k, len) ==
  \A i \in 1 .. k : /\ len[i] \in Nat \ {0} /\ s[i] \in [1 .. len[i] -> Fraction]
                    /\ \A b \in 1 .. len[i] : Reduced(s[i][b])

\* The curve after each window.
Chains(w, k, s) ==
  /\ w \in [0 .. k -> Seq(Fraction)] /\ w[0] = <<>>
  /\ \A i \in 1 .. k : w[i] = Chain(w[i - 1], s[i])

LEMMA WalkForwardIs ==
  ASSUME NEW k \in Nat, NEW ps, NEW metric, NEW ratio, NEW len, NEW s,
         s = [i \in 1 .. k |-> OosEquity(ps, Params, metric, k, ratio, i)],
         Segments(s, k, len)
  PROVE  \E w : Chains(w, k, s) /\ WalkForward(ps, Params, metric, k, ratio) = w[k]
<1> DEFINE X == Seq(Fraction)
           Step(h, t) == IF t = {} THEN <<>> ELSE Chain(h[t \ {Max(t)}], s[Max(t)])
           Iter(h) == h = [t \in SUBSET (1 .. k) |-> Step(h, t)]
           G == [p \in X \X (1 .. k) |-> Chain(p[1], s[p[2]])]
<1>1. G \in [X \X (1 .. k) -> X]
  <2>1. ASSUME NEW x \in X, NEW i \in 1 .. k PROVE Chain(x, s[i]) \in X
    <3>1. PICK m \in Nat : m # 0 /\ m = len[i]
      BY DEF Segments
    <3>2. PICK segment : segment = s[i]
      OBVIOUS
    <3>3. segment \in [1 .. m -> Fraction] /\ Reduced(segment[1])
      <4>1. 1 \in 1 .. m
        BY <3>1
      <4> QED
        BY <3>1, <3>2, <4>1 DEF Segments
    <3> QED
      BY <3>1, <3>2, <3>3, ChainIs
  <2> QED
    BY <2>1
<1>2. \A x \in X, i \in 1 .. k : G[<<x, i>>] = Chain(x, s[i])
  OBVIOUS
<1>3. <<>> \in X
  OBVIOUS
<1> HIDE DEF G, X
<1>4. PICK base : base = <<>> /\ base \in X
  BY <1>3
<1>5. PICK g \in [SUBSET (1 .. k) -> X] : FoldsUp(g, k, base, G)
  BY <1>1, <1>4, FoldExists
<1>6. ASSUME NEW t \in SUBSET (1 .. k), t # {}
      PROVE  Max(t) \in 1 .. k
  BY <1>5, <1>6 DEF FoldsUp
<1>7. ASSUME NEW t \in SUBSET (1 .. k) PROVE g[t] = Step(g, t)
  <2>1. CASE t = {}
    BY <1>4, <1>5, <2>1 DEF FoldsUp
  <2>2. CASE t # {}
    <3>1. Max(t) \in t /\ g[t] = G[<<g[t \ {Max(t)}], Max(t)>>]
      BY <1>5, <2>2 DEF FoldsUp
    <3>2. g[t \ {Max(t)}] \in X /\ Max(t) \in 1 .. k
      <4>1. t \ {Max(t)} \in SUBSET (1 .. k)
        OBVIOUS
      <4> QED
        BY <1>5, <3>1, <4>1
    <3>3. G[<<g[t \ {Max(t)}], Max(t)>>] = Chain(g[t \ {Max(t)}], s[Max(t)])
      BY <1>2, <3>2
    <3> QED
      BY <2>2, <3>1, <3>3
  <2> QED
    BY <2>1, <2>2
<1> DEFINE index == [i \in 1 .. k |-> i]
           Other(h, t) ==
             IF t = {} THEN <<>>
             ELSE Chain(h[t \ {Max(t)}], OosEquity(ps, Params, metric, k, ratio, index[Max(t)]))
           OtherIter(h) == h = [t \in SUBSET (1 .. k) |-> Other(h, t)]
           other == CHOOSE h : OtherIter(h)
<1>8. FoldLeft(LAMBDA curve, i : Chain(curve, OosEquity(ps, Params, metric, k, ratio, i)),
               <<>>, index) = other[1 .. k]
  BY DEF FoldLeft, MapThenFoldSet
<1>9. \A h, t : t \in SUBSET (1 .. k) => Other(h, t) = Step(h, t)
  BY <1>6
<1> HIDE DEF Step, Other
<1>10. \A h : OtherIter(h) <=> Iter(h)
  BY <1>9
<1>11. Iter(g)
  BY <1>5, <1>7
<1>12. PICK h : h = other /\ OtherIter(h)
  BY <1>10, <1>11
<1>13. \A t \in SUBSET (1 .. k) : h[t] = Step(h, t)
  BY <1>9, <1>12
<1> HIDE DEF other, OtherIter, Iter
<1>14. FoldsTyped(h, k, X, base, G)
  <2>1. ASSUME NEW t \in SUBSET (1 .. k), t # {}, h[t \ {Max(t)}] \in X
        PROVE  h[t] = G[<<h[t \ {Max(t)}], Max(t)>>]
    <3>1. Max(t) \in 1 .. k
      BY <1>6, <2>1
    <3> QED
      BY <1>2, <1>13, <2>1, <3>1 DEF Step
  <2>2. h[{}] = base
    <3>1. {} \in SUBSET (1 .. k)
      OBVIOUS
    <3> QED
      BY <1>4, <1>13, <3>1 DEF Step
  <2> QED
    BY <2>1, <2>2 DEF FoldsTyped
<1>15. PICK w \in [0 .. k -> X] : RecursTo(w, k, base, G, h[1 .. k])
  BY <1>1, <1>4, <1>14, PrefixesRecur
<1>16. \A i \in 1 .. k : w[i] = Chain(w[i - 1], s[i])
  <2> SUFFICES ASSUME NEW i \in 1 .. k PROVE w[i] = Chain(w[i - 1], s[i])
    OBVIOUS
  <2>1. w[i - 1] \in X /\ w[i] = G[<<w[i - 1], i>>]
    BY <1>15 DEF RecursTo, Recurs
  <2> QED
    BY <1>2, <2>1
<1>17. Chains(w, k, s)
  BY <1>4, <1>15, <1>16 DEF Chains, RecursTo, Recurs, X
<1>18. WalkForward(ps, Params, metric, k, ratio) = w[k]
  BY <1>8, <1>12, <1>15 DEF WalkForward, index, RecursTo
<1> QED
  BY <1>17, <1>18

LEMMA QuotientSign ==
  ASSUME NEW a \in Fraction, a[1] > 0, NEW b \in Fraction, b[1] > 0
  PROVE  Quotient(a, b)[1] > 0 /\ Product(a, b)[1] > 0
<1>1. PICK x \in Int : x = a[1] /\ x > 0
  BY IsItself
<1>2. PICK y \in Int : y = a[2] /\ y > 0
  BY IsItself
<1>3. PICK u \in Int : u = b[1] /\ u > 0
  BY IsItself
<1>4. PICK v \in Int : v = b[2] /\ v > 0
  BY IsItself
<1>5. Is(a, x, y) /\ Is(b, u, v)
  BY <1>1, <1>2, <1>3, <1>4, IsItself
<1>6. PICK n \in Int : n = x * v /\ n > 0
  BY <1>1, <1>4
<1>7. PICK d \in Int : d = y * u /\ d > 0
  BY <1>2, <1>3
<1>8. PICK m \in Int : m = x * u /\ m > 0
  BY <1>1, <1>3
<1>9. PICK e \in Int : e = y * v /\ e > 0
  BY <1>2, <1>4
<1>10. Is(Quotient(a, b), n, d)
  BY <1>2, <1>3, <1>4, <1>5, <1>6, <1>7, QuotientIs
<1>11. Is(Product(a, b), m, e)
  BY <1>5, <1>8, <1>9, ProductIs
<1> QED
  BY <1>6, <1>7, <1>8, <1>9, <1>10, <1>11, SignIs

\* Scaled to start where the curve ended, a segment ends where its growth leads.
LEMMA ScaledGrowth ==
  ASSUME NEW c \in Fraction, NEW a \in Fraction, a[1] > 0, NEW b \in Fraction
  PROVE  Product(b, Quotient(c, a)) = Product(c, Quotient(b, a))
<1>1. PICK x \in Int : x = a[1] /\ x > 0
  BY IsItself
<1>2. PICK y \in Int : y = a[2] /\ y > 0
  BY IsItself
<1>3. PICK u \in Int : u = b[1]
  BY IsItself
<1>4. PICK v \in Int : v = b[2] /\ v > 0
  BY IsItself
<1>5. PICK p \in Int : p = c[1]
  BY IsItself
<1>6. PICK q \in Int : q = c[2] /\ q > 0
  BY IsItself
<1>7. Is(a, x, y) /\ Is(b, u, v) /\ Is(c, p, q)
  BY <1>1, <1>2, <1>3, <1>4, <1>5, <1>6, IsItself
<1>8. PICK g : g = Quotient(c, a)
  OBVIOUS
<1>9. PICK h : h = Quotient(b, a)
  OBVIOUS
<1>10. PICK i \in Int : i = p * y
  OBVIOUS
<1>11. PICK j \in Int : j = q * x /\ j > 0
  BY <1>1, <1>6
<1>12. Is(g, i, j)
  BY <1>1, <1>2, <1>6, <1>7, <1>8, <1>10, <1>11, QuotientIs
<1>13. PICK k \in Int : k = u * y
  OBVIOUS
<1>14. PICK l \in Int : l = v * x /\ l > 0
  BY <1>1, <1>4
<1>15. Is(h, k, l)
  BY <1>1, <1>2, <1>4, <1>7, <1>9, <1>13, <1>14, QuotientIs
<1>16. PICK n \in Int : n = u * i /\ n = p * k
  <2>1. u * (p * y) = p * (u * y)
    OBVIOUS
  <2> QED
    BY <1>10, <1>13, <2>1
<1>17. PICK d \in Int : d = v * j /\ d = q * l /\ d > 0
  <2>1. v * (q * x) = q * (v * x)
    OBVIOUS
  <2>2. v * j > 0
    BY <1>4, <1>11
  <2> QED
    BY <1>11, <1>14, <2>1, <2>2
<1>18. Is(Product(b, g), n, d) /\ Reduced(Product(b, g))
  BY <1>7, <1>12, <1>16, <1>17, ProductIs
<1>19. Is(Product(c, h), n, d) /\ Reduced(Product(c, h))
  <2>1. Is(Product(c, h), p * k, q * l) /\ Reduced(Product(c, h))
    BY <1>7, <1>15, ProductIs
  <2> QED
    BY <1>16, <1>17, <2>1
<1>20. Product(b, g) = Product(c, h)
  BY <1>17, <1>18, <1>19, ReducedIs
<1> QED
  BY <1>8, <1>9, <1>20

\* A scale does not change a fall.
LEMMA FallScaled ==
  ASSUME NEW a \in Fraction, a[1] > 0, NEW b \in Fraction, NEW c \in Fraction, c[1] > 0
  PROVE  Quotient(Minus(Product(a, c), Product(b, c)), Product(a, c)) = Quotient(Minus(a, b), a)
<1>1. PICK n, m, d \in Int : d > 0 /\ Is(a, n, d) /\ Is(b, m, d)
  BY CommonTerms
<1>2. n > 0
  BY <1>1, SignIs
<1>3. PICK u \in Int : u = c[1] /\ u > 0
  BY IsItself
<1>4. PICK v \in Int : v = c[2] /\ v > 0
  BY IsItself
<1>5. Is(c, u, v)
  BY <1>3, <1>4, IsItself
<1>6. PICK x \in Int : x = n * u /\ x > 0
  BY <1>2, <1>3
<1>7. PICK y \in Int : y = m * u
  OBVIOUS
<1>8. PICK e \in Int : e = d * v /\ e > 0
  BY <1>1, <1>4
<1>9. PICK p : p = Product(a, c) /\ Is(p, x, e)
  BY <1>1, <1>5, <1>6, <1>8, ProductIs
<1>10. PICK q : q = Product(b, c) /\ Is(q, y, e)
  BY <1>1, <1>5, <1>7, <1>8, ProductIs
<1>11. PICK f : f = Quotient(Minus(p, q), p)
  OBVIOUS
<1>12. PICK g : g = Quotient(Minus(a, b), a)
  OBVIOUS
<1>13. PICK k \in Int : k = n - m
  OBVIOUS
<1>14. PICK l \in Int : l = x - y /\ l = k * u
  <2>1. (n - m) * u = n * u - m * u
    OBVIOUS
  <2> QED
    BY <1>6, <1>7, <1>13, <2>1
<1>15. Is(f, l, x) /\ Reduced(f)
  <2>1. Is(Quotient(Minus(p, q), p), x - y, x) /\ Reduced(Quotient(Minus(p, q), p))
    BY <1>6, <1>8, <1>9, <1>10, FallIs
  <2> QED
    BY <1>11, <1>14, <2>1
<1>16. Is(g, k, n) /\ Reduced(g)
  <2>1. Is(Quotient(Minus(a, b), a), n - m, n) /\ Reduced(Quotient(Minus(a, b), a))
    BY <1>1, <1>2, FallIs
  <2> QED
    BY <1>12, <1>13, <2>1
<1>17. Is(g, l, x)
  BY <1>6, <1>14, <1>16, Expand
<1>18. f = g
  BY <1>6, <1>15, <1>16, <1>17, ReducedIs
<1> QED
  BY <1>9, <1>10, <1>11, <1>12, <1>18

Gains(s, len, k) == [i \in 1 .. k |-> Quotient(s[i][len[i]], s[i][1])]

Positive(s, len, k) == \A i \in 1 .. k : \A b \in 1 .. len[i] : s[i][b][1] > 0

\* Window p is a part of the curve, scaled.
Covers(curve, segment, m) ==
  \E o \in Nat, c \in Fraction :
    /\ c[1] > 0 /\ o + m <= Len(curve)
    /\ \A b \in 1 .. m : curve[o + b] = Product(segment[b], c)

\* The curve after i windows, of which the last value is g.
Chained(i, curve, g, s, len) ==
  /\ curve \in Seq(Fraction) /\ \A b \in 1 .. Len(curve) : Reduced(curve[b]) /\ curve[b][1] > 0
  /\ i = 0 => curve = <<>> /\ g = Capital
  /\ i # 0 => curve # <<>> /\ g = Last(curve)
  /\ \A p \in 1 .. i : Covers(curve, s[p], len[p])

LEMMA ChainedStep ==
  ASSUME NEW k \in Nat, NEW s, NEW len, Segments(s, k, len), Positive(s, len, k),
         Capital[1] > 0, NEW i \in 1 .. k, NEW curve, NEW g, Chained(i - 1, curve, g, s, len)
  PROVE  Chained(i, Chain(curve, s[i]), Product(g, Quotient(s[i][len[i]], s[i][1])), s, len)
<1>1. PICK m \in Nat : m # 0 /\ m = len[i]
  BY DEF Segments
<1>2. PICK segment : segment = s[i]
  OBVIOUS
<1>3. 1 \in 1 .. m /\ m \in 1 .. m
  BY <1>1
<1>4. /\ segment \in [1 .. m -> Fraction] /\ Reduced(segment[1])
      /\ \A b \in 1 .. m : segment[b][1] > 0
  BY <1>1, <1>2, <1>3 DEF Segments, Positive
<1>5. curve \in Seq(Fraction)
  BY DEF Chained
<1>6. PICK l \in Nat : l = Len(curve)
  BY <1>5
<1>7. PICK new : new = Chain(curve, segment)
  OBVIOUS
<1>8. PICK scale : scale = Scale(curve, segment)
  OBVIOUS
<1>9. /\ scale \in Fraction /\ new \in Seq(Fraction) /\ Len(new) = l + m
      /\ \A b \in 1 .. l : new[b] = curve[b]
      /\ \A b \in 1 .. m : new[l + b] = Product(segment[b], scale)
  BY <1>1, <1>4, <1>5, <1>6, <1>7, <1>8, ChainIs
<1>10. PICK a \in Fraction : a = segment[1] /\ a[1] > 0
  BY <1>3, <1>4
<1>11. g \in Fraction /\ g[1] > 0 /\ g = (IF curve = <<>> THEN Capital ELSE Last(curve))
  <2>1. CASE i - 1 = 0
    BY <2>1, CapitalAssumption DEF Chained
  <2>2. CASE i - 1 # 0
    <3>1. curve # <<>> /\ g = Last(curve)
      BY <2>2 DEF Chained
    <3>2. l \in 1 .. l /\ Last(curve) = curve[l]
      BY <1>5, <1>6, <3>1 DEF Last
    <3>3. Reduced(curve[l]) /\ curve[l][1] > 0
      BY <1>6, <3>2 DEF Chained
    <3> QED
      BY <3>1, <3>2, <3>3 DEF Reduced
  <2> QED
    BY <2>1, <2>2
<1>12. scale = Quotient(g, a) /\ scale[1] > 0
  <2>1. a # Zero
    BY <1>10 DEF Zero
  <2>2. scale = Quotient(g, a)
    BY <1>8, <1>10, <1>11, <2>1 DEF Scale
  <2> QED
    BY <1>10, <1>11, <2>2, QuotientSign
<1>13. \A b \in 1 .. l + m : b \in 1 .. l \/ \E x \in 1 .. m : b = l + x
  <2> SUFFICES ASSUME NEW b \in 1 .. l + m, ~ b \in 1 .. l PROVE \E x \in 1 .. m : b = l + x
    OBVIOUS
  <2>1. b - l \in 1 .. m /\ b = l + (b - l)
    OBVIOUS
  <2> QED
    BY <2>1
<1>14. ASSUME NEW b \in 1 .. Len(new) PROVE Reduced(new[b]) /\ new[b][1] > 0
  <2>1. CASE b \in 1 .. l
    BY <1>6, <1>9, <2>1 DEF Chained
  <2>2. ASSUME NEW x \in 1 .. m, b = l + x PROVE Reduced(new[b]) /\ new[b][1] > 0
    <3>1. PICK e \in Fraction : e = segment[x] /\ e[1] > 0
      BY <1>4
    <3>2. new[b] = Product(e, scale)
      BY <1>9, <2>2, <3>1
    <3> QED
      BY <1>9, <1>12, <3>1, <3>2, QuotientSign, ProductFraction
  <2> QED
    BY <1>9, <1>13, <2>1, <2>2
<1>15. PICK last \in Fraction : last = segment[m]
  BY <1>3, <1>4
<1>16. new # <<>> /\ Last(new) = Product(g, Quotient(last, a))
  <2>1. Last(new) = new[l + m]
    BY <1>9 DEF Last
  <2>2. new[l + m] = Product(last, scale)
    BY <1>3, <1>9, <1>15
  <2>3. Product(last, Quotient(g, a)) = Product(g, Quotient(last, a))
    BY <1>10, <1>11, <1>15, ScaledGrowth
  <2>4. new # <<>>
    BY <1>1, <1>9
  <2> QED
    BY <1>12, <2>1, <2>2, <2>3, <2>4
<1>17. ASSUME NEW p \in 1 .. i PROVE Covers(new, s[p], len[p])
  <2>1. CASE p = i
    <3>1. l + m <= Len(new) /\ \A b \in 1 .. m : new[l + b] = Product(segment[b], scale)
      BY <1>9
    <3> QED
      BY <1>1, <1>2, <1>6, <1>9, <1>12, <2>1, <3>1 DEF Covers
  <2>2. CASE p # i
    <3>1. p \in 1 .. i - 1 /\ p \in 1 .. k
      BY <2>2
    <3>2. PICK o \in Nat, c \in Fraction :
            /\ c[1] > 0 /\ o + len[p] <= l
            /\ \A b \in 1 .. len[p] : curve[o + b] = Product(s[p][b], c)
      BY <1>6, <3>1 DEF Chained, Covers
    <3>3. PICK e \in Nat : e = len[p]
      BY <3>1 DEF Segments
    <3>4. ASSUME NEW b \in 1 .. e PROVE new[o + b] = Product(s[p][b], c)
      <4>1. o + b \in 1 .. l
        BY <3>2, <3>3
      <4> QED
        BY <1>9, <3>2, <3>3, <4>1
    <3>5. o + e <= Len(new)
      BY <1>9, <3>2, <3>3
    <3> QED
      BY <3>2, <3>3, <3>4, <3>5 DEF Covers
  <2> QED
    BY <2>1, <2>2
<1>18. i # 0
  OBVIOUS
<1>19. Chained(i, new, Product(g, Quotient(last, a)), s, len)
  BY <1>9, <1>14, <1>16, <1>17, <1>18 DEF Chained
<1> QED
  BY <1>1, <1>2, <1>7, <1>10, <1>15, <1>19

LEMMA CurveIs ==
  ASSUME NEW k \in Nat, k # 0, NEW s, NEW len, Segments(s, k, len), Positive(s, len, k),
         Capital[1] > 0, NEW w, Chains(w, k, s)
  PROVE  /\ Last(w[k]) = FoldLeft(Product, Capital, Gains(s, len, k))
         /\ \A i \in 1 .. k : LessEq(MaxDrawdown(s[i]), MaxDrawdown(w[k]))
<1>1. ASSUME NEW i \in 1 .. k
      PROVE  /\ len[i] \in Nat \ {0} /\ s[i] \in [1 .. len[i] -> Fraction]
             /\ s[i][len[i]] \in Fraction /\ s[i][1] \in Fraction /\ s[i][1][1] > 0
  <2>1. len[i] \in Nat \ {0} /\ s[i] \in [1 .. len[i] -> Fraction]
    BY DEF Segments
  <2>2. len[i] \in 1 .. len[i] /\ 1 \in 1 .. len[i]
    BY <2>1
  <2> QED
    BY <2>1, <2>2 DEF Positive
<1>2. PICK h : h = Gains(s, len, k)
  OBVIOUS
<1>3. DOMAIN h = 1 .. k /\ \A i \in 1 .. k : h[i] = Quotient(s[i][len[i]], s[i][1])
  BY <1>2 DEF Gains
<1>4. ASSUME NEW i \in 1 .. k PROVE h[i] \in Fraction
  <2>1. Quotient(s[i][len[i]], s[i][1]) \in Fraction
    BY <1>1, QuotientFraction
  <2> QED
    BY <1>3, <2>1
<1>5. PICK g : ProductUp(g, k, Capital, h) /\ FoldLeft(Product, Capital, h) = g[k]
  BY <1>3, <1>4, ProductFolds, CapitalAssumption
<1> DEFINE S == {i \in 0 .. k : Chained(i, w[i], g[i], s, len)}
<1>6. 0 \in S
  <2>1. w[0] = <<>> /\ g[0] = Capital
    BY <1>5 DEF Chains, ProductUp
  <2>2. w[0] \in Seq(Fraction) /\ Len(w[0]) = 0
    BY <2>1
  <2>3. Chained(0, w[0], g[0], s, len)
    BY <2>1, <2>2 DEF Chained
  <2> QED
    BY <2>3
<1>7. ASSUME NEW i \in 0 .. k - 1, i \in S PROVE i + 1 \in S
  <2>1. PICK j \in 1 .. k : j = i + 1 /\ j - 1 = i
    OBVIOUS
  <2>2. Chained(j - 1, w[i], g[i], s, len)
    BY <1>7, <2>1
  <2>3. w[j] = Chain(w[i], s[j])
    BY <2>1 DEF Chains
  <2>4. g[j] = Product(g[i], Quotient(s[j][len[j]], s[j][1]))
    BY <1>3, <1>5, <2>1 DEF ProductUp
  <2>5. Chained(j, w[j], g[j], s, len)
    BY <2>2, <2>3, <2>4, ChainedStep
  <2> QED
    BY <2>1, <2>5
<1>8. Chained(k, w[k], g[k], s, len)
  <2>1. 0 .. k \subseteq S
    <3> HIDE DEF S
    <3> QED
      BY <1>6, <1>7, StepsUp
  <2> QED
    BY <2>1
<1>9. Last(w[k]) = FoldLeft(Product, Capital, h)
  BY <1>5, <1>8 DEF Chained
<1>10. PICK curve \in Seq(Fraction) : curve = w[k]
  BY <1>8 DEF Chained
<1>11. PICK n \in Nat : n = Len(curve) /\ n # 0
  <2>1. curve # <<>>
    BY <1>8, <1>10 DEF Chained
  <2> QED
    BY <2>1
<1>12. curve \in [1 .. n -> Fraction] /\ \A b \in 1 .. n : Reduced(curve[b]) /\ curve[b][1] > 0
  BY <1>8, <1>10, <1>11 DEF Chained
<1>13. \A j \in 1 .. n : \A i \in 1 .. j :
         LessEq(Quotient(Minus(curve[i], curve[j]), curve[i]), MaxDrawdown(curve))
  BY <1>11, <1>12, WorstFallIs
<1>14. ASSUME NEW i \in 1 .. k PROVE LessEq(MaxDrawdown(s[i]), MaxDrawdown(curve))
  <2>1. PICK m \in Nat : m = len[i] /\ m # 0
    BY <1>1
  <2>2. PICK segment : segment = s[i]
    OBVIOUS
  <2>3. /\ segment \in [1 .. m -> Fraction]
        /\ \A b \in 1 .. m : Reduced(segment[b]) /\ segment[b][1] > 0
    BY <2>1, <2>2 DEF Segments, Positive
  <2>4. PICK j \in 1 .. m : \E b \in 1 .. j :
          Quotient(Minus(segment[b], segment[j]), segment[b]) = MaxDrawdown(segment)
    BY <2>1, <2>3, WorstFallIs
  <2>5. PICK b \in 1 .. j :
          Quotient(Minus(segment[b], segment[j]), segment[b]) = MaxDrawdown(segment)
    BY <2>4
  <2>6. b \in 1 .. m
    OBVIOUS
  <2>7. PICK o \in Nat, c \in Fraction :
          /\ c[1] > 0 /\ o + m <= Len(curve)
          /\ \A x \in 1 .. m : curve[o + x] = Product(segment[x], c)
    BY <1>8, <1>10, <2>1, <2>2 DEF Chained, Covers
  <2>8. PICK u \in Fraction : u = segment[b] /\ u[1] > 0
    BY <2>3, <2>6
  <2>9. PICK v \in Fraction : v = segment[j]
    BY <2>3
  <2>10. Quotient(Minus(Product(u, c), Product(v, c)), Product(u, c)) = MaxDrawdown(segment)
    BY <2>5, <2>7, <2>8, <2>9, FallScaled
  <2>11. PICK y \in 1 .. n : y = o + j
    BY <1>11, <2>7
  <2>12. PICK x \in 1 .. y : x = o + b
    BY <2>7, <2>11
  <2>13. curve[x] = Product(u, c) /\ curve[y] = Product(v, c)
    BY <2>6, <2>7, <2>8, <2>9, <2>11, <2>12
  <2>14. LessEq(Quotient(Minus(curve[x], curve[y]), curve[x]), MaxDrawdown(curve))
    BY <1>13
  <2> QED
    BY <2>2, <2>10, <2>13, <2>14
<1> QED
  BY <1>2, <1>9, <1>10, <1>14

LEMMA CurveLength ==
  ASSUME NEW n \in Nat, NEW k \in Nat, k # 0, NEW ratio, NEW first \in Nat, NEW step \in Nat,
         Windows(n, k, ratio, first, step), NEW s, NEW len, Segments(s, k, len),
         \A i \in 1 .. k : len[i] = OosLength(n, k, ratio, i), NEW w, Chains(w, k, s)
  PROVE  Len(w[k]) = n - FirstTrainEnd(n, ratio)
<1>1. FirstTrainEnd(n, ratio) = first
  BY DEF Windows
<1> DEFINE Ends(i) == IF i = 0 THEN first ELSE OosEnd(n, k, ratio, i)
           S == {i \in 0 .. k : Len(w[i]) = Ends(i) - first}
<1>2. 0 \in S
  <2>1. Len(w[0]) = 0
    BY DEF Chains
  <2> QED
    BY <2>1
<1>3. ASSUME NEW i \in 0 .. k - 1, i \in S PROVE i + 1 \in S
  <2>1. PICK j \in 1 .. k : j = i + 1 /\ j - 1 = i /\ j # 0
    OBVIOUS
  <2>2. PICK t \in Nat : t = TrainEnd(n, k, ratio, j)
    BY WindowIs
  <2>3. PICK e \in Nat : e = OosEnd(n, k, ratio, j)
    BY WindowIs
  <2>4. t = Ends(i)
    <3>1. TrainEnd(n, k, ratio, j)
            = IF j = 1 THEN FirstTrainEnd(n, ratio) ELSE OosEnd(n, k, ratio, j - 1)
      BY WindowIs
    <3>2. j = 1 <=> i = 0
      BY <2>1
    <3> QED
      BY <1>1, <2>1, <2>2, <3>1, <3>2
  <2>5. PICK m \in Nat : m = len[j] /\ m # 0 /\ m = e - t
    BY <2>2, <2>3 DEF Segments, OosLength
  <2>6. PICK curve \in Seq(Fraction) : curve = w[i]
    BY DEF Chains
  <2>7. PICK segment : segment = s[j]
    OBVIOUS
  <2>8. segment \in [1 .. m -> Fraction] /\ Reduced(segment[1])
    <3>1. 1 \in 1 .. m
      BY <2>5
    <3> QED
      BY <2>5, <2>7, <3>1 DEF Segments
  <2>9. Len(Chain(curve, segment)) = Len(curve) + m
    BY <2>5, <2>8, ChainIs
  <2>10. w[j] = Chain(curve, segment)
    BY <2>1, <2>6, <2>7 DEF Chains
  <2>11. Len(curve) = t - first
    BY <1>3, <2>4, <2>6
  <2>12. Len(w[j]) = e - first
    BY <2>5, <2>9, <2>10, <2>11
  <2> QED
    BY <2>1, <2>3, <2>12
<1>4. k \in S
  <2>1. 0 .. k \subseteq S
    <3> HIDE DEF S
    <3> QED
      BY <1>2, <1>3, StepsUp
  <2> QED
    BY <2>1
<1> QED
  BY <1>1, <1>4, LastWindow

\* The prices of a walk-forward analysis stay below their bound.
WindowInv == prices \in Seq(Price) /\ (job = "walk-forward" => Len(prices) <= MaxPrices)

LEMMA InitWindow == BacktestsInit => WindowInv
<1>1. MaxPrices \in Nat
  BY WindowAssumption
<1> QED
  BY <1>1 DEF BacktestsInit, WindowInv

LEMMA NextWindow == WindowInv /\ [BacktestsNext]_allVars => WindowInv'
<1> SUFFICES ASSUME WindowInv, [BacktestsNext]_allVars PROVE WindowInv'
  OBVIOUS
<1>1. CASE UNCHANGED allVars
  BY <1>1 DEF WindowInv, allVars
<1>2. ASSUME NEW price \in Price, AddPrice(price) PROVE WindowInv'
  <2>1. MaxPrices \in Nat
    BY WindowAssumption
  <2> QED
    BY <1>2, <2>1 DEF WindowInv, AddPrice
<1>3. ASSUME NEW price \in Price, NEW signal \in Signal, AddBar(price, signal) PROVE WindowInv'
  BY <1>3 DEF WindowInv, AddBar
<1> QED
  BY <1>1, <1>2, <1>3 DEF BacktestsNext

LEMMA WalkForwardByWindow == WindowInv => WalkForwardCompounds
<1> SUFFICES ASSUME WindowInv, NEW k \in 1 .. Len(prices), NEW ratio \in Ratio,
                    NEW metric \in {"total_return", "max_drawdown"},
                    job = "walk-forward", Trains(Len(prices), k, ratio)
             PROVE  LET curve == WalkForward(prices, Params, metric, k, ratio)
                        segment == [i \in 1 .. k |-> OosEquity(prices, Params, metric, k, ratio, i)]
                        Growth(s) == Quotient(Last(s), s[1])
                    IN /\ Len(curve) = Len(prices) - FirstTrainEnd(Len(prices), ratio)
                       /\ (/\ Less(Zero, Capital)
                           /\ \A i \in 1 .. k : \A j \in DOMAIN segment[i] :
                                Less(Zero, segment[i][j])) =>
                            /\ Last(curve) = FoldLeft(Product, Capital,
                                                      [i \in 1 .. k |-> Growth(segment[i])])
                            /\ \A i \in 1 .. k : LessEq(MaxDrawdown(segment[i]), MaxDrawdown(curve))
  BY DEF WalkForwardCompounds
<1>1. PICK ps \in Seq(Price) : ps = prices
  BY DEF WindowInv
<1>2. PICK n \in Nat : n = Len(ps) /\ n <= MaxPrices
  BY <1>1 DEF WindowInv
<1>3. k \in Nat /\ k # 0
  BY <1>1, <1>2
<1>4. PICK first \in Nat, step \in Nat : Windows(n, k, ratio, first, step)
  BY <1>1, <1>2, <1>3, WindowsAre
<1>5. PICK s : s = [i \in 1 .. k |-> OosEquity(ps, Params, metric, k, ratio, i)]
  OBVIOUS
<1>6. PICK len : len = [i \in 1 .. k |-> OosLength(n, k, ratio, i)]
  OBVIOUS
<1>7. Segments(s, k, len)
  <2> SUFFICES ASSUME NEW i \in 1 .. k
               PROVE  /\ len[i] \in Nat \ {0} /\ s[i] \in [1 .. len[i] -> Fraction]
                      /\ \A b \in 1 .. len[i] : Reduced(s[i][b])
    BY DEF Segments
  <2>1. /\ OosLength(n, k, ratio, i) \in Nat \ {0}
        /\ OosEquity(ps, Params, metric, k, ratio, i)
             \in [1 .. OosLength(n, k, ratio, i) -> Fraction]
        /\ \A b \in 1 .. OosLength(n, k, ratio, i) :
             Reduced(OosEquity(ps, Params, metric, k, ratio, i)[b])
    BY <1>1, <1>2, <1>3, <1>4, OosIs
  <2>2. len[i] = OosLength(n, k, ratio, i) /\ s[i] = OosEquity(ps, Params, metric, k, ratio, i)
    BY <1>5, <1>6
  <2> QED
    BY <2>1, <2>2
<1>8. PICK w : Chains(w, k, s) /\ WalkForward(ps, Params, metric, k, ratio) = w[k]
  BY <1>3, <1>5, <1>7, WalkForwardIs
<1>9. Len(w[k]) = n - FirstTrainEnd(n, ratio)
  <2>1. \A i \in 1 .. k : len[i] = OosLength(n, k, ratio, i)
    BY <1>6
  <2> QED
    BY <1>2, <1>3, <1>4, <1>7, <1>8, <2>1, CurveLength
<1>10. ASSUME Less(Zero, Capital), \A i \in 1 .. k : \A j \in DOMAIN s[i] : Less(Zero, s[i][j])
       PROVE  /\ Last(w[k]) = FoldLeft(Product, Capital,
                                       [i \in 1 .. k |-> Quotient(Last(s[i]), s[i][1])])
              /\ \A i \in 1 .. k : LessEq(MaxDrawdown(s[i]), MaxDrawdown(w[k]))
  <2>1. Capital[1] > 0
    BY <1>10, CapitalAssumption, LessZero
  <2>2. Positive(s, len, k)
    <3> SUFFICES ASSUME NEW i \in 1 .. k, NEW b \in 1 .. len[i] PROVE s[i][b][1] > 0
      BY DEF Positive
    <3>1. s[i] \in [1 .. len[i] -> Fraction]
      BY <1>7 DEF Segments
    <3>2. s[i][b] \in Fraction /\ Less(Zero, s[i][b])
      BY <1>10, <3>1
    <3> QED
      BY <3>2, LessZero
  <2>3. /\ Last(w[k]) = FoldLeft(Product, Capital, Gains(s, len, k))
        /\ \A i \in 1 .. k : LessEq(MaxDrawdown(s[i]), MaxDrawdown(w[k]))
    BY <1>3, <1>7, <1>8, <2>1, <2>2, CurveIs
  <2>4. ASSUME NEW i \in 1 .. k PROVE Last(s[i]) = s[i][len[i]]
    <3>1. PICK m \in Nat : m = len[i] /\ m # 0 /\ s[i] \in [1 .. m -> Fraction]
      BY <1>7 DEF Segments
    <3>2. Len(s[i]) = m
      BY <3>1
    <3> QED
      BY <3>1, <3>2 DEF Last
  <2>5. Gains(s, len, k) = [i \in 1 .. k |-> Quotient(Last(s[i]), s[i][1])]
    BY <2>4 DEF Gains
  <2> QED
    BY <2>3, <2>5
<1> QED
  BY <1>1, <1>2, <1>5, <1>8, <1>9, <1>10

\* walk_forward() chains the out-of-sample curves of its windows: the result has a
\* value for every bar after the first training window, compounds the gains of the
\* windows and hides no drawdown of any of them.
THEOREM WalkForwardCorrect == BacktestsSpec => []WalkForwardCompounds
<1> QED
  BY InitWindow, NextWindow, WalkForwardByWindow, PTL DEF BacktestsSpec
================================================================================
