---------------------------- MODULE PositionsProofs ----------------------------
(***************************************************************************)
(* Proofs about the arithmetic of positions: Euclid's algorithm, fractions *)
(* in lowest terms, their order, and what a fill does to the books.        *)
(***************************************************************************)
EXTENDS Positions, SequencesExt, TLAPS, FiniteSetTheorems, WellFoundedInduction

\* A position is a record of these three fields, whatever its price and profit.
Shaped(p) ==
  /\ p.quantity \in Int
  /\ \E q, a, r : p = [quantity |-> q, avgEntryPrice |-> a, realizedPnl |-> r]

LEMMA UpdateShaped ==
  ASSUME NEW p, Shaped(p), NEW signed \in Int, NEW price
  PROVE  /\ Shaped(UpdatePosition(p, signed, price))
         /\ UpdatePosition(p, signed, price).quantity = p.quantity + signed
<1>1. PICK q, a, r : p = [quantity |-> q, avgEntryPrice |-> a, realizedPnl |-> r]
  BY DEF Shaped
<1>2. p.quantity = q /\ q \in Int
  BY <1>1 DEF Shaped
<1>3. PICK n \in Int : n = q + signed
  BY <1>2
<1> DEFINE Is(u) == \E b, s : u = [quantity |-> n, avgEntryPrice |-> b, realizedPnl |-> s]
<1>4. Is(Open(p, signed, price))
  <2>1. PICK w : w = Whole(price)
    OBVIOUS
  <2>2. Open(p, signed, price) = [p EXCEPT !.quantity = @ + signed, !.avgEntryPrice = w]
    BY <2>1 DEF Open
  <2>3. Open(p, signed, price) = [quantity |-> n, avgEntryPrice |-> w, realizedPnl |-> r]
    BY <1>1, <1>2, <1>3, <2>2
  <2> QED
    BY <2>3
<1>5. Is(AddTo(p, signed, price))
  <2>1. PICK w : w = Over(Plus(Times(p.avgEntryPrice, Abs(p.quantity)), Whole(price * Abs(signed))),
                          Abs(p.quantity + signed))
    OBVIOUS
  <2>2. AddTo(p, signed, price) = [p EXCEPT !.quantity = p.quantity + signed, !.avgEntryPrice = w]
    BY <2>1 DEF AddTo
  <2>3. AddTo(p, signed, price) = [quantity |-> n, avgEntryPrice |-> w, realizedPnl |-> r]
    BY <1>1, <1>2, <1>3, <2>2
  <2> QED
    BY <2>3
<1>6. Is(Reduce(p, signed, price))
  BY <1>1, <1>2, <1>3 DEF Reduce
<1>7. Is(Flip(p, signed, price))
  BY <1>1, <1>2, <1>3 DEF Flip
<1>8. Is(UpdatePosition(p, signed, price))
  <2> HIDE DEF Is
  <2>1. UpdatePosition(p, signed, price) \in
          {Open(p, signed, price), AddTo(p, signed, price), Reduce(p, signed, price),
           Flip(p, signed, price)}
    BY DEF UpdatePosition
  <2> QED
    BY <1>4, <1>5, <1>6, <1>7, <2>1
<1>9. PICK b, s : UpdatePosition(p, signed, price)
                    = [quantity |-> n, avgEntryPrice |-> b, realizedPnl |-> s]
  BY <1>8
<1>10. PICK u : u = UpdatePosition(p, signed, price)
  OBVIOUS
<1>11. u = [quantity |-> n, avgEntryPrice |-> b, realizedPnl |-> s]
  BY <1>9, <1>10
<1>12. u.quantity = n /\ Shaped(u)
  BY <1>11 DEF Shaped
<1> QED
  BY <1>2, <1>3, <1>10, <1>12

-------------------------------------------------------------------------------
(* Least counterexamples *)

LEMMA NatBelow == \E R : IsWellFoundedOn(R, Nat) /\ \A m, n \in Nat : <<n, m>> \in R <=> n < m
<1> DEFINE R == OpToRel(<, Nat)
<1>1. IsWellFoundedOn(R, Nat)
  BY NatLessThanWellFounded
<1>2. \A m, n \in Nat : <<n, m>> \in R <=> n < m
  BY DEF OpToRel
<1> HIDE DEF R
<1> QED
  BY <1>1, <1>2, Zenon

LEMMA LeastNat ==
  ASSUME NEW T, T \subseteq Nat, T # {}
  PROVE  \E m \in T : \A n \in T : m <= n
<1>1. PICK R : IsWellFoundedOn(R, Nat) /\ \A m, n \in Nat : <<n, m>> \in R <=> n < m
  BY NatBelow
<1>2. \E m \in T : \A n \in T : ~ (<<n, m>> \in R)
  BY <1>1, WFMin
<1>3. PICK m \in T : \A n \in T : ~ (<<n, m>> \in R)
  BY <1>2
<1>4. \A n \in T : ~ (n < m)
  BY <1>1, <1>3, Zenon
<1>5. \A n \in T : m <= n
  BY <1>4
<1> QED
  BY <1>5

-------------------------------------------------------------------------------
(* Euclid's algorithm *)

Divides(k, a) == \E x \in Nat : a = k * x

LEMMA DivMod ==
  ASSUME NEW a \in Nat, NEW b \in Nat, b # 0
  PROVE  /\ a % b \in Nat /\ a % b < b /\ a \div b \in Nat
         /\ a = b * (a \div b) + (a % b)
BY SMTT(30)

LEMMA DividesRest ==
  ASSUME NEW k \in Nat, NEW a \in Nat, NEW b \in Nat, b # 0
  PROVE  Divides(k, b) => (Divides(k, a) <=> Divides(k, a % b))
<1> SUFFICES ASSUME NEW y \in Nat, b = k * y
             PROVE  Divides(k, a) <=> Divides(k, a % b)
  BY DEF Divides
<1>1. PICK q \in Nat : q = a \div b
  BY DivMod
<1>2. PICK r \in Nat : r = a % b
  BY DivMod
<1>3. a = b * q + r
  BY <1>1, <1>2, DivMod
<1>4. ASSUME NEW x \in Nat, a = k * x PROVE Divides(k, r)
  <2>1. r = k * (x - y * q)
    BY <1>3, <1>4
  <2>2. CASE x - y * q \in Nat
    BY <2>1, <2>2 DEF Divides
  <2>3. CASE x - y * q < 0
    <3>1. r = 0
      <4>1. PICK z \in Int : z = x - y * q
        OBVIOUS
      <4>2. r = k * z /\ z < 0
        BY <2>1, <2>3, <4>1
      <4> QED
        BY <4>2
    <3>2. r = k * 0
      BY <3>1
    <3> QED
      BY <3>2 DEF Divides
  <2> QED
    BY <2>2, <2>3
<1>5. ASSUME NEW x \in Nat, r = k * x PROVE Divides(k, a)
  <2>1. a = k * (y * q + x)
    BY <1>3, <1>5
  <2>2. y * q + x \in Nat
    OBVIOUS
  <2> QED
    BY <2>1, <2>2 DEF Divides
<1> QED
  BY <1>2, <1>4, <1>5 DEF Divides

\* What Euclid's algorithm computes: the recursion has a solution.
Common(a, b) == {k \in Nat : Divides(k, a) /\ Divides(k, b)}
Largest(K) == CHOOSE g \in K : \A k \in K : k <= g
Euclid(a, b) == IF b = 0 THEN a ELSE Largest(Common(a, b))

LEMMA DivisorBelow ==
  ASSUME NEW k \in Nat, NEW b \in Nat, b # 0, Divides(k, b)
  PROVE  k <= b /\ k # 0
<1>1. PICK x \in Nat : b = k * x
  BY DEF Divides
<1>2. x >= 1
  BY <1>1
<1> QED
  BY <1>1, <1>2

LEMMA EuclidStep ==
  ASSUME NEW a \in Nat, NEW b \in Nat, b # 0
  PROVE  Euclid(a, b) = Euclid(b, a % b)
<1>1. PICK r \in Nat : r = a % b
  BY DivMod
<1>2. CASE r = 0
  <2>1. Divides(b, b) /\ Divides(b, r)
    <3>1. b = b * 1 /\ r = b * 0
      BY <1>2
    <3> QED
      BY <3>1 DEF Divides
  <2>2. Divides(b, a)
    BY <1>1, <2>1, DividesRest
  <2>3. b \in Common(a, b)
    BY <2>1, <2>2 DEF Common
  <2>4. \A k \in Common(a, b) : k <= b
    BY DivisorBelow DEF Common
  <2>5. Common(a, b) \subseteq Nat
    BY DEF Common
  <2>6. \A g \in Common(a, b) : (\A k \in Common(a, b) : k <= g) => g = b
    BY <2>3, <2>4, <2>5
  <2>7. Largest(Common(a, b)) = b
    BY <2>3, <2>4, <2>6 DEF Largest
  <2> QED
    BY <1>1, <1>2, <2>7 DEF Euclid
<1>3. CASE r # 0
  <2>1. Common(a, b) = Common(b, r)
    BY <1>1, DividesRest DEF Common
  <2> QED
    BY <1>1, <1>3, <2>1 DEF Euclid
<1> QED
  BY <1>2, <1>3

LEMMA GcdIs ==
  \A p \in Nat \X Nat : Gcd[p] = IF p[2] = 0 THEN p[1] ELSE Gcd[<<p[2], p[1] % p[2]>>]
<1> DEFINE e == [p \in Nat \X Nat |-> Euclid(p[1], p[2])]
           Rec(f) == [p \in Nat \X Nat |-> IF p[2] = 0 THEN p[1] ELSE f[<<p[2], p[1] % p[2]>>]]
<1>1. ASSUME NEW p \in Nat \X Nat
      PROVE  Euclid(p[1], p[2]) = IF p[2] = 0 THEN p[1] ELSE e[<<p[2], p[1] % p[2]>>]
  <2>1. PICK a \in Nat : a = p[1]
    OBVIOUS
  <2>2. PICK b \in Nat : b = p[2]
    OBVIOUS
  <2>3. CASE b = 0
    BY <2>1, <2>2, <2>3 DEF Euclid
  <2>4. CASE b # 0
    <3>1. PICK r \in Nat : r = a % b
      BY <2>4, DivMod
    <3>2. e[<<b, r>>] = Euclid(b, r)
      OBVIOUS
    <3>3. Euclid(a, b) = Euclid(b, r)
      BY <2>4, <3>1, EuclidStep
    <3> QED
      BY <2>1, <2>2, <2>4, <3>1, <3>2, <3>3
  <2> QED
    BY <2>3, <2>4
<1>2. e = Rec(e)
  BY <1>1
<1>3. Gcd = CHOOSE f : f = Rec(f)
  BY DEF Gcd
<1> HIDE DEF e, Rec
<1>4. Gcd = Rec(Gcd)
  BY <1>2, <1>3
<1> QED
  BY <1>4 DEF Rec

LEMMA GcdStep ==
  ASSUME NEW a \in Nat, NEW b \in Nat
  PROVE  Gcd[<<a, b>>] = IF b = 0 THEN a ELSE Gcd[<<b, a % b>>]
<1>1. <<a, b>> \in Nat \X Nat /\ <<a, b>>[1] = a /\ <<a, b>>[2] = b
  OBVIOUS
<1> QED
  BY <1>1, GcdIs

\* The divisor is one of both, by induction on the second.
LEMMA GcdDivides ==
  ASSUME NEW a \in Nat, NEW b \in Nat, b # 0
  PROVE  LET g == Gcd[<<a, b>>] IN g \in Nat /\ g # 0 /\ Divides(g, a) /\ Divides(g, b)
<1> DEFINE Good(x, y) == LET g == Gcd[<<x, y>>] IN g \in Nat /\ Divides(g, x) /\ Divides(g, y)
           Bad == {y \in Nat : \E x \in Nat : ~ Good(x, y)}
<1>1. ASSUME NEW x \in Nat, NEW y \in Nat, y # 0, Good(y, x % y)
      PROVE  Good(x, y)
  <2>1. PICK r \in Nat : r = x % y
    BY <1>1, DivMod
  <2>2. PICK g \in Nat : g = Gcd[<<y, r>>]
    BY <1>1, <2>1
  <2>3. g = Gcd[<<x, y>>]
    BY <1>1, <2>1, <2>2, GcdStep
  <2>4. Divides(g, y) /\ Divides(g, r)
    BY <1>1, <2>1, <2>2
  <2>5. Divides(g, x)
    BY <1>1, <2>1, <2>4, DividesRest
  <2> QED
    BY <2>3, <2>4, <2>5
<1>2. \A x \in Nat : Good(x, 0)
  <2> SUFFICES ASSUME NEW x \in Nat PROVE Good(x, 0)
    OBVIOUS
  <2>1. Gcd[<<x, 0>>] = x
    BY GcdStep
  <2>2. x = x * 1 /\ 0 = x * 0
    OBVIOUS
  <2>3. Divides(x, x) /\ Divides(x, 0)
    BY <2>2 DEF Divides
  <2> QED
    BY <2>1, <2>3
<1> HIDE DEF Good
<1>3. Bad = {}
  <2> SUFFICES ASSUME Bad # {} PROVE FALSE
    OBVIOUS
  <2>1. PICK y \in Bad : \A z \in Bad : y <= z
    <3>1. Bad \subseteq Nat
      OBVIOUS
    <3> HIDE DEF Bad
    <3> QED
      BY <3>1, LeastNat
  <2>2. PICK x \in Nat : ~ Good(x, y)
    OBVIOUS
  <2>3. y \in Nat /\ y # 0
    BY <1>2, <2>2
  <2>4. x % y \in Nat /\ x % y < y
    BY <2>3, DivMod
  <2>5. x % y \notin Bad
    BY <2>1, <2>3, <2>4
  <2>6. Good(y, x % y)
    BY <2>3, <2>4, <2>5
  <2> QED
    BY <1>1, <2>2, <2>3, <2>6
<1>4. Good(a, b)
  BY <1>3
<1>5. PICK g : g = Gcd[<<a, b>>]
  OBVIOUS
<1>6. g \in Nat /\ Divides(g, a) /\ Divides(g, b)
  BY <1>4, <1>5 DEF Good
<1>7. g # 0
  BY <1>6, DivisorBelow
<1> QED
  BY <1>5, <1>6, <1>7

LEMMA Cancel ==
  ASSUME NEW x \in Int, NEW y \in Int, NEW z \in Int, z # 0, x * z = y * z
  PROVE  x = y
OBVIOUS

LEMMA DivExact ==
  ASSUME NEW g \in Nat, g # 0, NEW m \in Int
  PROVE  (g * m) \div g = m
<1>1. PICK n \in Int : n = g * m
  OBVIOUS
<1>2. /\ n \div g \in Int /\ n % g \in Nat /\ n % g < g
      /\ n = g * (n \div g) + (n % g)
  BY SMTT(30)
<1>3. PICK q \in Int : q = n \div g
  BY <1>2
<1>4. PICK r \in Nat : r = n % g
  BY <1>2
<1>5. r = g * (m - q) /\ r < g
  BY <1>1, <1>2, <1>3, <1>4
<1>6. PICK z \in Int : z = m - q
  OBVIOUS
<1>7. r = g * z
  BY <1>5, <1>6
<1>8. ~ (z >= 1)
  BY <1>5, <1>7
<1>9. ~ (z <= -1)
  BY <1>7
<1>10. z = 0
  BY <1>8, <1>9
<1> QED
  BY <1>1, <1>3, <1>6, <1>10

-------------------------------------------------------------------------------
(* Fractions *)

\* Lowest terms are the fraction without a common factor.
LEMMA LowestIs ==
  ASSUME NEW f \in Fraction
  PROVE  /\ Lowest[f] \in Fraction
         /\ \E g \in Nat : g # 0 /\ f[1] = g * Lowest[f][1] /\ f[2] = g * Lowest[f][2]
<1>1. PICK n \in Int : n = f[1]
  BY DEF Fraction
<1>2. PICK d \in Nat : d = f[2] /\ d # 0
  BY DEF Fraction
<1>3. PICK a \in Nat : a = Abs(n)
  BY DEF Abs
<1>4. PICK g : g = Gcd[<<a, d>>]
  OBVIOUS
<1>5. g \in Nat /\ g # 0 /\ Divides(g, a) /\ Divides(g, d)
  BY <1>2, <1>4, GcdDivides
<1>6. PICK x \in Nat : a = g * x
  BY <1>5 DEF Divides
<1>7. PICK y \in Nat : d = g * y
  BY <1>5 DEF Divides
<1>8. PICK m \in Int : n = g * m
  <2>1. CASE n < 0
    <3>1. n = g * (-x)
      BY <1>3, <1>5, <1>6, <2>1 DEF Abs
    <3> QED
      BY <3>1
  <2>2. CASE n >= 0
    BY <1>3, <1>6, <2>2 DEF Abs
  <2> QED
    BY <2>1, <2>2
<1>9. n \div g = m /\ d \div g = y
  BY <1>5, <1>7, <1>8, DivExact
<1>10. Lowest[f] = <<m, y>>
  BY <1>1, <1>2, <1>3, <1>4, <1>9 DEF Lowest
<1>11. y # 0
  BY <1>2, <1>5, <1>7
<1> QED
  BY <1>1, <1>2, <1>5, <1>7, <1>8, <1>10, <1>11 DEF Fraction

LEMMA ModExact ==
  ASSUME NEW g \in Nat, g # 0, NEW m \in Nat
  PROVE  (m * g) % g = 0
<1>1. PICK n \in Nat : n = g * m
  OBVIOUS
<1>2. /\ n \div g \in Int /\ n % g \in Nat /\ n = g * (n \div g) + (n % g)
  BY DivMod
<1>3. n \div g = m
  BY <1>1, DivExact
<1>4. n % g = 0
  BY <1>1, <1>2, <1>3
<1> QED
  BY <1>1, <1>4

LEMMA LowestWhole ==
  ASSUME NEW w \in Int, NEW d \in Nat, d # 0
  PROVE  Lowest[<<w * d, d>>] = Whole(w)
<1>1. PICK k \in Nat : k = Abs(w)
  BY DEF Abs
<1>2. Abs(w * d) = k * d
  <2>1. CASE w < 0
    <3>1. w * d < 0
      BY <2>1
    <3> QED
      BY <1>1, <2>1, <3>1 DEF Abs
  <2>2. CASE w >= 0
    <3>1. w * d >= 0
      BY <2>2
    <3> QED
      BY <1>1, <2>2, <3>1 DEF Abs
  <2> QED
    BY <2>1, <2>2
<1>3. k * d \in Nat /\ (k * d) % d = 0
  BY ModExact
<1>4. Gcd[<<k * d, d>>] = d
  <2>1. Gcd[<<k * d, d>>] = Gcd[<<d, 0>>]
    BY <1>3, GcdStep
  <2>2. Gcd[<<d, 0>>] = d
    BY GcdStep
  <2> QED
    BY <2>1, <2>2
<1>5. (w * d) \div d = w /\ d \div d = 1
  <2>1. (d * w) \div d = w /\ (d * 1) \div d = 1
    BY DivExact
  <2>2. d * w = w * d /\ d * 1 = d
    OBVIOUS
  <2> QED
    BY <2>1, <2>2
<1>6. <<w * d, d>> \in Fraction
  BY DEF Fraction
<1>7. Lowest[<<w * d, d>>] = <<w, 1>>
  BY <1>2, <1>4, <1>5, <1>6 DEF Lowest
<1> QED
  BY <1>7 DEF Whole

\* The fraction a is n / d.
Is(a, n, d) == a \in Fraction /\ a[1] * d = n * a[2]

LEMMA LowestSame ==
  ASSUME NEW f \in Fraction, NEW n \in Int, NEW d \in Int
  PROVE  Is(Lowest[f], n, d) <=> Is(f, n, d)
<1>1. PICK l \in Fraction : l = Lowest[f]
  BY LowestIs
<1>2. PICK g \in Nat : g # 0 /\ f[1] = g * l[1] /\ f[2] = g * l[2]
  BY <1>1, LowestIs
<1>3. PICK x \in Int : x = l[1]
  BY DEF Fraction
<1>4. PICK y \in Int : y = l[2]
  BY DEF Fraction
<1>5. f[1] * d = (x * d) * g /\ n * f[2] = (n * y) * g
  BY <1>2, <1>3, <1>4
<1>6. x * d \in Int /\ n * y \in Int
  OBVIOUS
<1>7. (x * d) * g = (n * y) * g <=> x * d = n * y
  BY <1>2, <1>6, Cancel
<1> QED
  BY <1>1, <1>3, <1>4, <1>5, <1>7 DEF Is

LEMMA LowestInt ==
  ASSUME NEW f \in Fraction, NEW w \in Int, Is(f, w, 1)
  PROVE  Lowest[f] = Whole(w)
<1>1. PICK d \in Nat : d = f[2] /\ d # 0
  BY DEF Fraction
<1>2. f[1] = w * d
  BY <1>1 DEF Is, Fraction
<1>3. f = <<w * d, d>>
  BY <1>1, <1>2 DEF Fraction
<1> QED
  BY <1>1, <1>3, LowestWhole

LEMMA TimesIs ==
  ASSUME NEW a, NEW n \in Int, NEW d \in Int, Is(a, n, d), NEW k \in Int
  PROVE  Is(Times(a, k), n * k, d)
<1>1. PICK x \in Int : x = a[1]
  BY DEF Is, Fraction
<1>2. PICK y \in Nat : y = a[2] /\ y # 0
  BY DEF Is, Fraction
<1>3. x * d = n * y
  BY <1>1, <1>2 DEF Is
<1>4. (x * k) * d = (n * k) * y
  BY <1>3
<1>5. <<x * k, y>> \in Fraction
  BY <1>2 DEF Fraction
<1>6. Is(<<x * k, y>>, n * k, d)
  BY <1>4, <1>5 DEF Is
<1>7. n * k \in Int
  OBVIOUS
<1>8. Is(Lowest[<<x * k, y>>], n * k, d)
  BY <1>5, <1>6, <1>7, LowestSame
<1> QED
  BY <1>1, <1>2, <1>8 DEF Times

LEMMA OverIs ==
  ASSUME NEW a, NEW n \in Int, NEW d \in Int, Is(a, n, d), NEW k \in Nat, k # 0
  PROVE  Is(Over(a, k), n, d * k)
<1>1. PICK x \in Int : x = a[1]
  BY DEF Is, Fraction
<1>2. PICK y \in Nat : y = a[2] /\ y # 0
  BY DEF Is, Fraction
<1>3. x * d = n * y
  BY <1>1, <1>2 DEF Is
<1>4. x * (d * k) = n * (y * k)
  BY <1>3
<1>5. <<x, y * k>> \in Fraction
  BY <1>2 DEF Fraction
<1>6. Is(<<x, y * k>>, n, d * k)
  BY <1>4, <1>5 DEF Is
<1>7. d * k \in Int
  OBVIOUS
<1>8. Is(Lowest[<<x, y * k>>], n, d * k)
  BY <1>5, <1>6, <1>7, LowestSame
<1> QED
  BY <1>1, <1>2, <1>8 DEF Over

LEMMA SumRaw ==
  ASSUME NEW a, NEW b, NEW n \in Int, NEW m \in Int, NEW d \in Int, Is(a, n, d), Is(b, m, d)
  PROVE  \E f \in Fraction : Plus(a, b) = Lowest[f] /\ Is(f, n + m, d)
<1>1. PICK x \in Int : x = a[1]
  BY DEF Is, Fraction
<1>2. PICK y \in Nat : y = a[2] /\ y # 0
  BY DEF Is, Fraction
<1>3. PICK u \in Int : u = b[1]
  BY DEF Is, Fraction
<1>4. PICK v \in Nat : v = b[2] /\ v # 0
  BY DEF Is, Fraction
<1>5. x * d = n * y /\ u * d = m * v
  BY <1>1, <1>2, <1>3, <1>4 DEF Is
<1>6. (x * v + u * y) * d = (n + m) * (y * v)
  <2>1. (x * v + u * y) * d = (x * d) * v + (u * d) * y
    OBVIOUS
  <2>2. (n + m) * (y * v) = (n * y) * v + (m * v) * y
    OBVIOUS
  <2> QED
    BY <1>5, <2>1, <2>2
<1>7. y * v \in Nat \ {0} /\ x * v + u * y \in Int
  BY <1>2, <1>4
<1>8. <<x * v + u * y, y * v>> \in Fraction
  BY <1>7 DEF Fraction
<1>9. Is(<<x * v + u * y, y * v>>, n + m, d)
  BY <1>6, <1>8 DEF Is
<1>10. <<a, b>> \in Fraction \X Fraction
  BY DEF Is
<1>11. Added[<<a, b>>] = Lowest[<<x * v + u * y, y * v>>]
  BY <1>1, <1>2, <1>3, <1>4, <1>10 DEF Added
<1> QED
  BY <1>8, <1>9, <1>11 DEF Plus

LEMMA PlusIs ==
  ASSUME NEW a, NEW b, NEW n \in Int, NEW m \in Int, NEW d \in Int, Is(a, n, d), Is(b, m, d)
  PROVE  Is(Plus(a, b), n + m, d)
<1>1. PICK f \in Fraction : Plus(a, b) = Lowest[f] /\ Is(f, n + m, d)
  BY SumRaw
<1>2. n + m \in Int
  OBVIOUS
<1> QED
  BY <1>1, <1>2, LowestSame

LEMMA MinusIs ==
  ASSUME NEW a, NEW b, NEW n \in Int, NEW m \in Int, NEW d \in Int, Is(a, n, d), Is(b, m, d)
  PROVE  Is(Minus(a, b), n - m, d)
<1>1. Minus(a, b) = Plus(a, Times(b, -1))
  BY DEF Minus, Plus
<1>2. Is(Times(b, -1), m * (-1), d)
  BY TimesIs
<1>3. m * (-1) \in Int /\ n + m * (-1) = n - m
  OBVIOUS
<1>4. PICK l \in Int : l = m * (-1)
  BY <1>3
<1>5. Is(Plus(a, Times(b, -1)), n + l, d)
  BY <1>2, <1>4, PlusIs
<1> QED
  BY <1>1, <1>3, <1>4, <1>5

\* A sum or difference that is a whole number is written as one.
LEMMA PlusWhole ==
  ASSUME NEW a, NEW b, NEW n \in Int, NEW m \in Int, NEW d \in Int, d # 0, Is(a, n, d), Is(b, m, d),
         NEW w \in Int, n + m = w * d
  PROVE  Plus(a, b) = Whole(w)
<1>1. PICK f \in Fraction : Plus(a, b) = Lowest[f] /\ Is(f, n + m, d)
  BY SumRaw
<1>2. PICK x \in Int : x = f[1]
  BY DEF Fraction
<1>3. PICK y \in Int : y = f[2]
  BY DEF Fraction
<1>4. x * d = (w * y) * d
  <2>1. x * d = (n + m) * y
    BY <1>1, <1>2, <1>3 DEF Is
  <2>2. (w * d) * y = (w * y) * d
    OBVIOUS
  <2> QED
    BY <2>1, <2>2
<1>5. w * y \in Int
  OBVIOUS
<1>6. x = w * y
  BY <1>4, <1>5, Cancel
<1>7. Is(f, w, 1)
  BY <1>2, <1>3, <1>6 DEF Is
<1> QED
  BY <1>1, <1>7, LowestInt

LEMMA WholeIs ==
  ASSUME NEW w \in Int, NEW d \in Int
  PROVE  Is(Whole(w), w * d, d)
BY DEF Is, Whole, Fraction

LEMMA IsReduced ==
  ASSUME NEW a, NEW n \in Int, NEW d \in Int, d # 0, Is(a, n * d, d)
  PROVE  Is(a, n, 1)
<1>1. PICK x \in Int : x = a[1]
  BY DEF Is, Fraction
<1>2. PICK y \in Int : y = a[2]
  BY DEF Is, Fraction
<1>3. x * d = (n * y) * d
  <2>1. x * d = (n * d) * y
    BY <1>1, <1>2 DEF Is
  <2>2. (n * d) * y = (n * y) * d
    OBVIOUS
  <2> QED
    BY <2>1, <2>2
<1>4. n * y \in Int
  OBVIOUS
<1>5. x = n * y
  BY <1>3, <1>4, Cancel
<1> QED
  BY <1>1, <1>2, <1>5 DEF Is

-------------------------------------------------------------------------------
(* Lowest terms are unique *)

\* The numbers c and d are k times a and b.
Scaled(k, a, b, c, d) == c = k * a /\ d = k * b

LEMMA ModScale ==
  ASSUME NEW k \in Nat, k # 0, NEW a \in Nat, NEW b \in Nat, b # 0, NEW r \in Nat, r = a % b,
         NEW x \in Nat, NEW y \in Nat, Scaled(k, a, b, x, y)
  PROVE  x % y \in Nat /\ Scaled(k, b, r, y, x % y)
<1>1. PICK q \in Nat : q = a \div b
  BY DivMod
<1>2. r < b
  BY DivMod
<1>3. a = b * q + r
  BY <1>1, <1>2, DivMod
<1>4. x = k * a /\ y = k * b
  BY DEF Scaled
<1>5. y # 0
  BY <1>4
<1>6. PICK p \in Nat : p = x \div y
  BY <1>5, DivMod
<1>7. PICK s \in Nat : s = x % y /\ s < y
  BY <1>5, DivMod
<1>8. x = y * p + s
  BY <1>5, <1>6, <1>7, DivMod
<1>9. PICK t \in Nat : t = k * r /\ t < y
  BY <1>2, <1>4
<1>10. x = y * q + t
  <2>1. k * (b * q + r) = (k * b) * q + k * r
    OBVIOUS
  <2> QED
    BY <1>3, <1>4, <1>9, <2>1
<1>11. PICK z \in Int : z = q - p
  OBVIOUS
<1>12. s - t = y * z
  BY <1>8, <1>10, <1>11
<1>13. ~ (z >= 1)
  BY <1>7, <1>12
<1>14. ~ (z <= -1)
  BY <1>9, <1>12
<1>15. z = 0
  BY <1>13, <1>14
<1>16. s = t
  BY <1>12, <1>15
<1>17. Scaled(k, b, r, y, s)
  BY <1>4, <1>9, <1>16 DEF Scaled
<1> QED
  BY <1>7, <1>17

LEMMA GcdScale ==
  ASSUME NEW k \in Nat, k # 0, NEW a \in Nat, NEW b \in Nat,
         NEW c \in Nat, c = k * a, NEW d \in Nat, d = k * b
  PROVE  Gcd[<<c, d>>] = k * Gcd[<<a, b>>]
<1> DEFINE Good(x, y) == \A u, v \in Nat :
             Scaled(k, x, y, u, v) => Gcd[<<u, v>>] = k * Gcd[<<x, y>>]
           Bad == {y \in Nat : \E x \in Nat : ~ Good(x, y)}
<1>1. ASSUME NEW x \in Nat, NEW y \in Nat, y # 0, Good(y, x % y)
      PROVE  Good(x, y)
  <2> SUFFICES ASSUME NEW u \in Nat, NEW v \in Nat, Scaled(k, x, y, u, v)
               PROVE  Gcd[<<u, v>>] = k * Gcd[<<x, y>>]
    OBVIOUS
  <2>1. PICK r \in Nat : r = x % y
    BY <1>1, DivMod
  <2>2. v # 0
    BY <1>1 DEF Scaled
  <2>3. u % v \in Nat /\ Scaled(k, y, r, v, u % v)
    BY <1>1, <2>1, ModScale
  <2>4. PICK t \in Nat : t = u % v
    BY <2>3
  <2>5. Gcd[<<u, v>>] = Gcd[<<v, t>>]
    BY <2>2, <2>4, GcdStep
  <2>6. Gcd[<<v, t>>] = k * Gcd[<<y, r>>]
    BY <1>1, <2>1, <2>3, <2>4
  <2>7. Gcd[<<x, y>>] = Gcd[<<y, r>>]
    BY <1>1, <2>1, GcdStep
  <2> QED
    BY <2>5, <2>6, <2>7
<1>2. \A x \in Nat : Good(x, 0)
  <2> SUFFICES ASSUME NEW x \in Nat, NEW u \in Nat, NEW v \in Nat, Scaled(k, x, 0, u, v)
               PROVE  Gcd[<<u, v>>] = k * Gcd[<<x, 0>>]
    OBVIOUS
  <2>1. Gcd[<<x, 0>>] = x
    BY GcdStep
  <2>2. u = k * x /\ v = 0
    BY DEF Scaled
  <2>3. Gcd[<<u, v>>] = u
    BY <2>2, GcdStep
  <2> QED
    BY <2>1, <2>2, <2>3
<1> HIDE DEF Good
<1>3. Bad = {}
  <2> SUFFICES ASSUME Bad # {} PROVE FALSE
    OBVIOUS
  <2>1. PICK y \in Bad : \A z \in Bad : y <= z
    <3>1. Bad \subseteq Nat
      OBVIOUS
    <3> HIDE DEF Bad
    <3> QED
      BY <3>1, LeastNat
  <2>2. PICK x \in Nat : ~ Good(x, y)
    OBVIOUS
  <2>3. y \in Nat /\ y # 0
    BY <1>2, <2>2
  <2>4. x % y \in Nat /\ x % y < y
    BY <2>3, DivMod
  <2>5. x % y \notin Bad
    BY <2>1, <2>3, <2>4
  <2>6. Good(y, x % y)
    BY <2>3, <2>4, <2>5
  <2> QED
    BY <1>1, <2>2, <2>3, <2>6
<1>4. Good(a, b)
  BY <1>3
<1> QED
  BY <1>4 DEF Good, Scaled

\* A fraction without a common factor.
Reduced(f) == f \in Fraction /\ Gcd[<<Abs(f[1]), f[2]>>] = 1

LEMMA AbsScale ==
  ASSUME NEW k \in Nat, NEW x \in Int, NEW y \in Int, y = k * x
  PROVE  Abs(y) = k * Abs(x) /\ Abs(x) \in Nat
<1>1. CASE x < 0
  <2>1. y <= 0 /\ k * (-x) = -y
    BY <1>1
  <2> QED
    BY <1>1, <2>1 DEF Abs
<1>2. CASE x >= 0
  <2>1. y >= 0
    BY <1>2
  <2> QED
    BY <1>2, <2>1 DEF Abs
<1> QED
  BY <1>1, <1>2

LEMMA LowestReduced ==
  ASSUME NEW f \in Fraction
  PROVE  Reduced(Lowest[f])
<1>1. PICK n \in Int : n = f[1]
  BY DEF Fraction
<1>2. PICK d \in Nat : d = f[2] /\ d # 0
  BY DEF Fraction
<1>3. PICK a \in Nat : a = Abs(n)
  BY DEF Abs
<1>4. PICK g : g = Gcd[<<a, d>>]
  OBVIOUS
<1>5. g \in Nat /\ g # 0 /\ Divides(g, a) /\ Divides(g, d)
  BY <1>2, <1>4, GcdDivides
<1>6. PICK x \in Nat : a = g * x
  BY <1>5 DEF Divides
<1>7. PICK y \in Nat : d = g * y
  BY <1>5 DEF Divides
<1>8. PICK m \in Int : n = g * m
  <2>1. CASE n < 0
    <3>1. n = g * (-x)
      BY <1>3, <1>5, <1>6, <2>1 DEF Abs
    <3> QED
      BY <3>1
  <2>2. CASE n >= 0
    BY <1>3, <1>6, <2>2 DEF Abs
  <2> QED
    BY <2>1, <2>2
<1>9. n \div g = m /\ d \div g = y
  BY <1>5, <1>7, <1>8, DivExact
<1>10. Lowest[f] = <<m, y>>
  BY <1>1, <1>2, <1>3, <1>4, <1>9 DEF Lowest
<1>11. y # 0
  BY <1>2, <1>5, <1>7
<1>12. PICK b \in Nat : b = Abs(m) /\ a = g * b
  BY <1>3, <1>5, <1>8, AbsScale, Zenon
<1>13. PICK h : h = Gcd[<<b, y>>]
  OBVIOUS
<1>14. h \in Nat
  BY <1>11, <1>13, GcdDivides
<1>15. g = g * h
  BY <1>4, <1>5, <1>7, <1>12, <1>13, GcdScale
<1>16. h = 1
  BY <1>5, <1>14, <1>15
<1>17. PICK l : l = <<m, y>>
  OBVIOUS
<1>18. l \in Fraction /\ l[1] = m /\ l[2] = y
  BY <1>11, <1>17 DEF Fraction
<1>19. Reduced(l)
  BY <1>12, <1>13, <1>16, <1>18 DEF Reduced
<1> QED
  BY <1>10, <1>17, <1>19

LEMMA ReducedSame ==
  ASSUME NEW a, Reduced(a), NEW b, Reduced(b), a[1] * b[2] = b[1] * a[2]
  PROVE  a = b
<1>1. PICK x \in Int : x = a[1]
  BY DEF Reduced, Fraction
<1>2. PICK y \in Nat : y = a[2] /\ y # 0
  BY DEF Reduced, Fraction
<1>3. PICK u \in Int : u = b[1]
  BY DEF Reduced, Fraction
<1>4. PICK v \in Nat : v = b[2] /\ v # 0
  BY DEF Reduced, Fraction
<1>5. PICK p \in Nat : p = Abs(x)
  BY DEF Abs
<1>6. PICK q \in Nat : q = Abs(u)
  BY DEF Abs
<1>7. v * x = y * u
  BY <1>1, <1>2, <1>3, <1>4
<1>8. v * p = y * q
  <2>1. PICK c \in Int : c = v * x /\ c = y * u
    BY <1>7
  <2>2. Abs(c) = v * p /\ Abs(c) = y * q
    BY <1>5, <1>6, <2>1, AbsScale
  <2> QED
    BY <2>2
<1>9. Gcd[<<p, y>>] = 1 /\ Gcd[<<q, v>>] = 1
  BY <1>1, <1>2, <1>3, <1>4, <1>5, <1>6 DEF Reduced
<1>10. PICK c \in Nat : c = v * p /\ c = y * q
  BY <1>8
<1>11. v = y
  <2>1. PICK d \in Nat : d = v * y /\ d = y * v
    OBVIOUS
  <2>2. Gcd[<<c, d>>] = v * 1
    BY <1>4, <1>9, <1>10, <2>1, GcdScale
  <2>3. Gcd[<<c, d>>] = y * 1
    BY <1>2, <1>9, <1>10, <2>1, GcdScale
  <2> QED
    BY <2>2, <2>3
<1>12. x = u
  BY <1>2, <1>7, <1>11
<1>13. a = <<x, y>> /\ b = <<u, v>>
  BY <1>1, <1>2, <1>3, <1>4 DEF Reduced, Fraction
<1> QED
  BY <1>11, <1>12, <1>13

\* One value has one form in lowest terms.
LEMMA ReducedIs ==
  ASSUME NEW a, Reduced(a), NEW b, Reduced(b), NEW n \in Int, NEW d \in Int, d # 0,
         Is(a, n, d), Is(b, n, d)
  PROVE  a = b
<1>1. PICK x \in Int : x = a[1]
  BY DEF Reduced, Fraction
<1>2. PICK y \in Nat : y = a[2] /\ y # 0
  BY DEF Reduced, Fraction
<1>3. PICK u \in Int : u = b[1]
  BY DEF Reduced, Fraction
<1>4. PICK v \in Nat : v = b[2] /\ v # 0
  BY DEF Reduced, Fraction
<1>5. x * d = n * y /\ u * d = n * v
  BY <1>1, <1>2, <1>3, <1>4 DEF Is
<1>6. (x * v) * d = (u * y) * d
  <2>1. (x * v) * d = (x * d) * v /\ (u * y) * d = (u * d) * y
    OBVIOUS
  <2>2. (n * y) * v = (n * v) * y
    OBVIOUS
  <2> QED
    BY <1>5, <2>1, <2>2
<1>7. x * v \in Int /\ u * y \in Int
  OBVIOUS
<1>8. x * v = u * y
  BY <1>6, <1>7, Cancel
<1> QED
  BY <1>1, <1>2, <1>3, <1>4, <1>8, ReducedSame

LEMMA WholeReduced ==
  ASSUME NEW w \in Int
  PROVE  Reduced(Whole(w)) /\ Lowest[Whole(w)] = Whole(w)
<1>1. Lowest[<<w * 1, 1>>] = Whole(w)
  BY LowestWhole
<1>2. <<w * 1, 1>> \in Fraction /\ w * 1 = w
  BY DEF Fraction
<1> QED
  BY <1>1, <1>2, LowestReduced DEF Whole

LEMMA LowestOfReduced ==
  ASSUME NEW f, Reduced(f)
  PROVE  Lowest[f] = f
<1>1. PICK l : l = Lowest[f] /\ Reduced(l)
  BY LowestReduced DEF Reduced
<1>2. f \in Fraction
  BY DEF Reduced
<1>3. PICK x \in Int : x = f[1]
  BY <1>2 DEF Fraction
<1>4. PICK y \in Int : y = f[2] /\ y # 0
  BY <1>2 DEF Fraction
<1>5. Is(f, x, y)
  BY <1>2, <1>3, <1>4 DEF Is
<1>6. Is(l, x, y)
  BY <1>1, <1>2, <1>5, LowestSame
<1> QED
  BY <1>1, <1>4, <1>5, <1>6, ReducedIs

\* What an operation returns is in lowest terms.
LEMMA PlusReduced ==
  ASSUME NEW a \in Fraction, NEW b \in Fraction
  PROVE  Reduced(Plus(a, b))
<1>1. PICK x \in Int : x = a[1]
  BY DEF Fraction
<1>2. PICK y \in Nat : y = a[2] /\ y # 0
  BY DEF Fraction
<1>3. PICK u \in Int : u = b[1]
  BY DEF Fraction
<1>4. PICK v \in Nat : v = b[2] /\ v # 0
  BY DEF Fraction
<1>5. y * v \in Nat \ {0} /\ x * v + u * y \in Int
  BY <1>2, <1>4
<1>6. <<x * v + u * y, y * v>> \in Fraction
  BY <1>5 DEF Fraction
<1>7. <<a, b>> \in Fraction \X Fraction
  OBVIOUS
<1>8. Added[<<a, b>>] = Lowest[<<x * v + u * y, y * v>>]
  BY <1>1, <1>2, <1>3, <1>4, <1>7 DEF Added
<1> QED
  BY <1>6, <1>8, LowestReduced DEF Plus

LEMMA TimesReduced ==
  ASSUME NEW a \in Fraction, NEW k \in Int
  PROVE  Reduced(Times(a, k))
<1>1. <<a[1] * k, a[2]>> \in Fraction
  BY DEF Fraction
<1> QED
  BY <1>1, LowestReduced DEF Times

-------------------------------------------------------------------------------
(* The books of one instrument *)

\* The books of an instrument agree with the money that was paid and received for
\* it: the realized profit is that money and the cost of what is held.
Sound(pos, cash) ==
  \E n \in Int, d \in Nat :
    d # 0 /\ Is(pos.avgEntryPrice, n, d) /\ Is(pos.realizedPnl, cash * d + n * pos.quantity, d)

LEMMA SoundBy ==
  ASSUME NEW pos, NEW cash, NEW n \in Int, NEW d \in Nat, d # 0, Is(pos.avgEntryPrice, n, d),
         Is(pos.realizedPnl, cash * d + n * pos.quantity, d)
  PROVE  Sound(pos, cash)
BY DEF Sound

LEMMA SoundByWhole ==
  ASSUME NEW pos, NEW cash \in Int, NEW n \in Int, Is(pos.avgEntryPrice, n, 1),
         Is(pos.realizedPnl, cash + n * pos.quantity, 1)
  PROVE  Sound(pos, cash)
<1>1. cash + n * pos.quantity = cash * 1 + n * pos.quantity
  OBVIOUS
<1> QED
  BY <1>1 DEF Sound

LEMMA SoundFlat ==
  ASSUME NEW pos, pos.quantity \in Int, NEW cash \in Int, Is(pos.avgEntryPrice, 0, 1),
         Is(pos.realizedPnl, cash, 1)
  PROVE  Sound(pos, cash)
<1>1. cash * 1 + 0 * pos.quantity = cash
  OBVIOUS
<1> QED
  BY <1>1 DEF Sound

\* Closing a part x of a position, signed as the fill is.
LEMMA RealizedIs ==
  ASSUME NEW pos, pos.quantity \in Int, NEW n \in Int, NEW d \in Nat, d # 0,
         Is(pos.avgEntryPrice, n, d), NEW price \in Int, NEW x \in Int,
         \/ pos.quantity > 0 /\ x <= 0
         \/ pos.quantity <= 0 /\ x >= 0
  PROVE  Is(Realized(pos, Abs(x), price), (n - price * d) * x, d)
<1>1. Is(Whole(price), price * d, d)
  BY WholeIs
<1>2. PICK r \in Int : r = price * d
  OBVIOUS
<1>3. CASE pos.quantity > 0 /\ x <= 0
  <2>1. Is(Minus(Whole(price), pos.avgEntryPrice), r - n, d)
    BY <1>1, <1>2, MinusIs
  <2>2. r - n \in Int /\ -x \in Int
    OBVIOUS
  <2>3. Is(Times(Minus(Whole(price), pos.avgEntryPrice), -x), (r - n) * (-x), d)
    BY <2>1, <2>2, TimesIs
  <2>4. (r - n) * (-x) = (n - r) * x
    OBVIOUS
  <2>5. Abs(x) = -x
    BY <1>3 DEF Abs
  <2> QED
    BY <1>2, <1>3, <2>3, <2>4, <2>5 DEF Realized
<1>4. CASE pos.quantity <= 0 /\ x >= 0
  <2>1. Is(Minus(pos.avgEntryPrice, Whole(price)), n - r, d)
    BY <1>1, <1>2, MinusIs
  <2>2. n - r \in Int
    OBVIOUS
  <2>3. Is(Times(Minus(pos.avgEntryPrice, Whole(price)), x), (n - r) * x, d)
    BY <2>1, <2>2, TimesIs
  <2>4. Abs(x) = x
    BY <1>4 DEF Abs
  <2> QED
    BY <1>2, <1>4, <2>3, <2>4 DEF Realized
<1> QED
  BY <1>3, <1>4

LEMMA OpenSound ==
  ASSUME NEW pos, Shaped(pos), NEW cash \in Int, Sound(pos, cash), pos.quantity = 0,
         NEW signed \in Int, NEW price \in Nat
  PROVE  Sound(Open(pos, signed, price), cash - signed * price)
<1>1. PICK n \in Int, d \in Nat :
        d # 0 /\ Is(pos.avgEntryPrice, n, d) /\ Is(pos.realizedPnl, cash * d + n * 0, d)
  BY DEF Sound
<1> DEFINE new == Open(pos, signed, price)
<1>2. new.quantity = signed /\ new.avgEntryPrice = Whole(price) /\ new.realizedPnl = pos.realizedPnl
  BY DEF Open, Shaped
<1>3. Is(pos.realizedPnl, cash * d, d)
  BY <1>1
<1>4. Is(pos.realizedPnl, cash, 1)
  BY <1>1, <1>3, IsReduced
<1>5. (cash - signed * price) * 1 + price * signed = cash
  OBVIOUS
<1>6. Is(Whole(price), price * 1, 1) /\ price * 1 = price
  BY WholeIs
<1> HIDE DEF new
<1>7. PICK c \in Int : c = cash - signed * price
  OBVIOUS
<1>8. Is(new.realizedPnl, c + price * new.quantity, 1)
  BY <1>2, <1>4, <1>5, <1>7
<1>9. Is(new.avgEntryPrice, price, 1)
  BY <1>2, <1>6
<1>10. Sound(new, c)
  BY <1>8, <1>9, SoundByWhole
<1> QED
  BY <1>7, <1>10 DEF new

LEMMA AddToSound ==
  ASSUME NEW pos, Shaped(pos), NEW cash \in Int, Sound(pos, cash),
         NEW signed \in Int, NEW price \in Nat, SameSign(pos.quantity, signed)
  PROVE  Sound(AddTo(pos, signed, price), cash - signed * price)
<1>1. PICK n \in Int, d \in Nat :
        d # 0 /\ Is(pos.avgEntryPrice, n, d) /\ Is(pos.realizedPnl, cash * d + n * pos.quantity, d)
  BY DEF Sound
<1>2. PICK q \in Int : q = pos.quantity
  BY DEF Shaped
<1>3. PICK t \in Nat : t = Abs(q + signed) /\ t = Abs(q) + Abs(signed) /\ t # 0
  BY <1>2 DEF Abs, SameSign
<1>4. PICK aq \in Nat : aq = Abs(q)
  BY DEF Abs
<1>5. PICK sz \in Nat : sz = Abs(signed)
  BY DEF Abs
<1>6. Is(Times(pos.avgEntryPrice, aq), n * aq, d)
  BY <1>1, TimesIs
<1>7. PICK ps \in Int : ps = price * sz
  <2>1. price \in Int /\ sz \in Int
    OBVIOUS
  <2>2. price * sz \in Int
    BY <2>1
  <2> QED
    BY <2>2, Zenon
<1>8. Is(Whole(ps), ps * d, d)
  BY WholeIs
<1> DEFINE cost == Plus(Times(pos.avgEntryPrice, aq), Whole(ps))
<1>9. PICK m \in Int : m = n * aq + ps * d
  OBVIOUS
<1>10. Is(cost, m, d)
  <2>1. n * aq \in Int /\ ps * d \in Int
    OBVIOUS
  <2> QED
    BY <1>6, <1>8, <1>9, <2>1, PlusIs
<1>11. Is(Over(cost, t), m, d * t)
  BY <1>3, <1>10, OverIs
<1> DEFINE new == AddTo(pos, signed, price)
<1>12. /\ new.quantity = q + signed /\ new.avgEntryPrice = Over(cost, t)
       /\ new.realizedPnl = pos.realizedPnl
  BY <1>2, <1>3, <1>4, <1>5, <1>7 DEF AddTo, Shaped
<1>13. PICK c \in Int : c = cash - signed * price
  OBVIOUS
<1>14. c * (d * t) + m * (q + signed) = (cash * d + n * q) * t
  <2>1. m * (q + signed) = (n * q + price * signed * d) * t
    <3>1. CASE q > 0 /\ signed > 0
      <4>1. aq = q /\ sz = signed /\ t = q + signed
        BY <1>3, <1>4, <1>5, <3>1 DEF Abs
      <4> QED
        BY <1>7, <1>9, <4>1
    <3>2. CASE q < 0 /\ signed < 0
      <4>1. aq = -q /\ sz = -signed /\ t = -(q + signed)
        BY <1>3, <1>4, <1>5, <3>2 DEF Abs
      <4>2. m = -(n * q + price * signed * d)
        BY <1>7, <1>9, <4>1
      <4>3. PICK w \in Int : w = n * q + price * signed * d
        OBVIOUS
      <4>4. PICK s \in Int : s = q + signed
        OBVIOUS
      <4>5. (-w) * s = w * (-s)
        OBVIOUS
      <4> QED
        BY <4>1, <4>2, <4>3, <4>4, <4>5
    <3> QED
      BY <1>2, <3>1, <3>2 DEF SameSign
  <2>2. c * (d * t) = (cash * d) * t - (price * signed * d) * t
    BY <1>13
  <2> QED
    BY <2>1, <2>2
<1>15. d * t \in Nat /\ d * t # 0
  BY <1>1, <1>3
<1>16. Is(pos.realizedPnl, (cash * d + n * q) * t, d * t)
  <2>1. PICK u \in Int : u = cash * d + n * q
    OBVIOUS
  <2>2. Is(pos.realizedPnl, u, d)
    BY <1>1, <1>2, <2>1
  <2>3. PICK x \in Int : x = pos.realizedPnl[1]
    BY <2>2 DEF Is, Fraction
  <2>4. PICK y \in Int : y = pos.realizedPnl[2]
    BY <2>2 DEF Is, Fraction
  <2>5. x * d = u * y
    BY <2>2, <2>3, <2>4 DEF Is
  <2>6. x * (d * t) = (u * t) * y
    BY <2>5
  <2>7. Is(pos.realizedPnl, u * t, d * t)
    BY <2>2, <2>3, <2>4, <2>6 DEF Is
  <2> QED
    BY <2>1, <2>7
<1> HIDE DEF new, cost
<1>17. Is(new.realizedPnl, c * (d * t) + m * new.quantity, d * t)
  BY <1>12, <1>14, <1>16
<1>18. Sound(new, c)
  BY <1>11, <1>12, <1>15, <1>17, SoundBy
<1> QED
  BY <1>13, <1>18 DEF new

\* Closing the part x of the position moves its cost into the realized profit.
LEMMA CloseIs ==
  ASSUME NEW pos, Shaped(pos), NEW cash \in Int, NEW n \in Int, NEW d \in Nat, d # 0,
         Is(pos.avgEntryPrice, n, d), Is(pos.realizedPnl, cash * d + n * pos.quantity, d),
         NEW price \in Nat, NEW x \in Int,
         \/ pos.quantity > 0 /\ x <= 0
         \/ pos.quantity <= 0 /\ x >= 0
  PROVE  Is(Plus(pos.realizedPnl, Realized(pos, Abs(x), price)),
            (cash - x * price) * d + n * (pos.quantity + x), d)
<1>1. PICK q \in Int : q = pos.quantity
  BY DEF Shaped
<1>2. Is(Realized(pos, Abs(x), price), (n - price * d) * x, d)
  <2>1. pos.quantity \in Int /\ price \in Int
    BY <1>1
  <2> QED
    BY <2>1, RealizedIs
<1>3. PICK u \in Int : u = cash * d + n * q
  OBVIOUS
<1>4. PICK v \in Int : v = (n - price * d) * x
  OBVIOUS
<1>5. Is(Plus(pos.realizedPnl, Realized(pos, Abs(x), price)), u + v, d)
  BY <1>1, <1>2, <1>3, <1>4, PlusIs
<1>6. u + v = (cash - x * price) * d + n * (q + x)
  BY <1>3, <1>4
<1> QED
  BY <1>1, <1>5, <1>6

LEMMA ReduceSound ==
  ASSUME NEW pos, Shaped(pos), NEW cash \in Int, Sound(pos, cash),
         NEW signed \in Int, NEW price \in Nat, signed # 0, pos.quantity # 0,
         ~ SameSign(pos.quantity, signed)
  PROVE  Sound(Reduce(pos, signed, price), cash - signed * price)
<1>1. PICK n \in Int, d \in Nat :
        d # 0 /\ Is(pos.avgEntryPrice, n, d) /\ Is(pos.realizedPnl, cash * d + n * pos.quantity, d)
  BY DEF Sound
<1>2. PICK q \in Int : q = pos.quantity
  BY DEF Shaped
<1>3. PICK c \in Int : c = cash - signed * price
  OBVIOUS
<1> DEFINE new == Reduce(pos, signed, price)
<1>4. /\ new.quantity = q + signed
      /\ new.avgEntryPrice = IF q + signed = 0 THEN Zero ELSE pos.avgEntryPrice
      /\ new.realizedPnl = Plus(pos.realizedPnl, Realized(pos, Abs(signed), price))
  BY <1>2 DEF Reduce
<1> HIDE DEF new
<1>5. Is(new.realizedPnl, c * d + n * (q + signed), d)
  <2>1. (pos.quantity > 0 /\ signed <= 0) \/ (pos.quantity <= 0 /\ signed >= 0)
    BY <1>2 DEF SameSign
  <2> QED
    BY <1>1, <1>2, <1>3, <1>4, <2>1, CloseIs
<1>6. CASE q + signed = 0
  <2>1. Is(new.realizedPnl, c * d, d)
    BY <1>5, <1>6
  <2>2. Is(new.realizedPnl, c, 1)
    BY <1>1, <2>1, IsReduced
  <2>3. Is(Zero, 0, 1)
    BY DEF Is, Zero, Fraction
  <2>4. Is(new.avgEntryPrice, 0, 1)
    BY <1>4, <1>6, <2>3
  <2>5. Sound(new, c)
    BY <1>4, <2>2, <2>4, SoundFlat
  <2> QED
    BY <1>3, <2>5 DEF new
<1>7. CASE q + signed # 0
  <2>1. Sound(new, c)
    BY <1>1, <1>4, <1>5, <1>7, SoundBy
  <2> QED
    BY <1>3, <2>1 DEF new
<1> QED
  BY <1>6, <1>7

LEMMA FlipSound ==
  ASSUME NEW pos, Shaped(pos), NEW cash \in Int, Sound(pos, cash),
         NEW signed \in Int, NEW price \in Nat, pos.quantity # 0
  PROVE  Sound(Flip(pos, signed, price), cash - signed * price)
<1>1. PICK n \in Int, d \in Nat :
        d # 0 /\ Is(pos.avgEntryPrice, n, d) /\ Is(pos.realizedPnl, cash * d + n * pos.quantity, d)
  BY DEF Sound
<1>2. PICK q \in Int : q = pos.quantity
  BY DEF Shaped
<1>3. PICK x \in Int : x = -q
  OBVIOUS
<1>4. Abs(q) = Abs(x)
  BY <1>3 DEF Abs
<1> DEFINE new == Flip(pos, signed, price)
<1>5. /\ new.quantity = q + signed /\ new.avgEntryPrice = Whole(price)
      /\ new.realizedPnl = Plus(pos.realizedPnl, Realized(pos, Abs(x), price))
  BY <1>2, <1>4 DEF Flip
<1> HIDE DEF new
<1>6. Is(new.realizedPnl, (cash - x * price) * d + n * (q + x), d)
  <2>1. (pos.quantity > 0 /\ x <= 0) \/ (pos.quantity <= 0 /\ x >= 0)
    BY <1>2, <1>3
  <2> QED
    BY <1>1, <1>2, <1>5, <2>1, CloseIs
<1>7. PICK c \in Int : c = cash - x * price
  OBVIOUS
<1>8. n * (q + x) = 0
  BY <1>3
<1>9. Is(new.realizedPnl, c * d, d)
  BY <1>6, <1>7, <1>8
<1>10. Is(new.realizedPnl, c, 1)
  BY <1>1, <1>9, IsReduced
<1>11. c = (cash - signed * price) * 1 + price * (q + signed)
  BY <1>3, <1>7
<1>12. Is(Whole(price), price * 1, 1) /\ price * 1 = price
  BY WholeIs
<1>13. PICK e \in Int : e = cash - signed * price
  OBVIOUS
<1>14. Is(new.realizedPnl, e + price * new.quantity, 1)
  BY <1>5, <1>10, <1>11, <1>13
<1>15. Is(new.avgEntryPrice, price, 1)
  BY <1>5, <1>12
<1>16. Sound(new, e)
  BY <1>14, <1>15, SoundByWhole
<1> QED
  BY <1>13, <1>16 DEF new

\* A fill of any size and side keeps the books sound.
LEMMA UpdateSound ==
  ASSUME NEW pos, Shaped(pos), NEW cash \in Int, Sound(pos, cash),
         NEW signed \in Int, NEW price \in Nat, signed # 0
  PROVE  Sound(UpdatePosition(pos, signed, price), cash - signed * price)
<1>1. CASE pos.quantity = 0
  BY <1>1, OpenSound DEF UpdatePosition, SameSign
<1>2. CASE SameSign(pos.quantity, signed)
  BY <1>2, AddToSound DEF UpdatePosition, SameSign
<1>3. CASE ~ SameSign(pos.quantity, signed) /\ pos.quantity # 0 /\ Abs(signed) <= Abs(pos.quantity)
  BY <1>3, ReduceSound DEF UpdatePosition
<1>4. CASE ~ SameSign(pos.quantity, signed) /\ pos.quantity # 0 /\ ~ (Abs(signed) <= Abs(pos.quantity))
  BY <1>4, FlipSound DEF UpdatePosition
<1> QED
  BY <1>1, <1>2, <1>3, <1>4

\* The profit of a position, realized and not, is the money of its instrument.
LEMMA ProfitIs ==
  ASSUME NEW pos, Shaped(pos), NEW cash \in Int, Sound(pos, cash), NEW price \in Nat
  PROVE  Plus(pos.realizedPnl, Realized(pos, Abs(pos.quantity), price))
           = Whole(cash + pos.quantity * price)
<1>1. PICK n \in Int, d \in Nat :
        d # 0 /\ Is(pos.avgEntryPrice, n, d) /\ Is(pos.realizedPnl, cash * d + n * pos.quantity, d)
  BY DEF Sound
<1>2. PICK q \in Int : q = pos.quantity
  BY DEF Shaped
<1>3. PICK x \in Int : x = -q
  OBVIOUS
<1>4. Abs(q) = Abs(x)
  BY <1>3 DEF Abs
<1>5. Is(Realized(pos, Abs(x), price), (n - price * d) * x, d)
  <2>1. (pos.quantity > 0 /\ x <= 0) \/ (pos.quantity <= 0 /\ x >= 0)
    BY <1>2, <1>3
  <2>2. pos.quantity \in Int /\ price \in Int
    BY <1>2
  <2> QED
    BY <1>1, <2>1, <2>2, RealizedIs
<1>6. PICK u \in Int : u = cash * d + n * q
  OBVIOUS
<1>7. PICK v \in Int : v = (n - price * d) * x
  OBVIOUS
<1>8. PICK w \in Int : w = cash + q * price
  OBVIOUS
<1>9. u + v = w * d
  BY <1>3, <1>6, <1>7, <1>8
<1>10. Is(pos.realizedPnl, u, d) /\ Is(Realized(pos, Abs(x), price), v, d)
  BY <1>1, <1>2, <1>5, <1>6, <1>7
<1>11. Plus(pos.realizedPnl, Realized(pos, Abs(x), price)) = Whole(w)
  BY <1>1, <1>9, <1>10, PlusWhole
<1> QED
  BY <1>2, <1>4, <1>8, <1>11

LEMMA MaxIs ==
  ASSUME NEW m \in Nat, NEW s \in SUBSET (1 .. m + 1), m + 1 \in s
  PROVE  Max(s) = m + 1
<1>1. \A y \in s : y \in Int /\ m + 1 >= y
  OBVIOUS
<1>2. \A x \in s : (\A y \in s : x >= y) => x = m + 1
  BY <1>1
<1> QED
  BY <1>1, <1>2 DEF Max

LEMMA MinusFraction ==
  ASSUME NEW a \in Fraction, NEW b \in Fraction
  PROVE  Reduced(Minus(a, b)) /\ Minus(a, b) \in Fraction
<1>1. PICK t : t = Times(b, -1)
  OBVIOUS
<1>2. Reduced(t)
  BY <1>1, TimesReduced
<1>3. t \in Fraction
  BY <1>2 DEF Reduced
<1>4. Minus(a, b) = Plus(a, t)
  BY <1>1 DEF Minus, Plus
<1>5. Reduced(Plus(a, t))
  BY <1>3, PlusReduced
<1>6. Plus(a, t) \in Fraction
  BY <1>5 DEF Reduced
<1> QED
  BY <1>4, <1>5, <1>6

-------------------------------------------------------------------------------
(* Recursion over the indices of a sequence *)

FoldsUp(f, n, base, G) == \A s \in SUBSET (1 .. n) :
  IF s = {} THEN f[s] = base
  ELSE Max(s) \in s /\ f[s] = G[<<f[s \ {Max(s)}], Max(s)>>]

\* A fold from the left has a value for each set of indices.
LEMMA FoldExists ==
  ASSUME NEW n \in Nat, NEW X, NEW base \in X, NEW G \in [X \X (1 .. n) -> X]
  PROVE  \E f \in [SUBSET (1 .. n) -> X] : FoldsUp(f, n, base, G)
<1> DEFINE Solves(f, m) == \A s \in SUBSET (1 .. m) :
             IF s = {} THEN f[s] = base
             ELSE Max(s) \in s /\ f[s] = G[<<f[s \ {Max(s)}], Max(s)>>]
           Have(m) == \E f \in [SUBSET (1 .. m) -> X] : Solves(f, m)
           Lacking == {m \in 0 .. n : ~ Have(m)}
<1>1. Have(0)
  <2> DEFINE f == [s \in SUBSET (1 .. 0) |-> base]
  <2>1. f \in [SUBSET (1 .. 0) -> X] /\ Solves(f, 0)
    <3>1. \A s \in SUBSET (1 .. 0) : s = {}
      OBVIOUS
    <3> QED
      BY <3>1
  <2> QED
    BY <2>1
<1>2. ASSUME NEW m \in Nat, m + 1 <= n, Have(m)
      PROVE  Have(m + 1)
  <2>1. PICK f \in [SUBSET (1 .. m) -> X] : Solves(f, m)
    BY <1>2
  <2> DEFINE g == [s \in SUBSET (1 .. m + 1) |->
                     IF m + 1 \in s THEN G[<<f[s \ {m + 1}], m + 1>>] ELSE f[s]]
  <2>2. \A s \in SUBSET (1 .. m + 1) : s \ {m + 1} \in SUBSET (1 .. m)
    <3>1. \A x \in 1 .. m + 1 : x # m + 1 => x \in 1 .. m
      OBVIOUS
    <3> QED
      BY <3>1
  <2>3. \A s \in SUBSET (1 .. m + 1) : m + 1 \notin s => s \in SUBSET (1 .. m)
    BY <2>2
  <2>4. \A s \in SUBSET (1 .. m) : m + 1 \notin s /\ s \in SUBSET (1 .. m + 1)
    OBVIOUS
  <2>5. m + 1 \in 1 .. n
    BY <1>2
  <2>6. g \in [SUBSET (1 .. m + 1) -> X]
    <3> SUFFICES ASSUME NEW s \in SUBSET (1 .. m + 1)
                 PROVE  (IF m + 1 \in s THEN G[<<f[s \ {m + 1}], m + 1>>] ELSE f[s]) \in X
      OBVIOUS
    <3>1. CASE m + 1 \in s
      <4>1. f[s \ {m + 1}] \in X
        BY <2>1, <2>2
      <4>2. <<f[s \ {m + 1}], m + 1>> \in X \X (1 .. n)
        BY <2>5, <4>1
      <4> QED
        BY <3>1, <4>2
    <3>2. CASE m + 1 \notin s
      BY <2>1, <2>3, <3>2
    <3> QED
      BY <3>1, <3>2
  <2>7. ASSUME NEW s \in SUBSET (1 .. m + 1)
        PROVE  IF s = {} THEN g[s] = base
               ELSE Max(s) \in s /\ g[s] = G[<<g[s \ {Max(s)}], Max(s)>>]
    <3>1. CASE m + 1 \in s
      <4>1. Max(s) = m + 1
        BY <3>1, MaxIs
      <4>2. PICK r \in SUBSET (1 .. m) : r = s \ {m + 1}
        BY <2>2
      <4>3. g[r] = f[r] /\ g[s] = G[<<f[r], m + 1>>]
        BY <2>4, <3>1, <4>2
      <4> HIDE DEF g
      <4> QED
        BY <3>1, <4>1, <4>2, <4>3
    <3>2. CASE m + 1 \notin s
      <4>1. s \in SUBSET (1 .. m) /\ g[s] = f[s]
        BY <2>3, <3>2
      <4>2. PICK r \in SUBSET (1 .. m) : r = s \ {Max(s)}
        BY <4>1
      <4>3. g[r] = f[r]
        BY <2>4, <4>2
      <4>4. IF s = {} THEN f[s] = base ELSE Max(s) \in s /\ f[s] = G[<<f[r], Max(s)>>]
        BY <2>1, <4>1, <4>2
      <4> HIDE DEF g
      <4> QED
        BY <4>1, <4>2, <4>3, <4>4
    <3> QED
      BY <3>1, <3>2
  <2> HIDE DEF g
  <2>8. Solves(g, m + 1)
    BY <2>7
  <2> QED
    BY <2>6, <2>8
<1> HIDE DEF Have
<1>3. Lacking = {}
  <2> SUFFICES ASSUME Lacking # {} PROVE FALSE
    OBVIOUS
  <2>1. PICK m \in Lacking : \A k \in Lacking : m <= k
    <3>1. Lacking \subseteq Nat
      OBVIOUS
    <3> HIDE DEF Lacking
    <3> QED
      BY <3>1, LeastNat
  <2>2. m # 0 /\ m \in Nat /\ m <= n
    BY <1>1
  <2>3. m - 1 \in 0 .. n /\ m - 1 \notin Lacking /\ (m - 1) + 1 = m /\ m - 1 \in Nat
    BY <2>1, <2>2
  <2>4. Have(m - 1)
    BY <2>3
  <2>5. Have((m - 1) + 1)
    BY <1>2, <2>2, <2>3, <2>4
  <2> QED
    BY <2>3, <2>5
<1>4. Have(n)
  BY <1>3
<1> QED
  BY <1>4 DEF Have, FoldsUp

LEMMA MaxUpTo ==
  ASSUME NEW k \in Nat, k # 0
  PROVE  1 .. k # {} /\ Max(1 .. k) = k /\ (1 .. k) \ {k} = 1 .. k - 1
<1>1. PICK m \in Nat : m + 1 = k /\ m = k - 1
  <2>1. k - 1 \in Nat /\ (k - 1) + 1 = k
    OBVIOUS
  <2> QED
    BY <2>1
<1>2. m + 1 \in 1 .. m + 1
  OBVIOUS
<1>3. Max(1 .. m + 1) = m + 1
  BY <1>2, MaxIs
<1>4. (1 .. k) \ {k} = 1 .. k - 1
  OBVIOUS
<1> QED
  BY <1>1, <1>2, <1>3, <1>4

\* The values f[0] to f[n] of a recursion.
Recurs(f, n, base, G) == f[0] = base /\ \A i \in 1 .. n : f[i] = G[<<f[i - 1], i>>]

LEMMA RecursionExists ==
  ASSUME NEW n \in Nat, NEW X, NEW base \in X, NEW G \in [X \X (1 .. n) -> X]
  PROVE  \E f \in [0 .. n -> X] : Recurs(f, n, base, G)
<1>1. PICK h \in [SUBSET (1 .. n) -> X] : FoldsUp(h, n, base, G)
  BY FoldExists
<1> DEFINE f == [i \in 0 .. n |-> h[1 .. i]]
<1>2. \A i \in 0 .. n : 1 .. i \in SUBSET (1 .. n)
  OBVIOUS
<1>3. f \in [0 .. n -> X]
  BY <1>2
<1>4. f[0] = base
  <2>1. 1 .. 0 = {} /\ 1 .. 0 \in SUBSET (1 .. n)
    OBVIOUS
  <2>2. h[1 .. 0] = base
    BY <1>1, <2>1 DEF FoldsUp
  <2> QED
    BY <2>2
<1>5. ASSUME NEW i \in 1 .. n PROVE f[i] = G[<<f[i - 1], i>>]
  <2>1. 1 .. i # {} /\ Max(1 .. i) = i /\ (1 .. i) \ {i} = 1 .. i - 1
    BY MaxUpTo
  <2>2. 1 .. i \in SUBSET (1 .. n)
    BY <1>2
  <2>3. h[1 .. i] = G[<<h[1 .. i - 1], i>>]
    BY <1>1, <2>1, <2>2 DEF FoldsUp
  <2>4. f[i] = h[1 .. i] /\ f[i - 1] = h[1 .. i - 1]
    OBVIOUS
  <2> QED
    BY <2>3, <2>4
<1> HIDE DEF f
<1> QED
  BY <1>3, <1>4, <1>5 DEF Recurs

\* What holds at zero and is kept by each step up to n holds up to n.
LEMMA StepsUp ==
  ASSUME NEW n \in Nat, NEW S, 0 \in S, \A i \in 0 .. n - 1 : i \in S => i + 1 \in S
  PROVE  0 .. n \subseteq S
<1> DEFINE Bad == {i \in 0 .. n : i \notin S}
<1>1. Bad \subseteq Nat
  OBVIOUS
<1>2. SUFFICES ASSUME Bad # {} PROVE FALSE
  OBVIOUS
<1>3. PICK m \in Bad : \A k \in Bad : m <= k
  <2> HIDE DEF Bad
  <2> QED
    BY <1>1, <1>2, LeastNat
<1>4. m # 0 /\ m \in 0 .. n /\ m \notin S
  OBVIOUS
<1>5. m - 1 \in 0 .. n - 1 /\ (m - 1) + 1 = m /\ m - 1 \in 0 .. n
  BY <1>4
<1>6. m - 1 \in S
  BY <1>3, <1>5
<1> QED
  BY <1>4, <1>5, <1>6

\* The values of a fold at the prefixes are those of a recursion.
FoldsTyped(h, n, X, base, G) == \A s \in SUBSET (1 .. n) :
  /\ s = {} => h[s] = base
  /\ s # {} /\ h[s \ {Max(s)}] \in X => h[s] = G[<<h[s \ {Max(s)}], Max(s)>>]

RecursTo(f, n, base, G, last) == Recurs(f, n, base, G) /\ f[n] = last

LEMMA PrefixesRecur ==
  ASSUME NEW n \in Nat, NEW X, NEW base \in X, NEW G \in [X \X (1 .. n) -> X],
         NEW h, FoldsTyped(h, n, X, base, G)
  PROVE  \E f \in [0 .. n -> X] : RecursTo(f, n, base, G, h[1 .. n])
<1> DEFINE f == [i \in 0 .. n |-> h[1 .. i]]
           S == {i \in 0 .. n : h[1 .. i] \in X}
<1>1. \A i \in 0 .. n : 1 .. i \in SUBSET (1 .. n)
  OBVIOUS
<1>2. h[1 .. 0] = base
  <2>1. 1 .. 0 = {} /\ 1 .. 0 \in SUBSET (1 .. n)
    OBVIOUS
  <2> QED
    BY <2>1 DEF FoldsTyped
<1>3. ASSUME NEW i \in 1 .. n, h[1 .. i - 1] \in X
      PROVE  h[1 .. i] = G[<<h[1 .. i - 1], i>>] /\ h[1 .. i] \in X
  <2>1. 1 .. i # {} /\ Max(1 .. i) = i /\ (1 .. i) \ {i} = 1 .. i - 1
    <3>1. i \in Nat /\ i # 0
      OBVIOUS
    <3> QED
      BY <3>1, MaxUpTo
  <2>2. 1 .. i \in SUBSET (1 .. n)
    BY <1>1
  <2>3. h[1 .. i] = G[<<h[1 .. i - 1], i>>]
    BY <1>3, <2>1, <2>2 DEF FoldsTyped
  <2>4. <<h[1 .. i - 1], i>> \in X \X (1 .. n)
    BY <1>3
  <2> QED
    BY <2>3, <2>4
<1>4. 0 .. n \subseteq S
  <2>1. 0 \in S
    BY <1>2
  <2>2. ASSUME NEW i \in 0 .. n - 1, i \in S PROVE i + 1 \in S
    <3>1. PICK k \in 1 .. n : k = i + 1 /\ k - 1 = i
      <4>1. i + 1 \in 1 .. n /\ (i + 1) - 1 = i
        OBVIOUS
      <4> QED
        BY <4>1
    <3>2. h[1 .. k] \in X
      BY <1>3, <2>2, <3>1
    <3> QED
      BY <3>1, <3>2
  <2> HIDE DEF S
  <2> QED
    BY <2>1, <2>2, StepsUp
<1>5. f \in [0 .. n -> X]
  BY <1>4
<1>6. f[0] = base
  BY <1>2
<1>7. ASSUME NEW i \in 1 .. n PROVE f[i] = G[<<f[i - 1], i>>]
  <2>1. i - 1 \in 0 .. n /\ i \in 0 .. n
    OBVIOUS
  <2>2. f[i - 1] = h[1 .. i - 1] /\ f[i] = h[1 .. i] /\ h[1 .. i - 1] \in X
    BY <1>4, <2>1
  <2> QED
    BY <1>3, <2>2
<1>8. f[n] = h[1 .. n]
  OBVIOUS
<1> HIDE DEF f
<1> QED
  BY <1>5, <1>6, <1>7, <1>8 DEF Recurs, RecursTo

-------------------------------------------------------------------------------
(* The order of fractions *)

LEMMA FractionParts ==
  ASSUME NEW a \in Fraction
  PROVE  a[1] \in Int /\ a[2] \in Nat /\ a[2] > 0
BY DEF Fraction

LEMMA ScaleLess ==
  ASSUME NEW x \in Int, NEW y \in Int, NEW k \in Int, k > 0
  PROVE  x * k <= y * k <=> x <= y
<1>1. CASE x <= y
  <2>1. PICK z \in Nat : y = x + z
    <3>1. y - x \in Nat /\ y = x + (y - x)
      BY <1>1
    <3> QED
      BY <3>1
  <2>2. y * k = x * k + z * k /\ z * k >= 0
    BY <2>1
  <2> QED
    BY <1>1, <2>2
<1>2. CASE ~ (x <= y)
  <2>1. PICK z \in Nat : x = y + z /\ z > 0
    <3>1. x - y \in Nat /\ x = y + (x - y) /\ x - y > 0
      BY <1>2
    <3> QED
      BY <3>1
  <2>2. x * k = y * k + z * k /\ z * k > 0
    BY <2>1
  <2> QED
    BY <1>2, <2>2
<1> QED
  BY <1>1, <1>2

LEMMA LessEqIs ==
  ASSUME NEW a, NEW b, NEW n \in Int, NEW m \in Int, NEW d \in Int, d > 0, Is(a, n, d), Is(b, m, d)
  PROVE  LessEq(a, b) <=> n <= m
<1>1. PICK x \in Int : x = a[1]
  BY FractionParts DEF Is
<1>2. PICK y \in Nat : y = a[2] /\ y > 0
  BY FractionParts DEF Is
<1>3. PICK u \in Int : u = b[1]
  BY FractionParts DEF Is
<1>4. PICK v \in Nat : v = b[2] /\ v > 0
  BY FractionParts DEF Is
<1>5. x * d = n * y /\ u * d = m * v
  BY <1>1, <1>2, <1>3, <1>4 DEF Is
<1>6. PICK k \in Int : k = y * v /\ k > 0
  BY <1>2, <1>4
<1>7. (x * v) * d = n * k /\ (u * y) * d = m * k
  <2>1. (x * v) * d = (x * d) * v /\ (u * y) * d = (u * d) * y
    OBVIOUS
  <2>2. (n * y) * v = n * (y * v) /\ (m * v) * y = m * (y * v)
    OBVIOUS
  <2> QED
    BY <1>5, <1>6, <2>1, <2>2
<1>8. PICK p \in Int : p = x * v
  OBVIOUS
<1>9. PICK q \in Int : q = u * y
  OBVIOUS
<1>10. p <= q <=> p * d <= q * d
  BY ScaleLess
<1>11. n <= m <=> n * k <= m * k
  BY <1>6, ScaleLess
<1>12. LessEq(a, b) <=> p <= q
  BY <1>1, <1>2, <1>3, <1>4, <1>8, <1>9 DEF LessEq
<1> QED
  BY <1>7, <1>8, <1>9, <1>10, <1>11, <1>12

LEMMA IsItself ==
  ASSUME NEW a \in Fraction
  PROVE  a[1] \in Int /\ a[2] \in Int /\ a[2] > 0 /\ Is(a, a[1], a[2])
BY FractionParts DEF Is

\* The same value with a larger denominator.
LEMMA Expand ==
  ASSUME NEW a, NEW n \in Int, NEW d \in Int, Is(a, n, d), NEW k \in Int
  PROVE  Is(a, n * k, d * k)
<1>1. PICK x \in Int : x = a[1]
  BY FractionParts DEF Is
<1>2. PICK y \in Int : y = a[2]
  BY FractionParts DEF Is
<1>3. x * d = n * y
  BY <1>1, <1>2 DEF Is
<1>4. x * (d * k) = (n * k) * y
  BY <1>3
<1> QED
  BY <1>1, <1>2, <1>4 DEF Is

\* Any two and any three fractions have a common denominator.
LEMMA CommonTerms ==
  ASSUME NEW a \in Fraction, NEW b \in Fraction
  PROVE  \E n, m, d \in Int : d > 0 /\ Is(a, n, d) /\ Is(b, m, d)
<1>1. PICK x \in Int : x = a[1]
  BY IsItself
<1>2. PICK y \in Int : y = a[2] /\ y > 0
  BY IsItself
<1>3. PICK u \in Int : u = b[1]
  BY IsItself
<1>4. PICK v \in Int : v = b[2] /\ v > 0
  BY IsItself
<1>5. Is(a, x, y) /\ Is(b, u, v)
  BY <1>1, <1>2, <1>3, <1>4, IsItself
<1>6. Is(a, x * v, y * v) /\ Is(b, u * y, v * y)
  BY <1>5, Expand
<1>7. PICK d \in Int : d = y * v /\ d = v * y /\ d > 0
  BY <1>2, <1>4
<1>8. PICK n \in Int : n = x * v
  OBVIOUS
<1>9. PICK m \in Int : m = u * y
  OBVIOUS
<1>10. d > 0 /\ Is(a, n, d) /\ Is(b, m, d)
  BY <1>6, <1>7, <1>8, <1>9
<1> QED
  BY <1>10, Zenon

LEMMA CommonTermsOfThree ==
  ASSUME NEW a \in Fraction, NEW b \in Fraction, NEW c \in Fraction
  PROVE  \E n, m, k, d \in Int : d > 0 /\ Is(a, n, d) /\ Is(b, m, d) /\ Is(c, k, d)
<1>1. PICK x, y, e \in Int : e > 0 /\ Is(a, x, e) /\ Is(b, y, e)
  BY CommonTerms
<1>2. PICK u \in Int : u = c[1]
  BY IsItself
<1>3. PICK v \in Int : v = c[2] /\ v > 0
  BY IsItself
<1>4. Is(c, u, v)
  BY <1>2, <1>3, IsItself
<1>5. Is(a, x * v, e * v) /\ Is(b, y * v, e * v) /\ Is(c, u * e, v * e)
  BY <1>1, <1>4, Expand
<1>6. PICK d \in Int : d = e * v /\ d = v * e /\ d > 0
  BY <1>1, <1>3
<1>7. PICK n \in Int : n = x * v
  OBVIOUS
<1>8. PICK m \in Int : m = y * v
  OBVIOUS
<1>9. PICK k \in Int : k = u * e
  OBVIOUS
<1>10. d > 0 /\ Is(a, n, d) /\ Is(b, m, d) /\ Is(c, k, d)
  BY <1>5, <1>6, <1>7, <1>8, <1>9
<1> QED
  BY <1>10, Zenon

LEMMA LessEqOrder ==
  ASSUME NEW a \in Fraction, NEW b \in Fraction
  PROVE  LessEq(a, a) /\ (LessEq(a, b) \/ LessEq(b, a))
<1>1. PICK n, m, d \in Int : d > 0 /\ Is(a, n, d) /\ Is(b, m, d)
  BY CommonTerms
<1>2. LessEq(a, a) <=> n <= n
  BY <1>1, LessEqIs
<1>3. LessEq(a, b) <=> n <= m
  BY <1>1, LessEqIs
<1>4. LessEq(b, a) <=> m <= n
  BY <1>1, LessEqIs
<1> QED
  BY <1>2, <1>3, <1>4

LEMMA LessEqTransitive ==
  ASSUME NEW a \in Fraction, NEW b \in Fraction, NEW c \in Fraction, LessEq(a, b), LessEq(b, c)
  PROVE  LessEq(a, c)
<1>1. PICK n, m, k, d \in Int : d > 0 /\ Is(a, n, d) /\ Is(b, m, d) /\ Is(c, k, d)
  BY CommonTermsOfThree
<1>2. n <= m
  BY <1>1, LessEqIs
<1>3. m <= k
  BY <1>1, LessEqIs
<1>4. LessEq(a, c) <=> n <= k
  BY <1>1, LessEqIs
<1> QED
  BY <1>2, <1>3, <1>4

LEMMA GreatestIs ==
  ASSUME NEW a \in Fraction, NEW b \in Fraction
  PROVE  /\ Greatest(a, b) \in {a, b} /\ Greatest(a, b) \in Fraction
         /\ LessEq(a, Greatest(a, b)) /\ LessEq(b, Greatest(a, b))
BY LessEqOrder DEF Greatest

LEMMA QuotientIs ==
  ASSUME NEW a, NEW b, NEW n \in Int, NEW m \in Int, NEW d \in Int, NEW e \in Int, d # 0, e # 0,
         Is(a, n, d), Is(b, m, e), b[1] # 0
  PROVE  Is(Quotient(a, b), n * e, d * m) /\ Reduced(Quotient(a, b))
<1>1. PICK x \in Int : x = a[1]
  BY FractionParts DEF Is
<1>2. PICK y \in Int : y = a[2] /\ y > 0
  BY FractionParts DEF Is
<1>3. PICK u \in Int : u = b[1] /\ u # 0
  BY FractionParts DEF Is
<1>4. PICK v \in Int : v = b[2] /\ v > 0
  BY FractionParts DEF Is
<1>5. x * d = n * y /\ u * e = m * v
  BY <1>1, <1>2, <1>3, <1>4 DEF Is
<1>6. (x * v) * (d * m) = (n * e) * (y * u)
  <2>1. (x * v) * (d * m) = (x * d) * (m * v) /\ (n * e) * (y * u) = (n * y) * (u * e)
    OBVIOUS
  <2> QED
    BY <1>5, <2>1
<1>7. PICK h \in Int : h = n * e
  OBVIOUS
<1>8. PICK k \in Int : k = d * m
  OBVIOUS
<1>9. PICK s \in Int : s = x * v
  OBVIOUS
<1>10. PICK t \in Int : t = y * u /\ (u > 0 <=> t > 0) /\ t # 0
  BY <1>2, <1>3
<1>11. s * k = h * t
  BY <1>6, <1>7, <1>8, <1>9, <1>10
<1>12. CASE u > 0
  <2>1. PICK f : f = <<s, t>>
    OBVIOUS
  <2>2. f \in Fraction /\ f[1] = s /\ f[2] = t
    BY <1>10, <1>12, <2>1 DEF Fraction
  <2>3. Is(f, h, k)
    BY <1>11, <2>2 DEF Is
  <2>4. Quotient(a, b) = Lowest[f]
    BY <1>1, <1>2, <1>3, <1>4, <1>9, <1>10, <1>12, <2>1 DEF Quotient
  <2> QED
    BY <1>7, <1>8, <2>2, <2>3, <2>4, LowestSame, LowestReduced
<1>13. CASE u < 0
  <2>1. PICK f : f = <<-s, -t>>
    OBVIOUS
  <2>2. f \in Fraction /\ f[1] = -s /\ f[2] = -t
    BY <1>10, <1>13, <2>1 DEF Fraction
  <2>3. (-s) * k = h * (-t)
    BY <1>11
  <2>4. Is(f, h, k)
    BY <2>2, <2>3 DEF Is
  <2>5. Quotient(a, b) = Lowest[f]
    <3>1. -x * v = -s /\ -y * u = -t
      BY <1>9, <1>10
    <3> QED
      BY <1>1, <1>2, <1>3, <1>4, <1>13, <2>1, <3>1 DEF Quotient
  <2> QED
    BY <1>7, <1>8, <2>2, <2>4, <2>5, LowestSame, LowestReduced
<1> QED
  BY <1>3, <1>12, <1>13

LEMMA ProductIs ==
  ASSUME NEW a, NEW b, NEW n \in Int, NEW m \in Int, NEW d \in Int, NEW e \in Int,
         Is(a, n, d), Is(b, m, e)
  PROVE  Is(Product(a, b), n * m, d * e) /\ Reduced(Product(a, b))
<1>1. PICK x \in Int : x = a[1]
  BY FractionParts DEF Is
<1>2. PICK y \in Int : y = a[2] /\ y > 0
  BY FractionParts DEF Is
<1>3. PICK u \in Int : u = b[1]
  BY FractionParts DEF Is
<1>4. PICK v \in Int : v = b[2] /\ v > 0
  BY FractionParts DEF Is
<1>5. x * d = n * y /\ u * e = m * v
  BY <1>1, <1>2, <1>3, <1>4 DEF Is
<1>6. (x * u) * (d * e) = (n * m) * (y * v)
  <2>1. (x * u) * (d * e) = (x * d) * (u * e) /\ (n * m) * (y * v) = (n * y) * (m * v)
    OBVIOUS
  <2> QED
    BY <1>5, <2>1
<1>7. PICK h \in Int : h = n * m
  OBVIOUS
<1>8. PICK k \in Int : k = d * e
  OBVIOUS
<1>9. PICK s \in Int : s = x * u
  OBVIOUS
<1>10. PICK t \in Int : t = y * v /\ t > 0
  BY <1>2, <1>4
<1>11. PICK f : f = <<s, t>>
  OBVIOUS
<1>12. f \in Fraction /\ f[1] = s /\ f[2] = t
  BY <1>10, <1>11 DEF Fraction
<1>13. Is(f, h, k)
  BY <1>6, <1>7, <1>8, <1>9, <1>10, <1>12 DEF Is
<1>14. Product(a, b) = Lowest[f]
  BY <1>1, <1>2, <1>3, <1>4, <1>9, <1>10, <1>11 DEF Product
<1> QED
  BY <1>7, <1>8, <1>12, <1>13, <1>14, LowestSame, LowestReduced

\* The results of the operations are in lowest terms.
LEMMA PlusFraction ==
  ASSUME NEW a \in Fraction, NEW b \in Fraction
  PROVE  Plus(a, b) \in Fraction
BY PlusReduced DEF Reduced

LEMMA ProductFraction ==
  ASSUME NEW a \in Fraction, NEW b \in Fraction
  PROVE  Product(a, b) \in Fraction /\ Reduced(Product(a, b))
<1>1. PICK n \in Int : n = a[1]
  BY IsItself
<1>2. PICK d \in Int : d = a[2]
  BY IsItself
<1>3. PICK m \in Int : m = b[1]
  BY IsItself
<1>4. PICK e \in Int : e = b[2]
  BY IsItself
<1>5. Is(a, n, d) /\ Is(b, m, e)
  BY <1>1, <1>2, <1>3, <1>4, IsItself
<1>6. Reduced(Product(a, b))
  BY <1>5, ProductIs
<1> QED
  BY <1>6 DEF Reduced

LEMMA SignIs ==
  ASSUME NEW a, NEW n \in Int, NEW d \in Int, d > 0, Is(a, n, d)
  PROVE  (a[1] > 0 <=> n > 0) /\ (a[1] = 0 <=> n = 0) /\ (a[1] >= 0 <=> n >= 0)
<1>1. PICK x \in Int : x = a[1]
  BY FractionParts DEF Is
<1>2. PICK y \in Int : y = a[2] /\ y > 0
  BY FractionParts DEF Is
<1>3. x * d = n * y
  BY <1>1, <1>2 DEF Is
<1>4. PICK z \in Int : z = x * d /\ z = n * y
  BY <1>3
<1>5. (x > 0 <=> z > 0) /\ (x = 0 <=> z = 0)
  BY <1>4
<1>6. (n > 0 <=> z > 0) /\ (n = 0 <=> z = 0)
  BY <1>2, <1>4
<1> QED
  BY <1>1, <1>5, <1>6

LEMMA LessZero ==
  ASSUME NEW a \in Fraction
  PROVE  (Less(Zero, a) <=> a[1] > 0) /\ (Less(a, Zero) <=> a[1] < 0)
<1>1. PICK x \in Int : x = a[1]
  BY FractionParts
<1>2. PICK y \in Int : y = a[2]
  BY FractionParts
<1> QED
  BY <1>1, <1>2 DEF Less, LessEq, Zero

LEMMA ZeroIs ==
  ASSUME NEW a, Reduced(a), a[1] = 0
  PROVE  a = Zero
<1>1. Reduced(Zero)
  BY WholeReduced DEF Zero, Whole
<1>2. a[1] * Zero[2] = Zero[1] * a[2]
  <2>1. a[2] \in Int
    BY FractionParts DEF Reduced
  <2> QED
    BY <2>1 DEF Zero
<1> QED
  BY <1>1, <1>2, ReducedSame

\* The same value with a smaller denominator.
LEMMA Shrink ==
  ASSUME NEW a, NEW n \in Int, NEW d \in Int, NEW k \in Int, k # 0,
         NEW u \in Int, u = n * k, NEW v \in Int, v = d * k, Is(a, u, v)
  PROVE  Is(a, n, d)
<1>1. PICK x \in Int : x = a[1]
  BY FractionParts DEF Is
<1>2. PICK y \in Int : y = a[2]
  BY FractionParts DEF Is
<1>3. (x * d) * k = (n * y) * k
  <2>1. x * (d * k) = (n * k) * y
    BY <1>1, <1>2 DEF Is
  <2>2. x * (d * k) = (x * d) * k /\ (n * k) * y = (n * y) * k
    OBVIOUS
  <2> QED
    BY <2>1, <2>2
<1>4. x * d \in Int /\ n * y \in Int
  OBVIOUS
<1>5. x * d = n * y
  BY <1>3, <1>4, Cancel
<1> QED
  BY <1>1, <1>2, <1>5 DEF Is

\* What is lost from a to b, as a part of a.
LEMMA FallIs ==
  ASSUME NEW a, NEW b, NEW n \in Int, NEW m \in Int, NEW d \in Int, d > 0, n # 0,
         Is(a, n, d), Is(b, m, d)
  PROVE  Is(Quotient(Minus(a, b), a), n - m, n) /\ Reduced(Quotient(Minus(a, b), a))
<1>1. PICK k \in Int : k = n - m
  OBVIOUS
<1>2. Is(Minus(a, b), k, d)
  BY <1>1, MinusIs
<1>3. a[1] # 0
  BY SignIs
<1>4. PICK f : f = Quotient(Minus(a, b), a)
  OBVIOUS
<1>5. Is(f, k * d, d * n) /\ Reduced(f)
  BY <1>2, <1>3, <1>4, QuotientIs
<1>6. PICK u \in Int : u = k * d
  OBVIOUS
<1>7. PICK v \in Int : v = d * n /\ v = n * d
  OBVIOUS
<1>8. Is(f, k, n)
  <2>1. Is(f, u, v)
    BY <1>5, <1>6, <1>7
  <2> QED
    BY <1>6, <1>7, <2>1, Shrink
<1> QED
  BY <1>1, <1>4, <1>5, <1>8

\* From a higher value the same fall end is a larger part.
LEMMA FallGrows ==
  ASSUME NEW q \in Fraction, NEW p \in Fraction, NEW e \in Fraction,
         q[1] > 0, e[1] > 0, LessEq(q, p)
  PROVE  LessEq(Quotient(Minus(q, e), q), Quotient(Minus(p, e), p))
<1>1. PICK n, m, k, d \in Int : d > 0 /\ Is(q, n, d) /\ Is(p, m, d) /\ Is(e, k, d)
  BY CommonTermsOfThree
<1>2. n > 0 /\ k > 0
  BY <1>1, SignIs
<1>3. n <= m
  BY <1>1, LessEqIs
<1>4. PICK f : f = Quotient(Minus(q, e), q)
  OBVIOUS
<1>5. PICK h : h = Quotient(Minus(p, e), p)
  OBVIOUS
<1>6. Is(f, n - k, n)
  BY <1>1, <1>2, <1>4, FallIs
<1>7. Is(h, m - k, m)
  BY <1>1, <1>2, <1>3, <1>5, FallIs
<1>8. PICK x \in Int : x = n - k
  OBVIOUS
<1>9. PICK y \in Int : y = m - k
  OBVIOUS
<1>10. Is(f, x * m, n * m) /\ Is(h, y * n, m * n)
  BY <1>6, <1>7, <1>8, <1>9, Expand
<1>11. PICK z \in Int : z = n * m /\ z = m * n /\ z > 0
  BY <1>2, <1>3
<1>12. PICK u \in Int : u = x * m
  OBVIOUS
<1>13. PICK v \in Int : v = y * n
  OBVIOUS
<1>14. u <= v
  <2>1. n * k <= m * k
    BY <1>2, <1>3, ScaleLess
  <2>2. u = n * m - m * k /\ v = n * m - n * k
    <3>1. (n - k) * m = n * m - m * k /\ (m - k) * n = n * m - n * k
      OBVIOUS
    <3> QED
      BY <1>8, <1>9, <1>12, <1>13, <3>1
  <2> QED
    BY <2>1, <2>2
<1>15. LessEq(f, h) <=> u <= v
  BY <1>10, <1>11, <1>12, <1>13, LessEqIs
<1> QED
  BY <1>4, <1>5, <1>14, <1>15
================================================================================
