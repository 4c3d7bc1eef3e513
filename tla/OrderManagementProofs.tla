------------------------- MODULE OrderManagementProofs -------------------------
(***************************************************************************)
(* Proofs about the OMS on the paper venue, for any orders, instruments    *)
(* and quantities.                                                         *)
(*                                                                         *)
(* The books of the OMS and of the venue differ by the fills that are      *)
(* still on the bus.  A sum over the events of the bus would need a        *)
(* recursive definition; the invariant says instead that there are running *)
(* totals that lead from the one to the other, event by event.             *)
(***************************************************************************)
EXTENDS OrderManagement, TLAPS, SequenceTheorems

\* What an event adds to the net position of an instrument, and to the filled
\* quantity of an order, once the OMS handles it.
Booked(e, i) ==
  IF e.kind = "FillEvent" /\ InstrumentOf[e.order] = i THEN Signed(e.order, e.qty) ELSE 0

FilledBy(e, o) == IF e.kind = "FillEvent" /\ e.order = o THEN e.qty ELSE 0

\* The fill after which the order counts as filled.
IsFinal(e, o) == e.kind = "FillEvent" /\ e.order = o /\ e.status = "FILLED"

\* Running totals that begin with a, end with b, and go up by d[k] at step k.
Totals(d, a, b) ==
  {p \in [0 .. Len(d) -> Int] :
     /\ p[0] = a /\ p[Len(d)] = b
     /\ \A k \in 1 .. Len(d) : p[k] = p[k - 1] + d[k]}

Bookings(s, i) == [k \in 1 .. Len(s) |-> Booked(s[k], i)]
Fillings(s, o) == [k \in 1 .. Len(s) |-> FilledBy(s[k], o)]

\* The events in s take the position of i from a to b.
Books(s, i, a, b) == Totals(Bookings(s, i), a, b) # {}

\* They take the filled quantity of o from a to b and never beyond; what is filled
\* after the final one is all of the order.
Fill(s, o, a, b) ==
  \E p \in Totals(Fillings(s, o), a, b) :
    /\ \A k \in 0 .. Len(s) : p[k] <= b
    /\ \A k \in 1 .. Len(s) : IsFinal(s[k], o) => p[k] = QuantityOf[o]

-------------------------------------------------------------------------------
(* Running totals *)

LEMMA TotalsAppend ==
  ASSUME NEW d \in Seq(Int), NEW a, NEW b \in Int, NEW c \in Int, NEW p \in Totals(d, a, b)
  PROVE  [k \in 0 .. Len(d) + 1 |-> IF k <= Len(d) THEN p[k] ELSE b + c]
           \in Totals(Append(d, c), a, b + c)
<1> DEFINE e == Append(d, c)
           q == [k \in 0 .. Len(d) + 1 |-> IF k <= Len(d) THEN p[k] ELSE b + c]
<1>1. /\ Len(e) = Len(d) + 1 /\ Len(d) \in Nat
      /\ \A k \in 1 .. Len(d) : e[k] = d[k]
      /\ e[Len(d) + 1] = c
  BY AppendProperties
<1> HIDE DEF e
<1>2. q \in [0 .. Len(e) -> Int] /\ q[0] = a /\ q[Len(e)] = b + c
  BY <1>1 DEF Totals
<1>3. ASSUME NEW k \in 1 .. Len(e)
      PROVE  q[k] = q[k - 1] + e[k]
  <2>1. CASE k \in 1 .. Len(d)
    <3>1. q[k] = p[k] /\ q[k - 1] = p[k - 1]
      BY <1>1, <2>1
    <3>2. p[k] = p[k - 1] + d[k]
      BY <2>1 DEF Totals
    <3> QED
      BY <1>1, <2>1, <3>1, <3>2
  <2>2. CASE k = Len(d) + 1
    BY <1>1, <2>2 DEF Totals
  <2> QED
    BY <1>1, <2>1, <2>2
<1> QED
  BY <1>2, <1>3 DEF Totals, e

LEMMA TotalsTail ==
  ASSUME NEW d \in Seq(Int), d # <<>>, NEW a \in Int, NEW b, NEW p \in Totals(d, a, b)
  PROVE  [k \in 0 .. Len(d) - 1 |-> p[k + 1]] \in Totals(Tail(d), a + Head(d), b)
<1> DEFINE e == Tail(d)
           q == [k \in 0 .. Len(d) - 1 |-> p[k + 1]]
<1>1. /\ Len(e) = Len(d) - 1 /\ Len(d) \in Nat \ {0}
      /\ \A k \in 1 .. Len(e) : e[k] = d[k + 1]
      /\ Head(d) = d[1]
  BY HeadTailProperties, EmptySeq, LenProperties
<1> HIDE DEF e
<1>2. q \in [0 .. Len(e) -> Int] /\ q[Len(e)] = b
  BY <1>1 DEF Totals
<1>3. q[0] = a + Head(d)
  BY <1>1 DEF Totals
<1>4. ASSUME NEW k \in 1 .. Len(e)
      PROVE  q[k] = q[k - 1] + e[k]
  BY <1>1 DEF Totals
<1> QED
  BY <1>2, <1>3, <1>4 DEF Totals, e

-------------------------------------------------------------------------------
(* Types *)

LEMMA SignedType ==
  ASSUME NEW o \in Order, NEW qty \in Int
  PROVE  Signed(o, qty) \in Int
BY DEF Signed

LEMMA BookedType ==
  ASSUME NEW e \in BusEvent \cup {Nothing}, NEW i
  PROVE  Booked(e, i) \in Int
BY SignedType DEF Booked, BusEvent, Nothing

LEMMA FilledByType ==
  ASSUME NEW e \in BusEvent \cup {Nothing}, NEW o
  PROVE  FilledBy(e, o) \in Nat
BY DEF FilledBy, BusEvent, Nothing

LEMMA BookingsType ==
  ASSUME NEW s \in Seq(BusEvent), NEW i
  PROVE  Bookings(s, i) \in Seq(Int) /\ Len(Bookings(s, i)) = Len(s)
<1>1. \A k \in 1 .. Len(s) : s[k] \in BusEvent
  BY ElementOfSeq
<1> QED
  BY <1>1, BookedType, IsASeq, LenProperties DEF Bookings

LEMMA FillingsType ==
  ASSUME NEW s \in Seq(BusEvent), NEW o
  PROVE  Fillings(s, o) \in Seq(Int) /\ Len(Fillings(s, o)) = Len(s)
<1>1. \A k \in 1 .. Len(s) : s[k] \in BusEvent
  BY ElementOfSeq
<1> QED
  BY <1>1, FilledByType, IsASeq, LenProperties DEF Fillings

\* What is told of the events follows the events when one comes or goes.
LEMMA BookingsAppend ==
  ASSUME NEW s \in Seq(BusEvent), NEW e \in BusEvent, NEW i
  PROVE  Bookings(Append(s, e), i) = Append(Bookings(s, i), Booked(e, i))
<1>1. Append(s, e) \in Seq(BusEvent) /\ Len(Append(s, e)) = Len(s) + 1
  BY AppendProperties
<1>2. /\ Append(Bookings(s, i), Booked(e, i)) \in Seq(Int)
      /\ Len(Append(Bookings(s, i), Booked(e, i))) = Len(s) + 1
  BY BookingsType, BookedType, AppendProperties
<1>3. ASSUME NEW k \in 1 .. Len(s) + 1
      PROVE  Bookings(Append(s, e), i)[k] = Append(Bookings(s, i), Booked(e, i))[k]
  BY <1>1, <1>3, BookingsType, BookedType, AppendProperties, LenProperties DEF Bookings
<1>4. Bookings(Append(s, e), i) \in Seq(Int) /\ Len(Bookings(Append(s, e), i)) = Len(s) + 1
  BY <1>1, BookingsType
<1> QED
  BY <1>2, <1>3, <1>4, SeqEqual

LEMMA FillingsAppend ==
  ASSUME NEW s \in Seq(BusEvent), NEW e \in BusEvent, NEW o
  PROVE  Fillings(Append(s, e), o) = Append(Fillings(s, o), FilledBy(e, o))
<1>1. Append(s, e) \in Seq(BusEvent) /\ Len(Append(s, e)) = Len(s) + 1
  BY AppendProperties
<1>2. /\ Append(Fillings(s, o), FilledBy(e, o)) \in Seq(Int)
      /\ Len(Append(Fillings(s, o), FilledBy(e, o))) = Len(s) + 1
  BY FillingsType, FilledByType, AppendProperties
<1>3. ASSUME NEW k \in 1 .. Len(s) + 1
      PROVE  Fillings(Append(s, e), o)[k] = Append(Fillings(s, o), FilledBy(e, o))[k]
  BY <1>1, <1>3, FillingsType, FilledByType, AppendProperties, LenProperties DEF Fillings
<1>4. Fillings(Append(s, e), o) \in Seq(Int) /\ Len(Fillings(Append(s, e), o)) = Len(s) + 1
  BY <1>1, FillingsType
<1> QED
  BY <1>2, <1>3, <1>4, SeqEqual

LEMMA BookingsTail ==
  ASSUME NEW s \in Seq(BusEvent), s # <<>>, NEW i
  PROVE  /\ Bookings(s, i) # <<>> /\ Head(Bookings(s, i)) = Booked(Head(s), i)
         /\ Bookings(Tail(s), i) = Tail(Bookings(s, i))
<1> DEFINE d == Bookings(s, i)
           e == Bookings(Tail(s), i)
<1>1. /\ Len(s) \in Nat \ {0} /\ Head(s) = s[1]
      /\ Tail(s) \in Seq(BusEvent) /\ Len(Tail(s)) = Len(s) - 1
      /\ \A k \in 1 .. Len(s) - 1 : Tail(s)[k] = s[k + 1]
  BY EmptySeq, HeadTailProperties
<1>2. /\ d \in Seq(Int) /\ Len(d) = Len(s) /\ e \in Seq(Int) /\ Len(e) = Len(s) - 1
      /\ \A k \in 1 .. Len(s) : d[k] = Booked(s[k], i)
      /\ \A k \in 1 .. Len(s) - 1 : e[k] = Booked(s[k + 1], i)
  BY <1>1, BookingsType DEF Bookings
<1> HIDE DEF d, e
<1>3. d # <<>> /\ Head(d) = d[1] /\ Tail(d) \in Seq(Int) /\ Len(Tail(d)) = Len(s) - 1
  BY <1>1, <1>2, EmptySeq, HeadTailProperties
<1>4. \A k \in 1 .. Len(s) - 1 : Tail(d)[k] = d[k + 1]
  BY <1>2, <1>3, HeadTailProperties
<1>5. e = Tail(d)
  <2>1. Len(e) = Len(Tail(d)) /\ \A k \in 1 .. Len(e) : e[k] = Tail(d)[k]
    BY <1>1, <1>2, <1>3, <1>4
  <2> QED
    BY <1>2, <1>3, <2>1, SeqEqual
<1> QED
  BY <1>1, <1>2, <1>3, <1>5 DEF d, e

LEMMA FillingsTail ==
  ASSUME NEW s \in Seq(BusEvent), s # <<>>, NEW o
  PROVE  /\ Fillings(s, o) # <<>> /\ Head(Fillings(s, o)) = FilledBy(Head(s), o)
         /\ Fillings(Tail(s), o) = Tail(Fillings(s, o))
<1> DEFINE d == Fillings(s, o)
           e == Fillings(Tail(s), o)
<1>1. /\ Len(s) \in Nat \ {0} /\ Head(s) = s[1]
      /\ Tail(s) \in Seq(BusEvent) /\ Len(Tail(s)) = Len(s) - 1
      /\ \A k \in 1 .. Len(s) - 1 : Tail(s)[k] = s[k + 1]
  BY EmptySeq, HeadTailProperties
<1>2. /\ d \in Seq(Int) /\ Len(d) = Len(s) /\ e \in Seq(Int) /\ Len(e) = Len(s) - 1
      /\ \A k \in 1 .. Len(s) : d[k] = FilledBy(s[k], o)
      /\ \A k \in 1 .. Len(s) - 1 : e[k] = FilledBy(s[k + 1], o)
  BY <1>1, FillingsType DEF Fillings
<1> HIDE DEF d, e
<1>3. d # <<>> /\ Head(d) = d[1] /\ Tail(d) \in Seq(Int) /\ Len(Tail(d)) = Len(s) - 1
  BY <1>1, <1>2, EmptySeq, HeadTailProperties
<1>4. \A k \in 1 .. Len(s) - 1 : Tail(d)[k] = d[k + 1]
  BY <1>2, <1>3, HeadTailProperties
<1>5. e = Tail(d)
  <2>1. Len(e) = Len(Tail(d)) /\ \A k \in 1 .. Len(e) : e[k] = Tail(d)[k]
    BY <1>1, <1>2, <1>3, <1>4
  <2> QED
    BY <1>2, <1>3, <2>1, SeqEqual
<1> QED
  BY <1>1, <1>2, <1>3, <1>5 DEF d, e

-------------------------------------------------------------------------------
(* Events that come and go *)

LEMMA BooksEmpty ==
  ASSUME NEW i, NEW a \in Int, NEW b
  PROVE  Books(<<>>, i, a, b) <=> a = b
<1>1. Bookings(<<>>, i) \in Seq(Int) /\ Len(Bookings(<<>>, i)) = 0
  BY EmptySeq, BookingsType
<1>2. ASSUME a = b
      PROVE  [k \in 0 .. 0 |-> a] \in Totals(Bookings(<<>>, i), a, b)
  BY <1>1, <1>2 DEF Totals
<1> QED
  BY <1>1, <1>2 DEF Books, Totals

LEMMA BooksAppend ==
  ASSUME NEW s \in Seq(BusEvent), NEW e \in BusEvent, NEW i, NEW a, NEW b \in Int,
         Books(s, i, a, b)
  PROVE  Books(Append(s, e), i, a, b + Booked(e, i))
<1>1. PICK p : p \in Totals(Bookings(s, i), a, b)
  BY DEF Books
<1> QED
  BY <1>1, BookingsType, BookedType, BookingsAppend, TotalsAppend DEF Books

LEMMA BooksTail ==
  ASSUME NEW s \in Seq(BusEvent), s # <<>>, NEW i, NEW a \in Int, NEW b,
         Books(s, i, a, b)
  PROVE  Books(Tail(s), i, a + Booked(Head(s), i), b)
<1>1. PICK p : p \in Totals(Bookings(s, i), a, b)
  BY DEF Books
<1> QED
  BY <1>1, BookingsType, BookingsTail, TotalsTail DEF Books

LEMMA FillEmpty ==
  ASSUME NEW o, NEW a \in Int
  PROVE  Fill(<<>>, o, a, a)
<1>1. Fillings(<<>>, o) \in Seq(Int) /\ Len(Fillings(<<>>, o)) = 0
  BY EmptySeq, FillingsType
<1>2. [k \in 0 .. 0 |-> a] \in Totals(Fillings(<<>>, o), a, a)
  BY <1>1 DEF Totals
<1> QED
  BY <1>1, <1>2, EmptySeq DEF Fill

LEMMA FillEnds ==
  ASSUME NEW s \in Seq(BusEvent), NEW o, NEW a, NEW b, Fill(s, o, a, b)
  PROVE  a \in Int /\ b \in Int /\ a <= b
BY FillingsType, LenProperties DEF Fill, Totals

LEMMA FillAppend ==
  ASSUME NEW s \in Seq(BusEvent), NEW e \in BusEvent, NEW o, NEW a, NEW b \in Int,
         Fill(s, o, a, b),
         IsFinal(e, o) => b + FilledBy(e, o) = QuantityOf[o]
  PROVE  Fill(Append(s, e), o, a, b + FilledBy(e, o))
<1> DEFINE c == FilledBy(e, o)
           t == Append(s, e)
<1>1. PICK p \in Totals(Fillings(s, o), a, b) :
        /\ \A k \in 0 .. Len(s) : p[k] <= b
        /\ \A k \in 1 .. Len(s) : IsFinal(s[k], o) => p[k] = QuantityOf[o]
  BY DEF Fill
<1> DEFINE q == [k \in 0 .. Len(s) + 1 |-> IF k <= Len(s) THEN p[k] ELSE b + c]
<1>2. c \in Nat
  BY FilledByType
<1>3. q \in Totals(Fillings(t, o), a, b + c)
  <2> DEFINE d == Fillings(s, o)
  <2>1. d \in Seq(Int) /\ Len(d) = Len(s) /\ c \in Int /\ p \in Totals(d, a, b)
    BY <1>1, <1>2, FillingsType
  <2>2. Fillings(t, o) = Append(d, c)
    BY FillingsAppend
  <2> HIDE DEF c, d, t
  <2>3. [k \in 0 .. Len(d) + 1 |-> IF k <= Len(d) THEN p[k] ELSE b + c]
          \in Totals(Append(d, c), a, b + c)
    BY <2>1, TotalsAppend
  <2> QED
    BY <2>1, <2>2, <2>3
<1>4. /\ Len(t) = Len(s) + 1 /\ Len(s) \in Nat
      /\ \A k \in 1 .. Len(s) : t[k] = s[k]
      /\ t[Len(s) + 1] = e
  BY AppendProperties, LenProperties
<1>5. \A k \in 0 .. Len(s) : p[k] \in Int
  BY <1>4, FillingsType DEF Totals
<1> HIDE DEF c, t
<1>6. \A k \in 0 .. Len(t) : q[k] <= b + c
  BY <1>1, <1>2, <1>4, <1>5
<1>7. \A k \in 1 .. Len(t) : IsFinal(t[k], o) => q[k] = QuantityOf[o]
  BY <1>1, <1>4 DEF c
<1> HIDE DEF q
<1> QED
  BY <1>3, <1>6, <1>7 DEF Fill, t, c

LEMMA FillTail ==
  ASSUME NEW s \in Seq(BusEvent), s # <<>>, NEW o, NEW a \in Int, NEW b,
         Fill(s, o, a, b)
  PROVE  /\ Fill(Tail(s), o, a + FilledBy(Head(s), o), b)
         /\ IsFinal(Head(s), o) => a + FilledBy(Head(s), o) = QuantityOf[o]
<1> DEFINE c == FilledBy(Head(s), o)
           t == Tail(s)
<1>1. PICK p \in Totals(Fillings(s, o), a, b) :
        /\ \A k \in 0 .. Len(s) : p[k] <= b
        /\ \A k \in 1 .. Len(s) : IsFinal(s[k], o) => p[k] = QuantityOf[o]
  BY DEF Fill
<1> DEFINE q == [k \in 0 .. Len(s) - 1 |-> p[k + 1]]
<1>3. q \in Totals(Fillings(t, o), a + c, b)
  BY <1>1, FillingsType, FillingsTail, TotalsTail
<1>4. /\ Len(t) = Len(s) - 1 /\ Len(s) \in Nat \ {0} /\ Head(s) = s[1]
      /\ \A k \in 1 .. Len(s) - 1 : t[k] = s[k + 1]
  BY EmptySeq, HeadTailProperties
<1>5. q[0] = p[1] /\ q[0] = a + c
  <2>1. q[0] = p[1]
    BY <1>4
  <2>2. q[0] = a + c
    BY <1>3 DEF Totals
  <2> QED
    BY <2>1, <2>2
<1> HIDE DEF c, t
<1>6. \A k \in 0 .. Len(t) : q[k] <= b
  BY <1>1, <1>4
<1>7. \A k \in 1 .. Len(t) : IsFinal(t[k], o) => q[k] = QuantityOf[o]
  BY <1>1, <1>4
<1>8. IsFinal(Head(s), o) => a + c = QuantityOf[o]
  BY <1>1, <1>4, <1>5
<1> HIDE DEF q
<1> QED
  BY <1>3, <1>6, <1>7, <1>8 DEF Fill, t, c

LEMMA Pair ==
  ASSUME NEW S, NEW x \in S, NEW y \in S
  PROVE  <<x>> \o <<y>> = <<x, y>>
<1>1. <<x>> \in Seq(S) /\ <<y>> \in Seq(S) /\ <<x, y>> \in Seq(S)
  OBVIOUS
<1>2. /\ <<x>> \o <<y>> \in Seq(S) /\ Len(<<x>> \o <<y>>) = 2
      /\ \A k \in 1 .. 2 : (<<x>> \o <<y>>)[k] = <<x, y>>[k]
  BY <1>1, ConcatProperties
<1> QED
  BY <1>1, <1>2, SeqEqual

-------------------------------------------------------------------------------
(* The lane of order events as a whole *)

\* Given the positions, the reported and the executed quantities behind the event
\* in hand: the events in s are of known orders, take the positions from `pos' to
\* `atVenue', and no order beyond what is executed of it.
Lane(s, known, pos, atVenue, rep, exe) ==
  /\ \A k \in 1 .. Len(s) : /\ s[k].order \in known
                            /\ s[k].kind = "FillEvent" => s[k].qty > 0
  /\ \A i \in Instrument : Books(s, i, pos[i], atVenue[i])
  /\ \A o \in Order : \E b \in Int : b <= exe[o] /\ Fill(s, o, rep[o], b)

LEMMA LaneAppend ==
  ASSUME NEW s \in Seq(BusEvent), NEW e \in BusEvent, e.kind # "FillEvent",
         NEW known, e.order \in known,
         NEW pos, NEW atVenue \in [Instrument -> Int], NEW rep, NEW exe,
         Lane(s, known, pos, atVenue, rep, exe)
  PROVE  Append(s, e) \in Seq(BusEvent) /\ Lane(Append(s, e), known, pos, atVenue, rep, exe)
<1>1. /\ Append(s, e) \in Seq(BusEvent) /\ Len(Append(s, e)) = Len(s) + 1 /\ Len(s) \in Nat
      /\ \A k \in 1 .. Len(s) : Append(s, e)[k] = s[k]
      /\ Append(s, e)[Len(s) + 1] = e
  BY AppendProperties, LenProperties
<1>2. ASSUME NEW k \in 1 .. Len(Append(s, e))
      PROVE  /\ Append(s, e)[k].order \in known
             /\ Append(s, e)[k].kind = "FillEvent" => Append(s, e)[k].qty > 0
  <2>1. CASE k \in 1 .. Len(s)
    BY <1>1, <2>1 DEF Lane
  <2>2. CASE k = Len(s) + 1
    BY <1>1, <2>2
  <2> QED
    BY <1>1, <2>1, <2>2
<1>3. ASSUME NEW i \in Instrument
      PROVE  Books(Append(s, e), i, pos[i], atVenue[i])
  <2>1. Booked(e, i) = 0 /\ atVenue[i] \in Int
    BY DEF Booked
  <2>2. Books(Append(s, e), i, pos[i], atVenue[i] + Booked(e, i))
    BY <2>1, BooksAppend DEF Lane
  <2> QED
    BY <2>1, <2>2
<1>4. ASSUME NEW o \in Order
      PROVE  \E b \in Int : b <= exe[o] /\ Fill(Append(s, e), o, rep[o], b)
  <2>1. PICK b \in Int : b <= exe[o] /\ Fill(s, o, rep[o], b)
    BY DEF Lane
  <2>2. FilledBy(e, o) = 0 /\ ~ IsFinal(e, o)
    BY DEF FilledBy, IsFinal
  <2>3. Fill(Append(s, e), o, rep[o], b + FilledBy(e, o))
    BY <2>1, <2>2, FillAppend
  <2> QED
    BY <2>1, <2>2, <2>3
<1> QED
  BY <1>1, <1>2, <1>3, <1>4 DEF Lane

LEMMA LaneTail ==
  ASSUME NEW s \in Seq(BusEvent), s # <<>>,
         NEW known, NEW pos \in [Instrument -> Int], NEW atVenue,
         NEW rep \in [Order -> Int], NEW exe,
         Lane(s, known, pos, atVenue, rep, exe)
  PROVE  /\ Tail(s) \in Seq(BusEvent) /\ Head(s) \in BusEvent
         /\ Head(s).order \in known /\ (Head(s).kind = "FillEvent" => Head(s).qty > 0)
         /\ Lane(Tail(s), known, [i \in Instrument |-> pos[i] + Booked(Head(s), i)], atVenue,
                 [o \in Order |-> rep[o] + FilledBy(Head(s), o)], exe)
         /\ \A o \in Order : IsFinal(Head(s), o) => rep[o] + FilledBy(Head(s), o) = QuantityOf[o]
<1>1. /\ Tail(s) \in Seq(BusEvent) /\ Len(Tail(s)) = Len(s) - 1 /\ Len(s) \in Nat \ {0}
      /\ Head(s) \in BusEvent /\ Head(s) = s[1]
      /\ \A k \in 1 .. Len(s) - 1 : Tail(s)[k] = s[k + 1]
  BY EmptySeq, HeadTailProperties
<1>2. \A k \in 1 .. Len(Tail(s)) : /\ Tail(s)[k].order \in known
                                  /\ Tail(s)[k].kind = "FillEvent" => Tail(s)[k].qty > 0
  BY <1>1 DEF Lane
<1>3. Head(s).order \in known /\ (Head(s).kind = "FillEvent" => Head(s).qty > 0)
  BY <1>1 DEF Lane
<1>4. \A i \in Instrument : Books(Tail(s), i, pos[i] + Booked(Head(s), i), atVenue[i])
  BY BooksTail DEF Lane
<1>5. ASSUME NEW o \in Order
      PROVE  /\ \E b \in Int : b <= exe[o] /\ Fill(Tail(s), o, rep[o] + FilledBy(Head(s), o), b)
             /\ IsFinal(Head(s), o) => rep[o] + FilledBy(Head(s), o) = QuantityOf[o]
  <2>1. PICK b \in Int : b <= exe[o] /\ Fill(s, o, rep[o], b)
    BY DEF Lane
  <2> QED
    BY <2>1, FillTail
<1> QED
  BY <1>1, <1>2, <1>3, <1>4, <1>5 DEF Lane

\* The fills of an order of which nothing was executed before.
LEMMA LaneFills ==
  ASSUME NEW s \in Seq(BusEvent), NEW o \in Order, NEW partial \in BOOLEAN,
         NEW known, o \in known,
         NEW pos, NEW atVenue \in [Instrument -> Int],
         NEW rep \in [Order -> Nat], NEW exe \in [Order -> Nat], exe[o] = 0,
         Lane(s, known, pos, atVenue, rep, exe)
  PROVE  /\ s \o Fills(o, partial) \in Seq(BusEvent)
         /\ Lane(s \o Fills(o, partial), known, pos,
                 [atVenue EXCEPT ![InstrumentOf[o]] = @ + Signed(o, QuantityOf[o])],
                 rep, [exe EXCEPT ![o] = QuantityOf[o]])
<1> DEFINE qty == QuantityOf[o]
           half == FillEvent(o, qty \div 2, "PARTIALLY_FILLED")
           rest == FillEvent(o, qty - qty \div 2, "FILLED")
           full == FillEvent(o, qty, "FILLED")
           atVenue2 == [atVenue EXCEPT ![InstrumentOf[o]] = @ + Signed(o, qty)]
           exe2 == [exe EXCEPT ![o] = qty]
           t == s \o Fills(o, partial)
<1>1. qty \in Nat /\ qty > 0 /\ qty \div 2 \in Nat /\ qty \div 2 > 0 /\ qty - qty \div 2 > 0
      /\ qty - qty \div 2 \in Nat
  BY RequestAssumption
<1>2. half \in BusEvent /\ rest \in BusEvent /\ full \in BusEvent
  BY <1>1 DEF FillEvent, BusEvent, EventKind, OrderStatus
<1>3. t = IF partial THEN Append(Append(s, half), rest) ELSE Append(s, full)
  <2>1. CASE partial
    <3>1. Append(s, half) \in Seq(BusEvent) /\ <<half>> \in Seq(BusEvent) /\ <<rest>> \in Seq(BusEvent)
      BY <1>2, AppendProperties
    <3>2. Append(Append(s, half), rest) = (s \o <<half>>) \o <<rest>>
      BY <1>2, <3>1, AppendIsConcat
    <3>3. (s \o <<half>>) \o <<rest>> = s \o (<<half>> \o <<rest>>)
      BY <3>1, ConcatAssociative
    <3>4. <<half>> \o <<rest>> = <<half, rest>>
      BY <1>2, Pair
    <3> QED
      BY <2>1, <3>2, <3>3, <3>4 DEF Fills
  <2>2. CASE ~partial
    BY <1>2, <2>2, AppendIsConcat DEF Fills
  <2> QED
    BY <2>1, <2>2
<1>4. /\ half.order = o /\ half.qty = qty \div 2 /\ half.kind = "FillEvent" /\ half.status # "FILLED"
      /\ rest.order = o /\ rest.qty = qty - qty \div 2 /\ rest.kind = "FillEvent"
      /\ full.order = o /\ full.qty = qty /\ full.kind = "FillEvent"
  BY DEF FillEvent
<1>5. Append(s, half) \in Seq(BusEvent) /\ Append(s, full) \in Seq(BusEvent)
      /\ Append(Append(s, half), rest) \in Seq(BusEvent)
  BY <1>2, AppendProperties
<1>parts. Signed(o, half.qty) + Signed(o, rest.qty) = Signed(o, full.qty) /\ Signed(o, full.qty) \in Int
  <2>1. PICK h : h = qty \div 2
    OBVIOUS
  <2>2. PICK r : r = qty - h
    OBVIOUS
  <2>3. h \in Nat /\ r \in Nat /\ h + r = qty /\ qty \in Nat
    BY <1>1, <2>1, <2>2
  <2>4. half.qty = h /\ rest.qty = r /\ full.qty = qty
    BY <1>4, <2>1, <2>2
  <2> HIDE DEF qty, half, rest, full
  <2> QED
    BY <2>3, <2>4 DEF Signed
<1> HIDE DEF half, rest, full, t, qty
<1>6. ASSUME NEW k \in 1 .. Len(t)
      PROVE  t[k].order \in known /\ (t[k].kind = "FillEvent" => t[k].qty > 0)
  <2>1. Len(s) \in Nat
    BY LenProperties
  <2>2. CASE k \in 1 .. Len(s)
    <3>1. t[k] = s[k]
      BY <1>2, <1>3, <1>5, <2>1, <2>2, AppendProperties
    <3> QED
      BY <2>2, <3>1 DEF Lane
  <2>3. CASE k > Len(s)
    <3>1. t[k] \in {half, rest, full}
      BY <1>2, <1>3, <1>5, <2>1, <2>3, AppendProperties
    <3> QED
      BY <1>1, <1>4, <3>1
  <2> QED
    BY <2>1, <2>2, <2>3
<1>7. ASSUME NEW i \in Instrument
      PROVE  Books(t, i, pos[i], atVenue2[i])
  <2>1. Books(s, i, pos[i], atVenue[i]) /\ atVenue[i] \in Int
    BY DEF Lane
  <2>2. /\ Booked(half, i) \in Int /\ Booked(rest, i) \in Int /\ Booked(full, i) \in Int
    BY <1>2, BookedType
  <2>3. IF partial THEN Books(t, i, pos[i], atVenue[i] + Booked(half, i) + Booked(rest, i))
        ELSE Books(t, i, pos[i], atVenue[i] + Booked(full, i))
    <3>1. CASE partial
      <4>1. Books(Append(s, half), i, pos[i], atVenue[i] + Booked(half, i))
        BY <1>2, <2>1, BooksAppend
      <4>2. atVenue[i] + Booked(half, i) \in Int
        BY <2>1, <2>2
      <4> QED
        BY <1>2, <1>3, <1>5, <3>1, <4>1, <4>2, BooksAppend
    <3>2. CASE ~partial
      BY <1>2, <1>3, <2>1, <3>2, BooksAppend
    <3> QED
      BY <3>1, <3>2
  <2>4. /\ Booked(half, i) + Booked(rest, i) = Booked(full, i)
        /\ atVenue2[i] = atVenue[i] + Booked(full, i)
    <3>1. Booked(half, i) + Booked(rest, i) = Booked(full, i)
      BY <1>parts, <1>4 DEF Booked
    <3>2. CASE InstrumentOf[o] = i
      <4>1. atVenue2[i] = atVenue[i] + Signed(o, qty)
        BY <3>2
      <4> QED
        BY <1>4, <3>1, <3>2, <4>1 DEF Booked
    <3>3. CASE InstrumentOf[o] # i
      <4>1. atVenue2[i] = atVenue[i]
        BY <3>3
      <4> QED
        BY <1>4, <2>1, <3>1, <3>3, <4>1 DEF Booked
    <3> QED
      BY <3>2, <3>3
  <2> HIDE DEF atVenue2
  <2> QED
    BY <2>1, <2>2, <2>3, <2>4
<1>8. ASSUME NEW u \in Order
      PROVE  \E b \in Int : b <= exe2[u] /\ Fill(t, u, rep[u], b)
  <2>1. PICK b \in Int : b <= exe[u] /\ Fill(s, u, rep[u], b)
    BY DEF Lane
  <2>2. CASE u = o
    <3>1. b = 0
      BY <2>1, <2>2, FillEnds
    <3>2. Fill(t, o, rep[o], qty)
      <4>1. CASE partial
        <5>1. /\ FilledBy(half, o) = qty \div 2 /\ ~ IsFinal(half, o)
              /\ FilledBy(rest, o) = qty - qty \div 2
          BY <1>4 DEF FilledBy, IsFinal
        <5>2. Fill(Append(s, half), o, rep[o], qty \div 2)
          BY <1>1, <1>2, <2>1, <2>2, <3>1, <5>1, FillAppend
        <5>3. qty \div 2 + FilledBy(rest, o) = qty /\ qty = QuantityOf[o]
          BY <1>1, <5>1 DEF qty
        <5> DEFINE h == qty \div 2
        <5>4. h \in Int /\ Fill(Append(s, half), o, rep[o], h) /\ h + FilledBy(rest, o) = QuantityOf[o]
          BY <1>1, <5>2, <5>3
        <5> HIDE DEF h
        <5>5. Fill(Append(Append(s, half), rest), o, rep[o], h + FilledBy(rest, o))
          BY <1>2, <1>5, <5>4, FillAppend
        <5> QED
          BY <1>3, <4>1, <5>3, <5>4, <5>5
      <4>2. CASE ~partial
        <5>1. FilledBy(full, o) = qty
          BY <1>4 DEF FilledBy
        <5>2. Fill(Append(s, full), o, rep[o], 0 + FilledBy(full, o))
          BY <1>1, <1>2, <2>1, <2>2, <3>1, <5>1, FillAppend DEF qty
        <5> QED
          BY <1>1, <1>3, <4>2, <5>1, <5>2
      <4> QED
        BY <4>1, <4>2
    <3> QED
      BY <1>1, <2>2, <3>2
  <2>3. CASE u # o
    <3>1. /\ FilledBy(half, u) = 0 /\ FilledBy(rest, u) = 0 /\ FilledBy(full, u) = 0
          /\ ~ IsFinal(half, u) /\ ~ IsFinal(rest, u) /\ ~ IsFinal(full, u)
      BY <1>4, <2>3 DEF FilledBy, IsFinal
    <3>2. Fill(t, u, rep[u], b)
      <4>1. Fill(Append(s, half), u, rep[u], b + 0) /\ Fill(Append(s, full), u, rep[u], b + 0)
        BY <1>2, <2>1, <3>1, FillAppend
      <4>2. Fill(Append(s, half), u, rep[u], b)
        BY <4>1
      <4>3. Fill(Append(Append(s, half), rest), u, rep[u], b + 0)
        BY <1>2, <1>5, <4>2, <3>1, FillAppend
      <4> QED
        BY <1>3, <4>1, <4>3
    <3> QED
      BY <2>1, <2>3, <3>2
  <2> QED
    BY <2>2, <2>3
<1>9. t \in Seq(BusEvent)
  BY <1>3, <1>5
<1> QED
  BY <1>6, <1>7, <1>8, <1>9 DEF Lane, t, qty

-------------------------------------------------------------------------------
(* The inductive invariant *)

Known == {o \in Order : orders[o] # Unknown}

\* Positions and reported quantities behind the event in hand.
Pos == [i \in Instrument |-> positions[i] + Booked(inHand, i)]
Rep == [o \in Order |-> Reported(o) + FilledBy(inHand, o)]
Exe == [o \in Order |-> Executed(o)]

CallInv ==
  \A o \in Order :
    /\ submitCall[o] = "notCalled" <=> orders[o] = Unknown
    /\ orders[o] = Unknown <=> venueOrders[o] = Unknown
    /\ submitCall[o] \in {"notCalled", "sleeping"} => Executed(o) = 0
    /\ Executed(o) <= QuantityOf[o]

HandInv ==
  inHand # Nothing =>
    /\ inHand.order \in Known
    /\ inHand.kind = "FillEvent" => inHand.qty > 0
    /\ \A o \in Order : IsFinal(inHand, o) => Rep[o] = QuantityOf[o]

LowInv ==
  \A k \in 1 .. Len(low) : low[k].kind = "PositionEvent" /\ low[k].order \in Known

LaneInv == Lane(high, Known, Pos, venuePositions, Rep, Exe)

IInv == TypeOK /\ CallInv /\ HandInv /\ LowInv /\ LaneInv /\ FilledMeansAll

-------------------------------------------------------------------------------
(* The order life cycle *)

LEMMA StatusDistinct ==
  /\ Unknown \notin OrderState /\ Unknown \notin VenueOrder
  /\ Nothing \notin BusEvent
BY DEF Unknown, OrderState, OrderStatus, VenueOrder, Nothing, BusEvent, EventKind

LEMMA NewOrderType == NewOrder \in OrderState /\ NewOrder.filled = 0
BY DEF NewOrder, OrderState, OrderStatus

\* No step of an order other than a fill touches what is filled of it, or makes it
\* FILLED; a fill adds its quantity and makes it FILLED only if it says so.
LEMMA LifecycleSteps ==
  ASSUME NEW st \in OrderState
  PROVE  /\ AfterSubmit(st) \in OrderState /\ AfterSubmit(st).filled = st.filled
         /\ AfterSubmit(st).status # "FILLED"
         /\ AfterFailedSubmit(st) \in OrderState /\ AfterFailedSubmit(st).filled = st.filled
         /\ AfterFailedSubmit(st).status # "FILLED"
         /\ AfterAccepted(st) \in OrderState /\ AfterAccepted(st).filled = st.filled
         /\ AfterAccepted(st).status = "FILLED" => st.status = "FILLED"
         /\ AfterCancelled(st) \in OrderState /\ AfterCancelled(st).filled = st.filled
         /\ AfterCancelled(st).status = "FILLED" => st.status = "FILLED"
BY DEF OrderState, OrderStatus, AfterSubmit, AfterFailedSubmit, AfterAccepted, AfterCancelled,
       Transition

LEMMA FillStep ==
  ASSUME NEW st \in OrderState, NEW qty \in Nat, NEW t \in OrderStatus
  PROVE  /\ AfterFill(st, qty, t) \in OrderState
         /\ AfterFill(st, qty, t).filled = st.filled + qty
         /\ AfterFill(st, qty, t).status = "FILLED" => st.status = "FILLED" \/ t = "FILLED"
<1> DEFINE more == [st EXCEPT !.filled = @ + qty]
<1>1. more \in OrderState /\ more.filled = st.filled + qty /\ more.status = st.status
  BY DEF OrderState
<1> HIDE DEF more
<1>2. /\ Transition(more, t) \in OrderState /\ Transition(more, t).filled = more.filled
      /\ Transition(more, t).status \in {more.status, t}
  BY <1>1 DEF OrderState, Transition
<1>3. AfterFill(st, qty, t) = Transition(more, t)
  BY DEF AfterFill, more
<1> QED
  BY <1>1, <1>2, <1>3

LEMMA QuantityTypes ==
  ASSUME TypeOK
  PROVE  /\ Pos \in [Instrument -> Int] /\ Rep \in [Order -> Nat] /\ Exe \in [Order -> Nat]
         /\ \A o \in Order : Reported(o) \in Nat /\ Executed(o) \in Nat
<1>1. \A i : Booked(inHand, i) \in Int
  BY BookedType DEF TypeOK
<1>2. \A o : FilledBy(inHand, o) \in Nat
  BY FilledByType DEF TypeOK
<1>3. \A o \in Order : Reported(o) \in Nat /\ Executed(o) \in Nat
  BY DEF TypeOK, Reported, Executed, OrderState, VenueOrder
<1> QED
  BY <1>1, <1>2, <1>3 DEF TypeOK, Pos, Rep, Exe

-------------------------------------------------------------------------------
(* Steps *)

\* A step of one order that is not a fill, seen from the books.
LEMMA OrderStep ==
  ASSUME TypeOK, NEW o \in Order, NEW st \in OrderState,
         orders' = [orders EXCEPT ![o] = st], st.filled = Reported(o),
         UNCHANGED <<positions, inHand>>
  PROVE  Known' = Known \cup {o} /\ Pos' = Pos /\ Rep' = Rep
<1>1. Known' = Known \cup {o}
  BY StatusDistinct DEF TypeOK, Known
<1>2. Pos' = Pos
  BY DEF Pos, Booked
<1>3. \A p \in Order : Reported(p)' = Reported(p)
  BY StatusDistinct DEF TypeOK, Reported
<1>4. \A p \in Order : FilledBy(inHand, p)' = FilledBy(inHand, p)
  BY DEF FilledBy
<1> QED
  BY <1>1, <1>2, <1>3, <1>4 DEF Rep

\* Steps that leave orders, books and the lane of order events alone.
LEMMA SameBooks ==
  ASSUME UNCHANGED <<orders, positions, venueOrders, venuePositions, high, inHand>>
  PROVE  /\ LaneInv' = LaneInv /\ HandInv' = HandInv /\ Known' = Known
         /\ FilledMeansAll' = FilledMeansAll /\ Exe' = Exe
         /\ \A o : Executed(o)' = Executed(o)
BY DEF LaneInv, HandInv, Known, Pos, Rep, Exe, Reported, Executed, FilledMeansAll

LEMMA LaneWeaken ==
  ASSUME NEW s, NEW known, NEW known2, known \subseteq known2, NEW pos, NEW atVenue, NEW rep,
         NEW exe \in [Order -> Int], NEW exe2 \in [Order -> Int], \A o \in Order : exe[o] <= exe2[o],
         Lane(s, known, pos, atVenue, rep, exe)
  PROVE  Lane(s, known2, pos, atVenue, rep, exe2)
BY DEF Lane

\* A step of oms.submit_order(): what is left to show of each is its lane.
LEMMA SubmitStep ==
  ASSUME IInv, TypeOK', NEW o \in Order, NEW st \in OrderState, NEW vo \in VenueOrder,
         orders' = [orders EXCEPT ![o] = st], st.filled = Reported(o), st.status # "FILLED",
         venueOrders' = [venueOrders EXCEPT ![o] = vo], vo.filled <= QuantityOf[o],
         submitCall'[o] # "notCalled", submitCall'[o] = "sleeping" => vo.filled = 0,
         \A p \in Order \ {o} : submitCall'[p] = submitCall[p],
         UNCHANGED <<positions, low, inHand>>,
         Lane(high', Known \cup {o}, Pos, venuePositions', Rep, [Exe EXCEPT ![o] = vo.filled])
  PROVE  IInv'
<1> USE DEF IInv
<1>1. Known' = Known \cup {o} /\ Pos' = Pos /\ Rep' = Rep
  BY OrderStep
<1>2. /\ orders'[o] # Unknown /\ venueOrders'[o] # Unknown
      /\ Executed(o)' = vo.filled
      /\ \A p \in Order : p # o => Executed(p)' = Executed(p)
  BY StatusDistinct DEF TypeOK, Executed
<1>3. Exe' = [Exe EXCEPT ![o] = vo.filled]
  BY <1>2 DEF Exe
<1>4. LaneInv'
  BY <1>1, <1>3 DEF LaneInv
<1>5. CallInv'
  BY <1>2 DEF CallInv, TypeOK
<1>6. HandInv' /\ LowInv'
  BY <1>1 DEF HandInv, LowInv, IsFinal
<1>7. FilledMeansAll'
  BY <1>2 DEF FilledMeansAll, TypeOK
<1> QED
  BY <1>4, <1>5, <1>6, <1>7

\* The events of a call are events of the bus.
LEMMA CallEvents ==
  ASSUME NEW o \in Order, NEW kind \in {"OrderAccepted", "OrderSubmitted", "OrderCancelled", "PositionEvent"}
  PROVE  Event(kind, o) \in BusEvent /\ Event(kind, o).kind = kind /\ Event(kind, o).order = o
BY DEF Event, BusEvent, EventKind, OrderStatus

\* A submission that the venue only takes.
LEMMA RestingLane ==
  ASSUME IInv, NEW o \in Order, orders[o] = Unknown
  PROVE  /\ Reported(o) = 0 /\ Executed(o) = 0 /\ Exe[o] = 0 /\ Rep \in [Order -> Nat]
         /\ Lane(high, Known \cup {o}, Pos, venuePositions, Rep, [Exe EXCEPT ![o] = 0])
<1>1. Reported(o) = 0 /\ Executed(o) = 0 /\ Exe[o] = 0
  BY DEF Reported, Executed, Exe, IInv, CallInv
<1>2. Exe \in [Order -> Nat] /\ Rep \in [Order -> Nat]
  BY QuantityTypes DEF IInv
<1>3. [Exe EXCEPT ![o] = 0] = Exe
  BY <1>1, <1>2
<1>4. Lane(high, Known \cup {o}, Pos, venuePositions, Rep, Exe)
  <2>1. Lane(high, Known, Pos, venuePositions, Rep, Exe)
    BY DEF IInv, LaneInv
  <2>2. Exe \in [Order -> Int] /\ Known \subseteq Known \cup {o} /\ \A p \in Order : Exe[p] <= Exe[p]
    BY <1>2
  <2> HIDE DEF Known
  <2> QED
    BY <2>1, <2>2, LaneWeaken
<1> QED
  BY <1>1, <1>2, <1>3, <1>4

LEMMA SubmitResting_Inv ==
  ASSUME IInv, NEW o \in Order, SubmitResting(o)
  PROVE  IInv'
<1> DEFINE st == AfterSubmit(NewOrder)
           vo == [status |-> "ACCEPTED", filled |-> 0]
           a == Event("OrderAccepted", o)
           b == Event("OrderSubmitted", o)
           exe == [Exe EXCEPT ![o] = 0]
<1>1. orders[o] = Unknown
  BY DEF IInv, CallInv, SubmitResting
<1>2. st \in OrderState /\ st.filled = Reported(o) /\ st.status # "FILLED"
  BY <1>1, LifecycleSteps, NewOrderType DEF Reported
<1>3. vo \in VenueOrder /\ vo.filled = 0 /\ vo.filled <= QuantityOf[o]
  BY RequestAssumption DEF VenueOrder, OrderStatus
<1>4. Lane(high, Known \cup {o}, Pos, venuePositions, Rep, exe)
  BY <1>1, RestingLane
<1>5. /\ orders' = [orders EXCEPT ![o] = st] /\ venueOrders' = [venueOrders EXCEPT ![o] = vo]
      /\ submitCall' = [submitCall EXCEPT ![o] = "returned"]
      /\ high' = high \o <<a, b>>
      /\ UNCHANGED <<positions, venuePositions, low, inHand>>
  BY DEF SubmitResting, VenueAccepts
<1>6. a \in BusEvent /\ b \in BusEvent /\ a.kind # "FillEvent" /\ b.kind # "FillEvent"
      /\ a.order = o /\ b.order = o
  BY CallEvents
<1> HIDE DEF st, vo, a, b, exe
<1>7. high' = Append(Append(high, a), b)
  <2>1. <<a>> \in Seq(BusEvent) /\ <<b>> \in Seq(BusEvent) /\ <<a>> \o <<b>> = <<a, b>>
    BY <1>6, Pair
  <2>2. high \in Seq(BusEvent) /\ Append(high, a) \in Seq(BusEvent)
    BY <1>6, AppendProperties DEF IInv, TypeOK
  <2> QED
    BY <1>5, <1>6, <2>1, <2>2, AppendIsConcat, ConcatAssociative
<1>8. high' \in Seq(BusEvent) /\ Lane(high', Known \cup {o}, Pos, venuePositions', Rep, exe)
  <2>1. high \in Seq(BusEvent) /\ venuePositions \in [Instrument -> Int]
    BY DEF IInv, TypeOK
  <2>2. /\ Append(high, a) \in Seq(BusEvent)
        /\ Lane(Append(high, a), Known \cup {o}, Pos, venuePositions, Rep, exe)
    BY <1>4, <1>6, <2>1, LaneAppend
  <2> QED
    BY <1>5, <1>6, <1>7, <2>1, <2>2, LaneAppend
<1>9. TypeOK'
  BY <1>2, <1>3, <1>5, <1>8 DEF IInv, TypeOK, SubmitResting
<1>10. Lane(high', Known \cup {o}, Pos, venuePositions', Rep, [Exe EXCEPT ![o] = vo.filled])
  BY <1>3, <1>8 DEF exe
<1>11. submitCall'[o] = "returned" /\ \A p \in Order \ {o} : submitCall'[p] = submitCall[p]
  BY <1>5 DEF IInv, TypeOK
<1> QED
  BY <1>2, <1>3, <1>5, <1>9, <1>10, <1>11, SubmitStep

\* A submission that fills: the lane after the events, whatever comes first.
LEMMA FilledLane ==
  ASSUME IInv, NEW o \in Order, Executed(o) = 0, NEW partial \in BOOLEAN,
         NEW s \in Seq(BusEvent),
         Lane(s, Known \cup {o}, Pos, venuePositions, Rep, Exe),
         ExecuteFill(o), high' = s \o Fills(o, partial) \o <<Event("OrderSubmitted", o)>>
  PROVE  /\ high' \in Seq(BusEvent) /\ venuePositions' \in [Instrument -> Int]
         /\ Lane(high', Known \cup {o}, Pos, venuePositions', Rep, [Exe EXCEPT ![o] = QuantityOf[o]])
<1> DEFINE t == s \o Fills(o, partial)
           b == Event("OrderSubmitted", o)
           exe == [Exe EXCEPT ![o] = QuantityOf[o]]
<1>1. /\ Rep \in [Order -> Nat] /\ Exe \in [Order -> Nat] /\ Exe[o] = 0
      /\ venuePositions \in [Instrument -> Int]
  BY QuantityTypes DEF IInv, TypeOK, Exe
<1>2. venuePositions' = [venuePositions EXCEPT ![InstrumentOf[o]] = @ + Signed(o, QuantityOf[o])]
  BY DEF ExecuteFill
<1>3. t \in Seq(BusEvent) /\ Lane(t, Known \cup {o}, Pos, venuePositions', Rep, exe)
  <2> HIDE DEF Known, Pos
  <2> QED
    BY <1>1, <1>2, LaneFills
<1>4. venuePositions' \in [Instrument -> Int]
  <2>1. Signed(o, QuantityOf[o]) \in Int /\ InstrumentOf[o] \in Instrument
    BY SignedType, RequestAssumption
  <2> QED
    BY <1>1, <1>2, <2>1
<1>5. b \in BusEvent /\ b.kind # "FillEvent" /\ b.order = o
  BY CallEvents
<1> HIDE DEF t, b, exe
<1>6. high' = Append(t, b)
  BY <1>3, <1>5, AppendIsConcat DEF t, b
<1>7. Append(t, b) \in Seq(BusEvent) /\ Lane(Append(t, b), Known \cup {o}, Pos, venuePositions', Rep, exe)
  BY <1>3, <1>4, <1>5, LaneAppend
<1> QED
  BY <1>4, <1>6, <1>7 DEF exe

LEMMA SubmitMarket_Inv ==
  ASSUME IInv, NEW o \in Order, SubmitMarket(o)
  PROVE  IInv'
<1> DEFINE st == AfterSubmit(NewOrder)
           vo == [status |-> "FILLED", filled |-> QuantityOf[o]]
           a == Event("OrderAccepted", o)
<1>1. orders[o] = Unknown
  BY DEF IInv, CallInv, SubmitMarket
<1>2. st \in OrderState /\ st.filled = Reported(o) /\ st.status # "FILLED"
  BY <1>1, LifecycleSteps, NewOrderType DEF Reported
<1>3. vo \in VenueOrder /\ vo.filled = QuantityOf[o] /\ vo.filled <= QuantityOf[o]
  BY RequestAssumption DEF VenueOrder, OrderStatus
<1>4. PICK partial \in BOOLEAN :
        high' = high \o <<a>> \o Fills(o, partial) \o <<Event("OrderSubmitted", o)>>
  BY DEF SubmitMarket
<1>5. /\ orders' = [orders EXCEPT ![o] = st] /\ venueOrders' = [venueOrders EXCEPT ![o] = vo]
      /\ submitCall' = [submitCall EXCEPT ![o] = "returned"]
      /\ ExecuteFill(o)
      /\ UNCHANGED <<positions, low, inHand>>
  BY DEF SubmitMarket, ExecuteFill
<1>6. a \in BusEvent /\ a.kind # "FillEvent" /\ a.order = o
  BY CallEvents
<1>7. high \in Seq(BusEvent) /\ venuePositions \in [Instrument -> Int] /\ Exe \in [Order -> Nat]
  BY QuantityTypes DEF IInv, TypeOK
<1> HIDE DEF st, vo, a
<1>8. high \o <<a>> = Append(high, a)
  BY <1>6, <1>7, AppendIsConcat
<1>9. Lane(high, Known \cup {o}, Pos, venuePositions, Rep, Exe)
  <2>1. [Exe EXCEPT ![o] = 0] = Exe
    BY <1>1, <1>7, RestingLane
  <2> QED
    BY <1>1, <2>1, RestingLane
<1>10. /\ Append(high, a) \in Seq(BusEvent)
       /\ Lane(Append(high, a), Known \cup {o}, Pos, venuePositions, Rep, Exe)
  BY <1>6, <1>7, <1>9, LaneAppend
<1>11. /\ high' \in Seq(BusEvent) /\ venuePositions' \in [Instrument -> Int]
       /\ Lane(high', Known \cup {o}, Pos, venuePositions', Rep, [Exe EXCEPT ![o] = vo.filled])
  BY <1>1, <1>3, <1>4, <1>5, <1>8, <1>10, FilledLane, RestingLane
<1>12. TypeOK'
  BY <1>2, <1>3, <1>5, <1>11 DEF IInv, TypeOK, SubmitMarket
<1>13. submitCall'[o] = "returned" /\ \A p \in Order \ {o} : submitCall'[p] = submitCall[p]
  BY <1>5 DEF IInv, TypeOK
<1> QED
  BY <1>2, <1>3, <1>5, <1>11, <1>12, <1>13, SubmitStep

LEMMA SubmitSleeps_Inv ==
  ASSUME IInv, NEW o \in Order, SubmitSleeps(o)
  PROVE  IInv'
<1> DEFINE st == NewOrder
           vo == [status |-> "ACCEPTED", filled |-> 0]
           a == Event("OrderAccepted", o)
<1>1. orders[o] = Unknown
  BY DEF IInv, CallInv, SubmitSleeps
<1>2. st \in OrderState /\ st.filled = Reported(o) /\ st.status # "FILLED"
  BY <1>1, NewOrderType DEF Reported, NewOrder
<1>3. vo \in VenueOrder /\ vo.filled = 0 /\ vo.filled <= QuantityOf[o]
  BY RequestAssumption DEF VenueOrder, OrderStatus
<1>4. /\ orders' = [orders EXCEPT ![o] = st] /\ venueOrders' = [venueOrders EXCEPT ![o] = vo]
      /\ submitCall' = [submitCall EXCEPT ![o] = "sleeping"]
      /\ high' = Append(high, a)
      /\ UNCHANGED <<positions, venuePositions, low, inHand>>
  BY DEF SubmitSleeps, VenueAccepts
<1>5. a \in BusEvent /\ a.kind # "FillEvent" /\ a.order = o
  BY CallEvents
<1>6. high \in Seq(BusEvent) /\ venuePositions \in [Instrument -> Int]
  BY DEF IInv, TypeOK
<1> HIDE DEF st, vo, a
<1>7. Lane(high, Known \cup {o}, Pos, venuePositions, Rep, [Exe EXCEPT ![o] = 0])
  BY <1>1, RestingLane
<1>8. /\ high' \in Seq(BusEvent)
      /\ Lane(high', Known \cup {o}, Pos, venuePositions', Rep, [Exe EXCEPT ![o] = vo.filled])
  BY <1>3, <1>4, <1>5, <1>6, <1>7, LaneAppend
<1>9. TypeOK'
  BY <1>2, <1>3, <1>4, <1>8 DEF IInv, TypeOK, SubmitSleeps
<1>10. submitCall'[o] = "sleeping" /\ \A p \in Order \ {o} : submitCall'[p] = submitCall[p]
  BY <1>4 DEF IInv, TypeOK
<1> QED
  BY <1>2, <1>3, <1>4, <1>8, <1>9, <1>10, SubmitStep

\* While the venue sleeps it has taken the order and filled none of it.
LEMMA Sleeping ==
  ASSUME IInv, NEW o \in Order, submitCall[o] = "sleeping"
  PROVE  /\ orders[o] \in OrderState /\ Reported(o) = orders[o].filled
         /\ Executed(o) = 0 /\ Exe \in [Order -> Nat] /\ Exe[o] = 0
         /\ Known \cup {o} = Known
BY QuantityTypes DEF IInv, TypeOK, CallInv, Reported, Exe, Known

LEMMA SubmitFills_Inv ==
  ASSUME IInv, NEW o \in Order, SubmitFills(o)
  PROVE  IInv'
<1> DEFINE st == AfterSubmit(orders[o])
           vo == [status |-> "FILLED", filled |-> QuantityOf[o]]
<1>1. submitCall[o] = "sleeping"
  BY DEF SubmitFills
<1>2. st \in OrderState /\ st.filled = Reported(o) /\ st.status # "FILLED"
  BY <1>1, Sleeping, LifecycleSteps
<1>3. vo \in VenueOrder /\ vo.filled = QuantityOf[o] /\ vo.filled <= QuantityOf[o]
  BY RequestAssumption DEF VenueOrder, OrderStatus
<1>4. PICK partial \in BOOLEAN :
        high' = high \o Fills(o, partial) \o <<Event("OrderSubmitted", o)>>
  BY DEF SubmitFills
<1>5. /\ orders' = [orders EXCEPT ![o] = st] /\ venueOrders' = [venueOrders EXCEPT ![o] = vo]
      /\ submitCall' = [submitCall EXCEPT ![o] = "returned"]
      /\ ExecuteFill(o)
      /\ UNCHANGED <<positions, low, inHand>>
  BY DEF SubmitFills, ExecuteFill
<1> HIDE DEF st, vo
<1>6. high \in Seq(BusEvent) /\ Lane(high, Known \cup {o}, Pos, venuePositions, Rep, Exe)
  BY <1>1, Sleeping DEF IInv, TypeOK, LaneInv
<1>7. /\ high' \in Seq(BusEvent) /\ venuePositions' \in [Instrument -> Int]
      /\ Lane(high', Known \cup {o}, Pos, venuePositions', Rep, [Exe EXCEPT ![o] = vo.filled])
  BY <1>1, <1>3, <1>4, <1>5, <1>6, Sleeping, FilledLane
<1>8. TypeOK'
  BY <1>2, <1>3, <1>5, <1>7 DEF IInv, TypeOK, SubmitFills
<1>9. submitCall'[o] = "returned" /\ \A p \in Order \ {o} : submitCall'[p] = submitCall[p]
  BY <1>5 DEF IInv, TypeOK
<1> QED
  BY <1>2, <1>3, <1>5, <1>7, <1>8, <1>9, SubmitStep

LEMMA SubmitRefused_Inv ==
  ASSUME IInv, NEW o \in Order, SubmitRefused(o)
  PROVE  IInv'
<1> DEFINE st == AfterFailedSubmit(NewOrder)
           vo == [status |-> "ACCEPTED", filled |-> 0]
<1>1. orders[o] = Unknown
  BY DEF IInv, CallInv, SubmitRefused
<1>2. st \in OrderState /\ st.filled = Reported(o) /\ st.status # "FILLED"
  BY <1>1, LifecycleSteps, NewOrderType DEF Reported
<1>3. vo \in VenueOrder /\ vo.filled = 0 /\ vo.filled <= QuantityOf[o]
  BY RequestAssumption DEF VenueOrder, OrderStatus
<1>4. /\ orders' = [orders EXCEPT ![o] = st] /\ venueOrders' = [venueOrders EXCEPT ![o] = vo]
      /\ submitCall' = [submitCall EXCEPT ![o] = "raised"]
      /\ UNCHANGED <<positions, venuePositions, low, inHand, high>>
  BY DEF SubmitRefused, VenueAccepts, busVars
<1> HIDE DEF st, vo
<1>5. Lane(high', Known \cup {o}, Pos, venuePositions', Rep, [Exe EXCEPT ![o] = vo.filled])
  BY <1>1, <1>3, <1>4, RestingLane
<1>6. TypeOK'
  BY <1>2, <1>3, <1>4 DEF IInv, TypeOK, SubmitRefused, busVars
<1>7. submitCall'[o] = "raised" /\ \A p \in Order \ {o} : submitCall'[p] = submitCall[p]
  BY <1>4 DEF IInv, TypeOK
<1> QED
  BY <1>2, <1>3, <1>4, <1>5, <1>6, <1>7, SubmitStep

\* The venue has filled something the bus never tells of: executed runs ahead.
LEMMA SubmitFillRefused_Inv ==
  ASSUME IInv, NEW o \in Order, SubmitFillRefused(o)
  PROVE  IInv'
<1>0. PICK partial \in BOOLEAN : ExecuteFillRefused(o, partial)
  BY DEF SubmitFillRefused
<1> DEFINE st == AfterFailedSubmit(orders[o])
           vo == [status |-> Fills(o, partial)[1].status, filled |-> Fills(o, partial)[1].qty]
           exe == [Exe EXCEPT ![o] = vo.filled]
<1>1. submitCall[o] = "sleeping"
  BY DEF SubmitFillRefused
<1>2. st \in OrderState /\ st.filled = Reported(o) /\ st.status # "FILLED"
  BY <1>1, Sleeping, LifecycleSteps
<1>3. vo \in VenueOrder /\ vo.filled \in Nat /\ vo.filled <= QuantityOf[o]
  <2>1. QuantityOf[o] \in Nat /\ QuantityOf[o] \div 2 \in Nat /\ QuantityOf[o] \div 2 <= QuantityOf[o]
    BY RequestAssumption
  <2> QED
    BY <2>1 DEF VenueOrder, OrderStatus, Fills, FillEvent
<1>4. /\ orders' = [orders EXCEPT ![o] = st] /\ venueOrders' = [venueOrders EXCEPT ![o] = vo]
      /\ submitCall' = [submitCall EXCEPT ![o] = "raised"]
      /\ UNCHANGED <<positions, venuePositions, low, inHand, high>>
  BY <1>0 DEF SubmitFillRefused, ExecuteFillRefused, busVars
<1> HIDE DEF st, vo
<1>5. Lane(high', Known \cup {o}, Pos, venuePositions', Rep, exe)
  <2>1. Lane(high, Known \cup {o}, Pos, venuePositions, Rep, Exe)
    BY <1>1, Sleeping DEF IInv, LaneInv
  <2>2. /\ Exe \in [Order -> Int] /\ exe \in [Order -> Int]
        /\ \A p \in Order : Exe[p] <= exe[p]
    BY <1>1, <1>3, Sleeping
  <2> HIDE DEF Known, exe
  <2> QED
    BY <1>4, <2>1, <2>2, LaneWeaken
<1>6. TypeOK'
  BY <1>2, <1>3, <1>4 DEF IInv, TypeOK, SubmitFillRefused, busVars
<1>7. submitCall'[o] = "raised" /\ \A p \in Order \ {o} : submitCall'[p] = submitCall[p]
  BY <1>4 DEF IInv, TypeOK
<1> QED
  BY <1>2, <1>3, <1>4, <1>5, <1>6, <1>7, SubmitStep

LEMMA CancelOrder_Inv ==
  ASSUME IInv, NEW o \in Order, CancelOrder(o)
  PROVE  IInv'
<1> DEFINE a == Event("OrderCancelled", o)
<1>1. /\ orders[o] # Unknown /\ venueOrders[o] # Unknown /\ venueOrders[o] \in VenueOrder
      /\ o \in Known
  BY DEF IInv, TypeOK, CallInv, CancelOrder, CanCancel, Known
<1>2. /\ venueOrders' = [venueOrders EXCEPT ![o].status = "CANCELLED"]
      /\ high' = IF running THEN Append(high, a) ELSE high
      /\ UNCHANGED <<orders, positions, venuePositions, fillLatency, submitCall, running, low, inHand>>
  BY DEF CancelOrder, omsVars
<1>3. /\ venueOrders'[o] \in VenueOrder /\ venueOrders'[o] # Unknown
      /\ venueOrders' \in [Order -> VenueOrder \cup {Unknown}]
      /\ \A p \in Order : Executed(p)' = Executed(p)
  BY <1>1, <1>2, StatusDistinct DEF IInv, TypeOK, VenueOrder, OrderStatus, Executed
<1>4. Exe' = Exe /\ Known' = Known /\ Pos' = Pos /\ Rep' = Rep
  BY <1>2, <1>3 DEF Exe, Known, Pos, Rep, Reported, Booked, FilledBy
<1>5. a \in BusEvent /\ a.kind # "FillEvent" /\ a.order = o
  BY CallEvents
<1> HIDE DEF a
<1>6. high' \in Seq(BusEvent) /\ Lane(high', Known, Pos, venuePositions, Rep, Exe)
  <2>1. /\ high \in Seq(BusEvent) /\ venuePositions \in [Instrument -> Int]
        /\ Lane(high, Known, Pos, venuePositions, Rep, Exe)
    BY DEF IInv, TypeOK, LaneInv
  <2> HIDE DEF Known
  <2> QED
    BY <1>1, <1>2, <1>5, <2>1, LaneAppend
<1>7. LaneInv'
  BY <1>2, <1>4, <1>6 DEF LaneInv
<1>8. TypeOK'
  <2>1. cancels' \in [Order -> 0 .. MaxCancels]
    BY BoundAssumption DEF IInv, TypeOK, CancelOrder
  <2> QED
    BY <1>2, <1>3, <1>6, <2>1 DEF IInv, TypeOK
<1>9. CallInv'
  BY <1>1, <1>2, <1>3 DEF IInv, TypeOK, CallInv
<1>10. HandInv' /\ LowInv' /\ FilledMeansAll'
  BY <1>2, <1>4 DEF IInv, HandInv, LowInv, FilledMeansAll, IsFinal
<1> QED
  BY <1>7, <1>8, <1>9, <1>10 DEF IInv

LEMMA TakeEvent_Inv ==
  ASSUME IInv, TakeEvent
  PROVE  IInv'
<1>1. /\ running /\ inHand = Nothing
      /\ UNCHANGED <<orders, positions, venueOrders, venuePositions, fillLatency,
                     submitCall, cancels, running>>
  BY DEF TakeEvent, omsVars, venueVars, callVars
<1>2. /\ high \in Seq(BusEvent) /\ low \in Seq(BusEvent) /\ venuePositions \in [Instrument -> Int]
      /\ positions \in [Instrument -> Int]
      /\ \A o \in Order : Reported(o) \in Nat
      /\ Pos \in [Instrument -> Int] /\ Rep \in [Order -> Nat]
  BY QuantityTypes DEF IInv, TypeOK
<1>3. /\ Pos = [i \in Instrument |-> positions[i]] /\ Rep = [o \in Order |-> Reported(o)]
      /\ \A o \in Order : Reported(o)' = Reported(o)
      /\ Exe' = Exe /\ Known' = Known
  BY <1>1, <1>2 DEF Pos, Rep, Exe, Reported, Executed, Known, Booked, FilledBy, Nothing
<1>4. CallInv' /\ FilledMeansAll'
  BY <1>1 DEF IInv, CallInv, FilledMeansAll, Executed
<1>5. Lane(high, Known, Pos, venuePositions, Rep, Exe)
  BY DEF IInv, LaneInv
<1>6. CASE high # <<>> /\ inHand' = Head(high) /\ high' = Tail(high) /\ UNCHANGED low
  <2>1. /\ Tail(high) \in Seq(BusEvent) /\ Head(high) \in BusEvent
        /\ Head(high).order \in Known /\ (Head(high).kind = "FillEvent" => Head(high).qty > 0)
        /\ Lane(Tail(high), Known, [i \in Instrument |-> Pos[i] + Booked(Head(high), i)],
                venuePositions, [o \in Order |-> Rep[o] + FilledBy(Head(high), o)], Exe)
        /\ \A o \in Order : IsFinal(Head(high), o) => Rep[o] + FilledBy(Head(high), o) = QuantityOf[o]
    <3>1. Rep \in [Order -> Int]
      BY <1>2
    <3> HIDE DEF Known
    <3> QED
      BY <1>2, <1>5, <1>6, <3>1, LaneTail
  <2>2. /\ Pos' = [i \in Instrument |-> Pos[i] + Booked(Head(high), i)]
        /\ Rep' = [o \in Order |-> Rep[o] + FilledBy(Head(high), o)]
    BY <1>1, <1>3, <1>6 DEF Pos, Rep, Booked, FilledBy
  <2>3. LaneInv'
    BY <1>1, <1>3, <1>6, <2>1, <2>2 DEF LaneInv
  <2>4. HandInv'
    <3> HIDE DEF Known, Pos, Rep
    <3> QED
      BY <1>3, <1>6, <2>1, <2>2 DEF HandInv
  <2>5. TypeOK'
    BY <1>1, <1>6, <2>1 DEF IInv, TypeOK
  <2>6. LowInv'
    BY <1>3, <1>6 DEF IInv, LowInv
  <2> QED
    BY <1>4, <2>3, <2>4, <2>5, <2>6 DEF IInv
<1>7. CASE high = <<>> /\ low # <<>> /\ inHand' = Head(low) /\ low' = Tail(low) /\ UNCHANGED high
  <2>1. /\ Head(low) \in BusEvent /\ Tail(low) \in Seq(BusEvent) /\ Len(low) \in Nat \ {0}
        /\ Head(low) = low[1] /\ Len(Tail(low)) = Len(low) - 1
        /\ \A k \in 1 .. Len(low) - 1 : Tail(low)[k] = low[k + 1]
    BY <1>2, <1>7, EmptySeq, HeadTailProperties
  <2>2. Head(low).kind = "PositionEvent" /\ Head(low).order \in Known
    BY <2>1 DEF IInv, LowInv
  <2>3. /\ \A i : Booked(inHand', i) = 0
        /\ \A o : FilledBy(inHand', o) = 0 /\ ~ IsFinal(inHand', o)
    BY <1>7, <2>2 DEF Booked, FilledBy, IsFinal
  <2>4. Pos' = Pos /\ Rep' = Rep
    <3>1. Pos' = [i \in Instrument |-> positions[i]]
      <4>1. \A i \in Instrument : positions'[i] + Booked(inHand', i) = positions[i]
        BY <1>1, <1>2, <2>3
      <4>2. Pos' = [i \in Instrument |-> positions'[i] + Booked(inHand', i)]
        BY DEF Pos, Booked
      <4> QED
        BY <4>1, <4>2
    <3>2. Rep' = [o \in Order |-> Reported(o)]
      <4>1. \A o \in Order : Reported(o)' + FilledBy(inHand', o) = Reported(o)
        BY <1>2, <1>3, <2>3
      <4>2. Rep' = [o \in Order |-> Reported(o)' + FilledBy(inHand', o)]
        BY DEF Rep, FilledBy
      <4> QED
        BY <4>1, <4>2
    <3> QED
      BY <1>3, <3>1, <3>2
  <2>5. LaneInv'
    BY <1>1, <1>3, <1>5, <1>7, <2>4 DEF LaneInv
  <2>6. HandInv'
    BY <1>3, <1>7, <2>2, <2>3 DEF HandInv, IsFinal
  <2>7. LowInv'
    BY <1>3, <1>7, <2>1 DEF IInv, LowInv
  <2>8. TypeOK'
    BY <1>1, <1>7, <2>1 DEF IInv, TypeOK
  <2> QED
    BY <1>4, <2>5, <2>6, <2>7, <2>8 DEF IInv
<1> QED
  BY <1>6, <1>7 DEF TakeEvent

\* The event in hand is handled: what it told is now in the books.
LEMMA Handled ==
  ASSUME IInv, inHand # Nothing, inHand' = Nothing, UNCHANGED <<high, venuePositions, venueOrders>>,
         Known' = Known,
         \A i \in Instrument : positions'[i] = positions[i] + Booked(inHand, i),
         \A o \in Order : Reported(o)' = Reported(o) + FilledBy(inHand, o),
         submitCall' = submitCall, TypeOK', LowInv', FilledMeansAll'
  PROVE  IInv'
<1>1. Pos' = Pos
  <2>1. Pos' = [i \in Instrument |-> positions'[i] + 0]
    BY DEF Pos, Booked, Nothing
  <2>2. \A i \in Instrument : positions'[i] + 0 = positions[i] + Booked(inHand, i)
    BY DEF TypeOK
  <2> QED
    BY <2>1, <2>2 DEF Pos
<1>2. Rep' = Rep
  <2>1. Rep' = [o \in Order |-> Reported(o)' + 0]
    BY DEF Rep, FilledBy, Nothing
  <2>2. \A o \in Order : Reported(o)' \in Nat
    BY DEF TypeOK, Reported, OrderState
  <2>3. \A o \in Order : Reported(o)' + 0 = Reported(o) + FilledBy(inHand, o)
    BY <2>2
  <2> QED
    BY <2>1, <2>3 DEF Rep
<1>3. Exe' = Exe /\ \A o \in Order : Executed(o)' = Executed(o)
  BY DEF Exe, Executed
<1>4. LaneInv'
  BY <1>1, <1>2, <1>3 DEF IInv, LaneInv
<1>5. CallInv'
  BY <1>3 DEF IInv, CallInv, Known
<1>6. HandInv'
  BY DEF HandInv
<1> QED
  BY <1>4, <1>5, <1>6 DEF IInv

LEMMA OnFill_Inv ==
  ASSUME IInv, OnFill
  PROVE  IInv'
<1> DEFINE o == inHand.order
           st == AfterFill(orders[o], inHand.qty, inHand.status)
           e == Event("PositionEvent", o)
<1>1. /\ inHand \in BusEvent /\ o \in Order /\ inHand.qty \in Nat /\ inHand.status \in OrderStatus
      /\ inHand.kind = "FillEvent" /\ inHand # Nothing
      /\ orders[o] \in OrderState /\ o \in Known
  BY DEF IInv, TypeOK, HandInv, OnFill, BusEvent, Known
<1>2. /\ st \in OrderState /\ st.filled = orders[o].filled + inHand.qty
      /\ st.status = "FILLED" => orders[o].status = "FILLED" \/ inHand.status = "FILLED"
  BY <1>1, FillStep
<1>3. /\ orders' = [orders EXCEPT ![o] = st]
      /\ positions' = [positions EXCEPT ![InstrumentOf[o]] = @ + Signed(o, inHand.qty)]
      /\ low' = IF running THEN Append(low, e) ELSE low
      /\ inHand' = Nothing
      /\ UNCHANGED <<venueOrders, venuePositions, fillLatency, submitCall, cancels, running, high>>
  BY DEF OnFill, venueVars, callVars
<1>4. e \in BusEvent /\ e.kind = "PositionEvent" /\ e.order = o
  BY <1>1, CallEvents
<1>5. Signed(o, inHand.qty) \in Int /\ InstrumentOf[o] \in Instrument
  BY <1>1, SignedType, RequestAssumption
<1> HIDE DEF st, e
<1>6. Known' = Known
  BY <1>1, <1>2, <1>3, StatusDistinct DEF IInv, TypeOK, Known
<1>7. \A i \in Instrument : positions'[i] = positions[i] + Booked(inHand, i)
  BY <1>1, <1>3, <1>5 DEF IInv, TypeOK, Booked
<1>8. \A p \in Order : Reported(p)' = Reported(p) + FilledBy(inHand, p)
  <2> SUFFICES ASSUME NEW p \in Order
               PROVE  Reported(p)' = Reported(p) + FilledBy(inHand, p)
    OBVIOUS
  <2>1. CASE p = o
    <3>1. Reported(p) = orders[o].filled
      BY <1>1, <2>1, StatusDistinct DEF Reported
    <3>2. Reported(p)' = st.filled
      BY <1>1, <1>2, <1>3, <2>1, StatusDistinct DEF IInv, TypeOK, Reported
    <3> QED
      BY <1>1, <1>2, <2>1, <3>1, <3>2 DEF FilledBy
  <2>2. CASE p # o
    <3>1. FilledBy(inHand, p) = 0 /\ Reported(p) \in Nat
      BY <2>2, QuantityTypes DEF IInv, FilledBy
    <3>2. Reported(p)' = Reported(p)
      BY <1>3, <2>2 DEF IInv, TypeOK, Reported
    <3> QED
      BY <3>1, <3>2
  <2> QED
    BY <2>1, <2>2
<1>9. low' \in Seq(BusEvent) /\ LowInv'
  <2>1. /\ low \in Seq(BusEvent) /\ Append(low, e) \in Seq(BusEvent) /\ Len(low) \in Nat
        /\ Len(Append(low, e)) = Len(low) + 1
        /\ \A k \in 1 .. Len(low) : Append(low, e)[k] = low[k]
        /\ Append(low, e)[Len(low) + 1] = e
    BY <1>4, AppendProperties, LenProperties DEF IInv, TypeOK
  <2> HIDE DEF Known
  <2> QED
    BY <1>1, <1>3, <1>4, <1>6, <2>1 DEF IInv, LowInv
<1>10. TypeOK'
  <2>1. positions' \in [Instrument -> Int]
    BY <1>3, <1>5 DEF IInv, TypeOK
  <2> QED
    BY <1>1, <1>2, <1>3, <1>9, <2>1 DEF IInv, TypeOK
<1>11. FilledMeansAll'
  <2> SUFFICES ASSUME NEW p \in Order, orders'[p] # Unknown, orders'[p].status = "FILLED"
               PROVE  orders'[p].filled = QuantityOf[p]
    BY DEF FilledMeansAll
  <2>1. CASE p # o
    BY <1>3, <2>1 DEF IInv, TypeOK, FilledMeansAll
  <2>2. CASE p = o
    <3>1. orders'[p] = st
      BY <1>1, <1>3, <2>2 DEF IInv, TypeOK
    <3>2. Rep[o] = orders[o].filled + inHand.qty /\ orders[o].filled \in Nat /\ QuantityOf[o] \in Nat
      BY <1>1, StatusDistinct, RequestAssumption DEF Rep, Reported, FilledBy, OrderState
    <3>3. CASE inHand.status = "FILLED"
      <4>1. Rep[o] = QuantityOf[o]
        BY <1>1, <3>3 DEF IInv, HandInv, IsFinal
      <4> QED
        BY <1>2, <2>2, <3>1, <3>2, <4>1
    <3>4. CASE orders[o].status = "FILLED"
      <4>1. orders[o].filled = QuantityOf[o]
        BY <1>1, <3>4, StatusDistinct DEF IInv, FilledMeansAll
      <4>2. PICK b \in Int : b <= Exe[o] /\ Fill(high, o, Rep[o], b)
        BY <1>1 DEF IInv, LaneInv, Lane
      <4>3. Rep[o] <= b /\ Exe[o] <= QuantityOf[o] /\ Exe[o] \in Nat
        BY <1>1, <4>2, FillEnds, QuantityTypes DEF IInv, CallInv, Exe, TypeOK
      <4>4. inHand.qty > 0
        BY <1>1 DEF IInv, HandInv
      <4> QED
        BY <1>1, <3>2, <4>1, <4>2, <4>3, <4>4
    <3> QED
      BY <1>2, <2>2, <3>1, <3>3, <3>4
  <2> QED
    BY <2>1, <2>2
<1> QED
  BY <1>1, <1>3, <1>6, <1>7, <1>8, <1>9, <1>10, <1>11, Handled

\* Acknowledgements, cancellations and events for others book nothing.
LEMMA OtherEvent_Inv ==
  ASSUME IInv, OnOrderAccepted \/ OnOrderCancelled \/ NotForOMS
  PROVE  IInv'
<1>1. /\ inHand \in BusEvent /\ inHand # Nothing /\ inHand.kind # "FillEvent"
      /\ inHand.order \in Order /\ orders[inHand.order] \in OrderState /\ inHand.order \in Known
  BY DEF IInv, TypeOK, HandInv, OnOrderAccepted, OnOrderCancelled, NotForOMS, BusEvent, Known
<1>2. /\ inHand' = Nothing
      /\ UNCHANGED <<positions, venueOrders, venuePositions, fillLatency, submitCall, cancels,
                     running, high, low>>
  BY DEF OnOrderAccepted, OnOrderCancelled, NotForOMS, omsVars, venueVars, callVars
<1>3. PICK st \in OrderState :
        /\ orders' = [orders EXCEPT ![inHand.order] = st]
        /\ st.filled = orders[inHand.order].filled
        /\ st.status = "FILLED" => orders[inHand.order].status = "FILLED"
  <2>1. CASE OnOrderAccepted
    BY <1>1, <2>1, LifecycleSteps DEF OnOrderAccepted
  <2>2. CASE OnOrderCancelled
    BY <1>1, <2>2, LifecycleSteps DEF OnOrderCancelled
  <2>3. CASE NotForOMS
    BY <1>1, <2>3 DEF NotForOMS, omsVars, IInv, TypeOK
  <2> QED
    BY <2>1, <2>2, <2>3
<1>4. Known' = Known
  BY <1>1, <1>3, StatusDistinct DEF IInv, TypeOK, Known
<1>5. \A i \in Instrument : positions'[i] = positions[i] + Booked(inHand, i)
  BY <1>1, <1>2 DEF IInv, TypeOK, Booked
<1>6. \A p \in Order : Reported(p)' = Reported(p) + FilledBy(inHand, p)
  <2>1. \A p \in Order : Reported(p)' = Reported(p)
    BY <1>1, <1>3, StatusDistinct DEF IInv, TypeOK, Reported
  <2>2. \A p \in Order : FilledBy(inHand, p) = 0 /\ Reported(p) \in Nat
    BY <1>1, QuantityTypes DEF IInv, FilledBy
  <2> QED
    BY <2>1, <2>2
<1>7. TypeOK'
  BY <1>2, <1>3 DEF IInv, TypeOK
<1>8. LowInv'
  BY <1>2, <1>4 DEF IInv, LowInv
<1>9. FilledMeansAll'
  BY <1>1, <1>3, StatusDistinct DEF IInv, TypeOK, FilledMeansAll
<1> QED
  BY <1>1, <1>2, <1>4, <1>5, <1>6, <1>7, <1>8, <1>9, Handled

LEMMA StopBus_Inv ==
  ASSUME IInv, StopBus
  PROVE  IInv'
<1>1. /\ UNCHANGED <<orders, positions, venueOrders, venuePositions, fillLatency, submitCall,
                     cancels, high, low, inHand>>
      /\ running' = FALSE
  BY DEF StopBus, omsVars, venueVars, callVars
<1>2. TypeOK'
  BY <1>1 DEF IInv, TypeOK
<1>3. CallInv' /\ LowInv'
  BY <1>1, SameBooks DEF IInv, CallInv, LowInv
<1> QED
  BY <1>1, <1>2, <1>3, SameBooks DEF IInv

LEMMA InitInv == Init => IInv
<1> SUFFICES ASSUME Init
             PROVE  IInv
  OBVIOUS
<1>1. TypeOK
  BY BoundAssumption, EmptySeq DEF Init, TypeOK
<1>2. /\ \A o \in Order : Executed(o) = 0 /\ Reported(o) = 0
      /\ \A i : Booked(inHand, i) = 0
      /\ \A o : FilledBy(inHand, o) = 0
  BY DEF Init, Executed, Reported, Booked, FilledBy, Nothing
<1>3. CallInv
  BY <1>2, RequestAssumption DEF Init, CallInv
<1>4. HandInv /\ LowInv /\ FilledMeansAll
  BY EmptySeq DEF Init, HandInv, LowInv, FilledMeansAll
<1>5. LaneInv
  <2>1. high = <<>> /\ Len(high) = 0
    BY EmptySeq DEF Init
  <2>2. \A i \in Instrument : Pos[i] = 0 /\ venuePositions[i] = 0
    BY <1>2 DEF Init, Pos
  <2>3. \A o \in Order : Rep[o] = 0 /\ Exe[o] = 0
    BY <1>2 DEF Rep, Exe
  <2>4. \A i \in Instrument : Books(high, i, Pos[i], venuePositions[i])
    BY <2>1, <2>2, BooksEmpty
  <2>5. \A o \in Order : \E b \in Int : b <= Exe[o] /\ Fill(high, o, Rep[o], b)
    BY <2>1, <2>3, FillEmpty
  <2> QED
    BY <2>1, <2>4, <2>5 DEF LaneInv, Lane
<1> QED
  BY <1>1, <1>3, <1>4, <1>5 DEF IInv

LEMMA NextInv == IInv /\ [Next]_vars => IInv'
<1> SUFFICES ASSUME IInv, [Next]_vars
             PROVE  IInv'
  OBVIOUS
<1>1. CASE UNCHANGED vars
  <2>1. UNCHANGED <<orders, positions, venueOrders, venuePositions, fillLatency, submitCall,
                    cancels, high, low, inHand, running>>
    BY <1>1 DEF vars, omsVars, venueVars, callVars, busVars
  <2>2. TypeOK' /\ CallInv' /\ LowInv'
    BY <2>1, SameBooks DEF IInv, TypeOK, CallInv, LowInv
  <2> QED
    BY <2>1, <2>2, SameBooks DEF IInv
<1>2. ASSUME NEW o \in Order, Submit(o)
      PROVE  IInv'
  BY <1>2, SubmitResting_Inv, SubmitMarket_Inv, SubmitSleeps_Inv, SubmitRefused_Inv DEF Submit
<1>3. ASSUME NEW o \in Order, WakeUp(o)
      PROVE  IInv'
  BY <1>3, SubmitFills_Inv, SubmitFillRefused_Inv DEF WakeUp
<1>4. ASSUME NEW o \in Order, CancelOrder(o)
      PROVE  IInv'
  BY <1>4, CancelOrder_Inv
<1>5. CASE Dispatch
  BY <1>5, TakeEvent_Inv, OnFill_Inv, OtherEvent_Inv DEF Dispatch
<1>6. CASE StopBus
  BY <1>6, StopBus_Inv
<1> QED
  BY <1>1, <1>2, <1>3, <1>4, <1>5, <1>6 DEF Next

LEMMA Invariance == Spec => []IInv
  BY InitInv, NextInv, PTL DEF Spec

-------------------------------------------------------------------------------
(* Theorems *)

\* The state of the OMS, the venue and the bus has its types, whatever is ordered.
THEOREM TypeCorrect == Spec => []TypeOK
<1>1. IInv => TypeOK
  BY DEF IInv
<1> QED
  BY <1>1, Invariance, PTL

\* An order the OMS shows FILLED has been filled in full, for any orders and any
\* interleaving of fills, cancellations and submissions.
THEOREM FilledCorrect == Spec => []FilledMeansAll
<1>1. IInv => FilledMeansAll
  BY DEF IInv
<1> QED
  BY <1>1, Invariance, PTL

\* With no order event on its way the books of the OMS and of the venue agree.
THEOREM PositionsCorrect == Spec => []PositionsAgreeAtRest
<1>1. ASSUME IInv, AtRest
      PROVE  IsConsistent(Reconcile(positions, venuePositions))
  <2>1. ASSUME NEW i \in Instrument
        PROVE  positions[i] = venuePositions[i]
    <3>1. Booked(inHand, i) = 0 /\ positions[i] \in Int
      BY <1>1 DEF AtRest, Booked, Nothing, IInv, TypeOK
    <3>2. Pos[i] = positions[i]
      BY <3>1 DEF Pos
    <3>3. Books(<<>>, i, Pos[i], venuePositions[i])
      BY <1>1 DEF AtRest, IInv, LaneInv, Lane
    <3> QED
      BY <3>1, <3>2, <3>3, BooksEmpty
  <2> QED
    BY <2>1 DEF IsConsistent, Reconcile, Held
<1> QED
  BY <1>1, Invariance, PTL DEF PositionsAgreeAtRest

-------------------------------------------------------------------------------
(* The refinement *)

\* An execution at the venue of an order of which nothing was executed before.
LEMMA ExecuteStep ==
  ASSUME IInv, NEW o \in Order, Executed(o) = 0, NEW q \in 1 .. QuantityOf[o],
         Executed(o)' = q, \A p \in Order \ {o} : Executed(p)' = Executed(p),
         \A p \in Order : Reported(p)' = Reported(p)
  PROVE  Report!Next
<1> DEFINE e == [p \in Order |-> Executed(p)]
           r == [p \in Order |-> Reported(p)]
<1>1. Report!Execute(o, q)
  <2>1. e' = [e EXCEPT ![o] = @ + q]
    <3>1. \A p \in Order : Executed(p)' = [e EXCEPT ![o] = @ + q][p]
      OBVIOUS
    <3> QED
      BY <3>1
  <2>2. r' = r
    OBVIOUS
  <2>3. q > 0 /\ e[o] + q <= QuantityOf[o]
    BY RequestAssumption
  <2> QED
    BY <2>1, <2>2, <2>3 DEF Report!Execute
<1> QED
  BY <1>1 DEF Report!Next

\* A step of one order that the report does not show.
LEMMA HiddenStep ==
  ASSUME \A p \in Order : Executed(p)' = Executed(p) /\ Reported(p)' = Reported(p)
  PROVE  UNCHANGED <<[o \in Order |-> Executed(o)], [o \in Order |-> Reported(o)]>>
OBVIOUS

LEMMA SubmitReports ==
  ASSUME IInv, NEW o \in Order, Submit(o) \/ WakeUp(o)
  PROVE  Report!Next \/ UNCHANGED <<[p \in Order |-> Executed(p)], [p \in Order |-> Reported(p)]>>
<1>1. Executed(o) = 0 /\ QuantityOf[o] \in Nat /\ QuantityOf[o] > 0
  BY RequestAssumption DEF IInv, CallInv, Submit, WakeUp, SubmitResting, SubmitMarket, SubmitSleeps,
     SubmitRefused, SubmitFills, SubmitFillRefused
<1>2. \A p \in Order : Reported(p)' = Reported(p)
  <2>1. PICK st \in OrderState : orders' = [orders EXCEPT ![o] = st] /\ st.filled = Reported(o)
    <3>1. CASE Submit(o)
      <4>1. Reported(o) = 0
        BY <3>1 DEF IInv, CallInv, Submit, SubmitResting, SubmitMarket, SubmitSleeps, SubmitRefused,
           Reported
      <4> QED
        BY <3>1, <4>1, NewOrderType, LifecycleSteps
           DEF Submit, SubmitResting, SubmitMarket, SubmitSleeps, SubmitRefused
    <3>2. CASE WakeUp(o)
      BY <3>2, Sleeping, LifecycleSteps DEF WakeUp, SubmitFills, SubmitFillRefused
    <3> QED
      BY <3>1, <3>2
  <2> QED
    BY <2>1, StatusDistinct DEF IInv, TypeOK, Reported
<1>3. CASE SubmitResting(o) \/ SubmitSleeps(o) \/ SubmitRefused(o)
  <2>1. venueOrders' = [venueOrders EXCEPT ![o] = [status |-> "ACCEPTED", filled |-> 0]]
    BY <1>3 DEF SubmitResting, SubmitSleeps, SubmitRefused, VenueAccepts
  <2>2. Executed(o)' = 0
    BY <2>1 DEF Executed, IInv, TypeOK
  <2>3. \A p \in Order \ {o} : Executed(p)' = Executed(p)
    BY <2>1 DEF Executed, IInv, TypeOK
  <2> QED
    BY <1>1, <1>2, <2>2, <2>3, HiddenStep
<1>4. CASE SubmitMarket(o) \/ SubmitFills(o)
  <2>1. Executed(o)' = QuantityOf[o] /\ \A p \in Order \ {o} : Executed(p)' = Executed(p)
    BY <1>4 DEF SubmitMarket, SubmitFills, ExecuteFill, Executed, IInv, TypeOK, Unknown
  <2>2. QuantityOf[o] \in 1 .. QuantityOf[o]
    BY <1>1
  <2> QED
    BY <1>1, <1>2, <2>1, <2>2, ExecuteStep
<1>5. CASE SubmitFillRefused(o)
  <2>1. PICK partial \in BOOLEAN : ExecuteFillRefused(o, partial)
    BY <1>5 DEF SubmitFillRefused
  <2> DEFINE q == Fills(o, partial)[1].qty
  <2>2. q \in 1 .. QuantityOf[o]
    <3>1. q = IF partial THEN QuantityOf[o] \div 2 ELSE QuantityOf[o]
      BY DEF Fills, FillEvent
    <3>2. QuantityOf[o] \div 2 \in 1 .. QuantityOf[o]
      BY RequestAssumption
    <3> QED
      BY <1>1, <3>1, <3>2
  <2>3. Executed(o)' = q /\ \A p \in Order \ {o} : Executed(p)' = Executed(p)
    BY <2>1 DEF ExecuteFillRefused, Executed, IInv, TypeOK, Unknown
  <2> HIDE DEF q
  <2> QED
    BY <1>1, <1>2, <2>2, <2>3, ExecuteStep
<1> QED
  BY <1>3, <1>4, <1>5 DEF Submit, WakeUp

LEMMA OnFillReports ==
  ASSUME IInv, OnFill
  PROVE  Report!Next
<1>0. PICK o, q : o = inHand.order /\ q = inHand.qty
  OBVIOUS
<1>1. /\ o \in Order /\ q \in Nat /\ q > 0 /\ inHand.kind = "FillEvent"
      /\ orders[o] \in OrderState /\ inHand.status \in OrderStatus
  BY <1>0 DEF IInv, TypeOK, HandInv, OnFill, BusEvent, Known
<1>2. FilledBy(inHand, o) = q
  BY <1>0, <1>1 DEF FilledBy
<1>3. Reported(o) + q <= Executed(o) /\ q \in 1 .. QuantityOf[o]
  <2>1. PICK b \in Int : b <= Exe[o] /\ Fill(high, o, Rep[o], b)
    BY <1>1 DEF IInv, LaneInv, Lane
  <2>2. Rep[o] <= b /\ Rep[o] = Reported(o) + q /\ Exe[o] = Executed(o)
    BY <1>1, <1>2, <2>1, FillEnds DEF IInv, TypeOK, Rep, Exe
  <2>3. Executed(o) <= QuantityOf[o] /\ QuantityOf[o] \in Nat
    BY <1>1, RequestAssumption DEF IInv, CallInv
  <2>4. Reported(o) \in Nat /\ Executed(o) \in Nat
    BY <1>1, QuantityTypes DEF IInv
  <2> QED
    BY <1>1, <2>1, <2>2, <2>3, <2>4
<1>4. /\ Reported(o)' = Reported(o) + q
      /\ \A p \in Order \ {o} : Reported(p)' = Reported(p)
      /\ \A p \in Order : Executed(p)' = Executed(p)
  <2> DEFINE st == AfterFill(orders[o], q, inHand.status)
  <2>1. st \in OrderState /\ st.filled = orders[o].filled + q
    BY <1>1, FillStep
  <2>2. orders' = [orders EXCEPT ![o] = st] /\ venueOrders' = venueOrders
    BY <1>0 DEF OnFill, venueVars
  <2> HIDE DEF st
  <2>3. Reported(o)' = Reported(o) + q
    BY <1>1, <2>1, <2>2, StatusDistinct DEF Reported, IInv, TypeOK
  <2>4. \A p \in Order \ {o} : Reported(p)' = Reported(p)
    BY <2>2 DEF Reported, IInv, TypeOK
  <2>5. \A p \in Order : Executed(p)' = Executed(p)
    BY <2>2 DEF Executed
  <2> QED
    BY <2>3, <2>4, <2>5
<1>5. Report!Report(o, q)
  <2> DEFINE e == [p \in Order |-> Executed(p)]
             r == [p \in Order |-> Reported(p)]
  <2>1. r' = [r EXCEPT ![o] = @ + q]
    <3>1. \A p \in Order : Reported(p)' = [r EXCEPT ![o] = @ + q][p]
      BY <1>1, <1>4
    <3> QED
      BY <3>1
  <2>2. e' = e
    BY <1>4
  <2>3. q > 0 /\ r[o] + q <= e[o]
    BY <1>1, <1>3
  <2> QED
    BY <2>1, <2>2, <2>3 DEF Report!Report
<1> QED
  BY <1>1, <1>3, <1>5 DEF Report!Next

\* What the OMS reports of each order lags behind what the venue executed, grows
\* by the fills only, and never runs ahead.
THEOREM ReportCorrect == Spec => ImplementsReport
<1>1. Init => Report!Init
  BY DEF Init, Report!Init, Executed, Reported
<1>2. ASSUME IInv, [Next]_vars
      PROVE  [Report!Next]_<<[o \in Order |-> Executed(o)], [o \in Order |-> Reported(o)]>>
  <2>1. ASSUME NEW o \in Order, Submit(o) \/ WakeUp(o)
        PROVE  Report!Next \/ UNCHANGED <<[p \in Order |-> Executed(p)], [p \in Order |-> Reported(p)]>>
    BY <1>2, <2>1, SubmitReports
  <2>2. ASSUME NEW o \in Order, CancelOrder(o)
        PROVE  \A p \in Order : Executed(p)' = Executed(p) /\ Reported(p)' = Reported(p)
    <3>1. venueOrders[o] # Unknown /\ venueOrders[o] \in VenueOrder
      BY <1>2, <2>2 DEF IInv, TypeOK, CallInv, CancelOrder, CanCancel
    <3>2. venueOrders' = [venueOrders EXCEPT ![o].status = "CANCELLED"] /\ orders' = orders
      BY <2>2 DEF CancelOrder, omsVars
    <3>3. venueOrders'[o] \in VenueOrder /\ venueOrders'[o].filled = venueOrders[o].filled
      BY <1>2, <3>1, <3>2 DEF IInv, TypeOK, VenueOrder, OrderStatus
    <3>4. \A p \in Order : Executed(p)' = Executed(p)
      BY <1>2, <3>1, <3>2, <3>3, StatusDistinct DEF IInv, TypeOK, Executed
    <3>5. \A p \in Order : Reported(p)' = Reported(p)
      BY <3>2 DEF Reported
    <3> QED
      BY <3>4, <3>5
  <2>3. CASE OnFill
    BY <1>2, <2>3, OnFillReports
  <2>4. CASE OnOrderAccepted \/ OnOrderCancelled
    <3>1. /\ inHand.order \in Order /\ orders[inHand.order] \in OrderState
      BY <1>2, <2>4 DEF IInv, TypeOK, HandInv, OnOrderAccepted, OnOrderCancelled, BusEvent, Known
    <3>2. \A p \in Order : Executed(p)' = Executed(p) /\ Reported(p)' = Reported(p)
      BY <1>2, <2>4, <3>1, LifecycleSteps, StatusDistinct
         DEF OnOrderAccepted, OnOrderCancelled, venueVars, Executed, Reported, IInv, TypeOK
    <3> QED
      BY <3>2, HiddenStep
  <2>5. CASE TakeEvent \/ NotForOMS \/ StopBus \/ UNCHANGED vars
    <3>1. \A p \in Order : Executed(p)' = Executed(p) /\ Reported(p)' = Reported(p)
      BY <2>5 DEF TakeEvent, NotForOMS, StopBus, vars, omsVars, venueVars, Executed, Reported
    <3> QED
      BY <3>1, HiddenStep
  <2> QED
    BY <1>2, <2>1, <2>2, <2>3, <2>4, <2>5, HiddenStep DEF Next, Dispatch
<1> QED
  BY <1>1, <1>2, Invariance, PTL DEF Spec, ImplementsReport, Report!Spec
================================================================================
