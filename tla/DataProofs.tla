------------------------------ MODULE DataProofs ------------------------------
(***************************************************************************)
(* Proofs about data/: the market data streams, for any instruments,       *)
(* messages, batches, threads and number of streams, and the ArcticDB      *)
(* store, for any clients, symbols and frames.                             *)
(***************************************************************************)
EXTENDS PolygonConnector, ArcticStore, TLAPS, SequenceTheorems, WellFoundedInduction

Listed == UNION {UNION {ToSet(list) : list \in Wanted[s]} : s \in Stream}

Event == [instrument : Listed, message : Nat]

TypeInv ==
  /\ pool \in Seq(Stream \cup Request)
  /\ DOMAIN gen = Stream /\ DOMAIN wanted = Stream /\ DOMAIN task = Stream
  /\ DOMAIN socket = Stream /\ DOMAIN arrived = Stream /\ DOMAIN batch = Stream
  /\ queue \in [Stream -> Seq(Event)] /\ yielded \in [Stream -> Seq(Event)]
  /\ \A s \in Stream : wanted[s] \in Wanted[s] \cup {<<>>}

PoolHas(job) == \E m \in 1 .. Len(pool) : pool[m] = job

\* Nothing is done for a generator before its first step.
FreshInv(s) ==
  gen[s] = "fresh" => task[s] = "none" /\ socket[s] = "none" /\ arrived[s] = <<>> /\ ~PoolHas(s)

\* The batch is what arrived last.
IsBatch(arr, bat, messages) ==
  /\ arr \in Seq(messages) /\ bat \in Seq(messages) /\ Len(bat) <= Len(arr)
  /\ \A k \in 1 .. Len(bat) : bat[k] = arr[Len(arr) - Len(bat) + k]

BatchInv(s) == IsBatch(arrived[s], batch[s], Message(Feed[s], wanted[s]))

\* The events of the sound ones of the first messages, in their order.
Gives(events, arr, done, list) ==
  /\ \A k \in 1 .. Len(events) : \E n \in 1 .. done :
       /\ arr[n].form = "sound"
       /\ events[k] = EventOf(Resolve(arr[n], InstrumentMap(list)), n)
  /\ \A n \in 1 .. done : arr[n].form = "sound" => \E k \in 1 .. Len(events) : events[k].message = n
  /\ \A j, k \in 1 .. Len(events) : j < k => events[j].message < events[k].message

GivenInv(s) == Gives(Given(s), arrived[s], Len(arrived[s]) - Len(batch[s]), wanted[s])

IInv == TypeInv /\ \A s \in Stream : FreshInv(s) /\ BatchInv(s) /\ GivenInv(s)

-------------------------------------------------------------------------------
(* Least and greatest indices *)

LEMMA NatBelow == \E R : IsWellFoundedOn(R, Nat) /\ \A m, n \in Nat : <<n, m>> \in R <=> n < m
<1> DEFINE R == OpToRel(<, Nat)
<1>1. IsWellFoundedOn(R, Nat)
  BY NatLessThanWellFounded
<1>2. \A m, n \in Nat : <<n, m>> \in R <=> n < m
  BY DEF OpToRel
<1> HIDE DEF R
<1> QED
  BY <1>1, <1>2, Zenon

LEMMA LeastNat ==
  ASSUME NEW T, T \subseteq Nat, T # {}
  PROVE  \E m \in T : \A n \in T : m <= n
<1>1. PICK R : IsWellFoundedOn(R, Nat) /\ \A m, n \in Nat : <<n, m>> \in R <=> n < m
  BY NatBelow
<1>2. \E m \in T : \A n \in T : ~ (<<n, m>> \in R)
  BY <1>1, WFMin
<1>3. PICK m \in T : \A n \in T : ~ (<<n, m>> \in R)
  BY <1>2
<1>4. \A n \in T : ~ (n < m)
  BY <1>1, <1>3, Zenon
<1>5. \A n \in T : m <= n
  BY <1>4
<1> QED
  BY <1>5

LEMMA GreatestIndex ==
  ASSUME NEW n \in Nat, NEW T, T \subseteq 1 .. n, T # {}
  PROVE  \E m \in T : \A k \in T : k <= m
<1> DEFINE U == {n - k : k \in T}
<1>1. U \subseteq Nat /\ U # {}
  <2>1. \A k \in T : n - k \in Nat
    OBVIOUS
  <2> QED
    BY <2>1, Zenon
<1>2. PICK u \in U : \A v \in U : u <= v
  BY <1>1, LeastNat
<1>3. PICK m \in T : u = n - m
  OBVIOUS
<1>4. \A k \in T : k <= m
  <2> SUFFICES ASSUME NEW k \in T PROVE k <= m
    OBVIOUS
  <2>1. n - k \in U
    OBVIOUS
  <2>2. n - m <= n - k
    BY <1>2, <1>3, <2>1
  <2> QED
    BY <2>2
<1> QED
  BY <1>4

-------------------------------------------------------------------------------
(* Instruments and messages *)

LEMMA MapIs ==
  ASSUME NEW s \in Stream, NEW list \in Wanted[s] \cup {<<>>}
  PROVE  /\ DOMAIN InstrumentMap(list) = {Ticker(i) : i \in ToSet(list)}
         /\ \A t \in DOMAIN InstrumentMap(list) :
              /\ InstrumentMap(list)[t] \in ToSet(list) /\ Ticker(InstrumentMap(list)[t]) = t
<1>1. DOMAIN InstrumentMap(list) = {Ticker(i) : i \in ToSet(list)}
  BY DEF InstrumentMap, Tickers
<1>2. DOMAIN list = 1 .. Len(list) /\ Len(list) \in Nat
  <2>1. CASE list \in Wanted[s]
    <3>1. list \in Seq(ToSet(list))
      BY <2>1, InputAssumption
    <3> QED
      BY <3>1, LenProperties
  <2>2. CASE list = <<>>
    BY <2>2
  <2> QED
    BY <2>1, <2>2
<1>3. ASSUME NEW t \in {Ticker(i) : i \in ToSet(list)}
      PROVE  InstrumentMap(list)[t] \in ToSet(list) /\ Ticker(InstrumentMap(list)[t]) = t
  <2> DEFINE T == {k \in 1 .. Len(list) : Ticker(list[k]) = t}
  <2>1. T \subseteq 1 .. Len(list) /\ T # {}
    BY <1>2, <1>3 DEF ToSet
  <2>2. PICK m \in T : \A k \in T : k <= m
    BY <1>2, <2>1, GreatestIndex
  <2>3. \E k \in DOMAIN list :
          Ticker(list[k]) = t /\ \A l \in DOMAIN list : Ticker(list[l]) = t => l <= k
    BY <1>2, <2>2
  <2>4. PICK c : c = CHOOSE k \in DOMAIN list :
                       Ticker(list[k]) = t /\ \A l \in DOMAIN list : Ticker(list[l]) = t => l <= k
    OBVIOUS
  <2>5. c \in DOMAIN list /\ Ticker(list[c]) = t
    BY <2>3, <2>4
  <2>6. InstrumentMap(list)[t] = list[c]
    BY <2>4 DEF InstrumentMap, Tickers
  <2> QED
    BY <2>5, <2>6 DEF ToSet
<1> QED
  BY <1>1, <1>3

LEMMA TailOfPrefixed ==
  ASSUME NEW S, NEW x \in S, NEW l \in Seq(S)
  PROVE  (<<x>> \o l)[1] = x /\ Tail(<<x>> \o l) = l
OBVIOUS

\* A pair's ticker begins with "X:", a stock's does not.
LEMMA TickerIs ==
  ASSUME NEW s \in Stream, NEW list \in Wanted[s], NEW i \in ToSet(list)
  PROVE  /\ Letters(i) # <<>> /\ i # NoInstrument
         /\ Ticker(i)[1] = "X:" <=> IsCrypto(i)
         /\ IsCrypto(i) => Ticker(i) = <<"X:">> \o Letters(i) /\ Tail(Ticker(i)) = Letters(i)
         /\ ~IsCrypto(i) => Ticker(i) = Letters(i)
<1>1. /\ i # NoInstrument
      /\ Letters(i) \in Seq(STRING) \ {<<>>} /\ Head(Letters(i)) # "X:"
  BY SymbolAssumption
<1>2. CASE IsCrypto(i)
  <2>1. Ticker(i) = <<"X:">> \o Letters(i)
    BY <1>2 DEF Ticker
  <2>2. PICK l : l = Letters(i)
    OBVIOUS
  <2>3. (<<"X:">> \o l)[1] = "X:" /\ Tail(<<"X:">> \o l) = l
    <3>1. l \in Seq(STRING)
      BY <1>1, <2>2, Zenon
    <3>2. PICK S : S = STRING \cup {"X:"}
      OBVIOUS
    <3>3. l \in Seq(S) /\ "X:" \in S
      BY <3>1, <3>2
    <3> QED
      BY <3>3, TailOfPrefixed
  <2> QED
    BY <1>1, <1>2, <2>1, <2>2, <2>3
<1>3. CASE ~IsCrypto(i)
  BY <1>1, <1>3 DEF Ticker
<1> QED
  BY <1>2, <1>3

\* The message came on the channel of this instrument, or the letters do not tell.
Attributed(feed, list, channel, instrument) ==
  \/ channel = <<Prefix(feed, IsCrypto(instrument)), Ticker(instrument)>>
  \/ /\ Market(list) = "crypto"
     /\ \E i \in ToSet(list) \ {instrument} : Letters(i) = Letters(instrument)

\* A message that names an instrument is resolved, whatever else is in the stream.
LEMMA ResolveIs ==
  ASSUME NEW s \in Stream, NEW list \in Wanted[s] \cup {<<>>}, NEW feed,
         NEW msg \in Message(feed, list),
         NEW instrument, instrument = Resolve(msg, InstrumentMap(list))
  PROVE  /\ msg.form \in {"sound", "broken", "status"}
         /\ msg.form = "status" => instrument = NoInstrument
         /\ msg.form # "status" => /\ instrument \in ToSet(list) /\ instrument # NoInstrument
                                   /\ Attributed(feed, list, msg.channel, instrument)
<1>1. msg.form \in {"sound", "broken", "status"}
  BY DEF Message
<1>2. CASE msg.form = "status"
  BY <1>2 DEF Resolve, Named
<1>3. CASE msg.form # "status"
  <2>1. msg.channel \in Subscriptions(feed, list)
        /\ (msg.channel[2][1] = "X:") = (Market(list) = "crypto")
    BY <1>3 DEF Message
  <2>2. PICK i \in ToSet(list) : msg.channel = <<Prefix(feed, IsCrypto(i)), Ticker(i)>>
    BY <2>1 DEF Subscriptions
  <2>3. list \in Wanted[s]
    BY <2>2 DEF ToSet
  <2>4. /\ Letters(i) # <<>>
        /\ Ticker(i)[1] = "X:" <=> IsCrypto(i)
        /\ IsCrypto(i) => Ticker(i) = <<"X:">> \o Letters(i) /\ Tail(Ticker(i)) = Letters(i)
        /\ ~IsCrypto(i) => Ticker(i) = Letters(i)
    BY <2>2, <2>3, TickerIs
  <2>5. msg.channel[2] = Ticker(i)
    BY <2>2
  <2>6. PICK map : map = InstrumentMap(list)
    OBVIOUS
  <2>7. /\ Ticker(i) \in DOMAIN map
        /\ \A t \in DOMAIN map : map[t] \in ToSet(list) /\ Ticker(map[t]) = t
    <3>1. /\ DOMAIN map = {Ticker(j) : j \in ToSet(list)}
          /\ \A t \in DOMAIN map : map[t] \in ToSet(list) /\ Ticker(map[t]) = t
      BY <2>6, MapIs
    <3> QED
      BY <2>2, <3>1
  <2>8. CASE ~IsCrypto(i)
    <3>1. Named(msg) = Ticker(i)
      BY <1>3, <2>4, <2>5, <2>8 DEF Named
    <3>2. instrument = map[Ticker(i)]
      BY <2>4, <2>6, <2>7, <2>8, <3>1 DEF Resolve
    <3>3. instrument \in ToSet(list) /\ Ticker(instrument) = Ticker(i)
      BY <2>7, <3>2
    <3>4. ~IsCrypto(instrument) /\ instrument # NoInstrument
      BY <2>3, <2>4, <2>8, <3>3, TickerIs
    <3>5. IsCrypto(instrument) = IsCrypto(i)
      BY <2>8, <3>4 DEF IsCrypto
    <3>6. msg.channel = <<Prefix(feed, IsCrypto(instrument)), Ticker(instrument)>>
      BY <2>2, <3>3, <3>5
    <3> QED
      BY <1>1, <1>3, <3>3, <3>4, <3>6 DEF Attributed
  <2>9. CASE IsCrypto(i)
    <3>1. Named(msg) = Letters(i) /\ Market(list) = "crypto"
      BY <1>3, <2>1, <2>4, <2>5, <2>9 DEF Named
    <3>2. CASE Letters(i) \in DOMAIN map
      <4>1. instrument = map[Letters(i)]
        BY <2>4, <2>6, <3>1, <3>2 DEF Resolve
      <4>2. instrument \in ToSet(list) /\ Ticker(instrument) = Letters(i)
        BY <2>7, <3>2, <4>1
      <4>3. Letters(i)[1] # "X:"
        <5>1. Letters(i) \in Seq(STRING) \ {<<>>} /\ Head(Letters(i)) # "X:"
          BY <2>2, <2>3, SymbolAssumption
        <5> QED
          BY <5>1
      <4>4. ~IsCrypto(instrument) /\ instrument # NoInstrument /\ Letters(instrument) = Letters(i)
        BY <2>3, <4>2, <4>3, TickerIs
      <4>5. i \in ToSet(list) \ {instrument}
        BY <2>9, <4>4
      <4> QED
        BY <1>1, <1>3, <3>1, <4>2, <4>4, <4>5 DEF Attributed
    <3>3. CASE Letters(i) \notin DOMAIN map
      <4>1. instrument = map[Ticker(i)]
        BY <2>4, <2>6, <2>7, <2>9, <3>1, <3>3 DEF Resolve
      <4>2. instrument \in ToSet(list) /\ Ticker(instrument) = Ticker(i)
        BY <2>7, <4>1
      <4>3. IsCrypto(instrument) /\ instrument # NoInstrument
        BY <2>3, <2>4, <2>9, <4>2, TickerIs
      <4> QED
        BY <1>1, <1>3, <2>2, <2>9, <4>2, <4>3 DEF Attributed
    <3> QED
      BY <3>2, <3>3
  <2> QED
    BY <2>8, <2>9
<1> QED
  BY <1>1, <1>2, <1>3

-------------------------------------------------------------------------------
(* What is delivered *)

\* Messages that arrive change nothing in what was given.
LEMMA GivesStill ==
  ASSUME NEW events, NEW arr, NEW more, NEW done \in Nat, NEW list, Gives(events, arr, done, list),
         \A n \in 1 .. done : more[n] = arr[n]
  PROVE  Gives(events, more, done, list)
BY DEF Gives

\* The next message, of which no event is made.
LEMMA GivesNothing ==
  ASSUME NEW events, NEW arr, NEW done \in Nat, NEW list, Gives(events, arr, done, list),
         arr[done + 1].form # "sound"
  PROVE  Gives(events, arr, done + 1, list)
<1>1. \A n \in 1 .. done + 1 : n \in 1 .. done \/ n = done + 1
  OBVIOUS
<1>2. \A n \in 1 .. done : n \in 1 .. done + 1
  OBVIOUS
<1> QED
  BY <1>1, <1>2 DEF Gives

\* The next message and its event.
LEMMA GivesMore ==
  ASSUME NEW events \in Seq(Event), NEW arr, NEW done \in Nat, NEW list,
         Gives(events, arr, done, list), arr[done + 1].form = "sound",
         NEW event \in Event, event = EventOf(Resolve(arr[done + 1], InstrumentMap(list)), done + 1)
  PROVE  Gives(Append(events, event), arr, done + 1, list)
<1>1. PICK more : more = Append(events, event)
  OBVIOUS
<1>2. /\ Len(more) = Len(events) + 1 /\ Len(events) \in Nat
      /\ \A k \in 1 .. Len(events) : more[k] = events[k] /\ k \in 1 .. Len(more)
      /\ more[Len(events) + 1] = event /\ Len(events) + 1 \in 1 .. Len(more)
      /\ \A k \in 1 .. Len(more) : k \in 1 .. Len(events) \/ k = Len(events) + 1
  BY <1>1, AppendProperties, LenProperties
<1>3. event.message = done + 1
  BY DEF EventOf
<1>4. /\ \A n \in 1 .. done + 1 : n \in 1 .. done \/ n = done + 1
      /\ \A n \in 1 .. done : n \in 1 .. done + 1 /\ n < done + 1
      /\ done + 1 \in 1 .. done + 1
  OBVIOUS
<1>5. \A k \in 1 .. Len(events) : events[k].message \in 1 .. done
  <2> SUFFICES ASSUME NEW k \in 1 .. Len(events) PROVE events[k].message \in 1 .. done
    OBVIOUS
  <2>1. PICK n \in 1 .. done : events[k] = EventOf(Resolve(arr[n], InstrumentMap(list)), n)
    BY DEF Gives
  <2>2. EventOf(Resolve(arr[n], InstrumentMap(list)), n).message = n
    BY DEF EventOf
  <2> QED
    BY <2>1, <2>2
<1>6. \A k \in 1 .. Len(more) : \E n \in 1 .. done + 1 :
        /\ arr[n].form = "sound"
        /\ more[k] = EventOf(Resolve(arr[n], InstrumentMap(list)), n)
  BY <1>2, <1>4 DEF Gives
<1>7. \A n \in 1 .. done + 1 : arr[n].form = "sound" => \E k \in 1 .. Len(more) : more[k].message = n
  BY <1>2, <1>3, <1>4 DEF Gives
<1>8. ASSUME NEW j \in 1 .. Len(more), NEW k \in 1 .. Len(more), j < k
      PROVE  more[j].message < more[k].message
  <2>1. j \in 1 .. Len(events)
    BY <1>2, <1>8
  <2>2. CASE k \in 1 .. Len(events)
    BY <1>2, <1>8, <2>1, <2>2 DEF Gives
  <2>3. CASE k = Len(events) + 1
    BY <1>2, <1>3, <1>4, <1>5, <2>1, <2>3
  <2> QED
    BY <1>2, <2>2, <2>3
<1> QED
  BY <1>1, <1>6, <1>7, <1>8 DEF Gives

-------------------------------------------------------------------------------
(* The jobs of the executor *)

LEMMA PoolGrows ==
  ASSUME TypeInv, NEW job \in Stream \cup Request, pool' = Append(pool, job)
  PROVE  /\ pool' \in Seq(Stream \cup Request)
         /\ \A x : PoolHas(x)' => PoolHas(x) \/ x = job
<1>1. PICK S : S = Stream \cup Request
  OBVIOUS
<1>2. /\ pool' \in Seq(S) /\ Len(pool') = Len(pool) + 1 /\ Len(pool) \in Nat
      /\ \A m \in 1 .. Len(pool) : pool'[m] = pool[m]
      /\ pool'[Len(pool) + 1] = job
      /\ \A m \in 1 .. Len(pool') : m \in 1 .. Len(pool) \/ m = Len(pool) + 1
  BY <1>1, AppendProperties, LenProperties DEF TypeInv
<1> QED
  BY <1>1, <1>2 DEF PoolHas

LEMMA PoolShrinks ==
  ASSUME TypeInv, pool # <<>>, pool' = Tail(pool)
  PROVE  /\ pool' \in Seq(Stream \cup Request) /\ PoolHas(Head(pool))
         /\ \A x : PoolHas(x)' => PoolHas(x)
<1>1. PICK S : S = Stream \cup Request
  OBVIOUS
<1>2. /\ pool' \in Seq(S) /\ Len(pool') = Len(pool) - 1 /\ Len(pool) \in Nat \ {0}
      /\ \A m \in 1 .. Len(pool') : pool'[m] = pool[m + 1] /\ m + 1 \in 1 .. Len(pool)
      /\ Head(pool) = pool[1] /\ 1 \in 1 .. Len(pool)
  BY <1>1, HeadTailProperties, LenProperties, EmptySeq DEF TypeInv
<1> QED
  BY <1>1, <1>2 DEF PoolHas

LEMMA PoolLoses ==
  ASSUME TypeInv, NEW job, pool' = RemoveFirst(pool, job)
  PROVE  /\ pool' \in Seq(Stream \cup Request)
         /\ \A x : PoolHas(x)' => PoolHas(x)
<1>1. PICK S : S = Stream \cup Request
  OBVIOUS
<1>2. pool \in Seq(S) /\ Len(pool) \in Nat
  BY <1>1, LenProperties DEF TypeInv
<1> DEFINE T == {k \in 1 .. Len(pool) : pool[k] = job}
<1>3. CASE T = {}
  <2>1. ~\E k \in 1 .. Len(pool) : pool[k] = job
    BY <1>3
  <2>2. pool' = pool
    BY <2>1 DEF RemoveFirst
  <2> QED
    BY <1>1, <1>2, <2>2 DEF PoolHas
<1>4. CASE T # {}
  <2>1. PICK c : c = CHOOSE k \in T : \A l \in T : k <= l
    OBVIOUS
  <2>2. c \in T
    <3>1. T \subseteq Nat
      BY <1>2
    <3> HIDE DEF T
    <3>2. \E k \in T : \A l \in T : k <= l
      BY <1>4, <3>1, LeastNat
    <3> QED
      BY <2>1, <3>2
  <2>3. \E k \in 1 .. Len(pool) : pool[k] = job
    BY <1>4
  <2>4. SelectInSeq(pool, LAMBDA v : v = job) = c
    BY <1>4, <2>1 DEF SelectInSeq, Min
  <2>5. pool' = SubSeq(pool, 1, c - 1) \o SubSeq(pool, c + 1, Len(pool))
    BY <2>3, <2>4 DEF RemoveFirst, RemoveAt
  <2>6. c \in 1 .. Len(pool)
    BY <2>2
  <2> HIDE DEF T
  <2>7. PICK a : a = SubSeq(pool, 1, c - 1)
    OBVIOUS
  <2>8. PICK b : b = SubSeq(pool, c + 1, Len(pool))
    OBVIOUS
  <2>9. /\ a \in Seq(S) /\ Len(a) = c - 1 /\ \A k \in 1 .. c - 1 : a[k] = pool[k]
    BY <1>2, <2>6, <2>7, SubSeqProperties
  <2>10. /\ b \in Seq(S) /\ Len(b) = Len(pool) - c
         /\ \A k \in 1 .. Len(pool) - c : b[k] = pool[c + k]
    BY <1>2, <2>6, <2>8, SubSeqProperties
  <2>11. /\ a \o b \in Seq(S) /\ Len(a \o b) = Len(pool) - 1
         /\ \A k \in 1 .. Len(pool) - 1 :
              (a \o b)[k] = IF k <= c - 1 THEN a[k] ELSE b[k - (c - 1)]
    <3>1. /\ a \o b \in Seq(S) /\ Len(a \o b) = Len(a) + Len(b)
          /\ \A k \in 1 .. Len(a) + Len(b) :
               (a \o b)[k] = IF k <= Len(a) THEN a[k] ELSE b[k - Len(a)]
      BY <2>9, <2>10, ConcatProperties
    <3>2. Len(a) + Len(b) = Len(pool) - 1
      BY <1>2, <2>6, <2>9, <2>10
    <3> QED
      BY <2>9, <3>1, <3>2
  <2>12. \A k \in 1 .. Len(pool) - 1 : \E m \in 1 .. Len(pool) : (a \o b)[k] = pool[m]
    <3> SUFFICES ASSUME NEW k \in 1 .. Len(pool) - 1
                 PROVE  \E m \in 1 .. Len(pool) : (a \o b)[k] = pool[m]
      OBVIOUS
    <3>1. CASE k <= c - 1
      <4>1. k \in 1 .. c - 1 /\ k \in 1 .. Len(pool)
        BY <1>2, <2>6, <3>1
      <4> QED
        BY <2>9, <2>11, <3>1, <4>1
    <3>2. CASE ~(k <= c - 1)
      <4>1. k - (c - 1) \in 1 .. Len(pool) - c /\ c + (k - (c - 1)) = k + 1 /\ k + 1 \in 1 .. Len(pool)
        BY <1>2, <2>6, <3>2
      <4> QED
        BY <2>10, <2>11, <3>2, <4>1
    <3> QED
      BY <3>1, <3>2
  <2>13. PICK q : q = a \o b
    OBVIOUS
  <2>14. pool' = q
    BY <2>5, <2>7, <2>8, <2>13
  <2>15. q \in Seq(S) /\ \A k \in 1 .. Len(q) : \E m \in 1 .. Len(pool) : q[k] = pool[m]
    BY <2>11, <2>12, <2>13
  <2>16. \A x : (\E k \in 1 .. Len(pool') : pool'[k] = x) => PoolHas(x)
    BY <2>14, <2>15 DEF PoolHas
  <2>17. \A x : PoolHas(x)' => PoolHas(x)
    BY <2>16 DEF PoolHas
  <2> QED
    BY <1>1, <2>14, <2>15, <2>17
<1> QED
  BY <1>3, <1>4

-------------------------------------------------------------------------------
(* Steps *)

LEMMA InitInv == Init => IInv
<1> SUFFICES ASSUME Init PROVE IInv
  OBVIOUS
<1>1. TypeInv
  BY DEF Init, TypeInv
<1>2. ASSUME NEW s \in Stream
      PROVE  FreshInv(s) /\ BatchInv(s) /\ GivenInv(s)
  <2>1. FreshInv(s)
    BY <1>2 DEF Init, FreshInv, PoolHas
  <2>2. arrived[s] = <<>> /\ batch[s] = <<>> /\ wanted[s] = <<>>
    BY DEF Init
  <2>3. BatchInv(s)
    BY <2>2 DEF BatchInv, IsBatch
  <2>4. Given(s) = <<>>
    BY DEF Init, Given
  <2>5. GivenInv(s)
    BY <2>2, <2>4 DEF GivenInv, Gives
  <2> QED
    BY <2>1, <2>3, <2>5
<1> QED
  BY <1>1, <1>2 DEF IInv

\* A stream whose messages and events stay as they are.
LEMMA Aside ==
  ASSUME IInv, NEW s \in Stream,
         arrived'[s] = arrived[s], batch'[s] = batch[s], wanted'[s] = wanted[s],
         queue'[s] = queue[s], yielded'[s] = yielded[s]
  PROVE  BatchInv(s)' /\ GivenInv(s)'
BY DEF IInv, BatchInv, GivenInv, Given

LEMMA StillFresh ==
  ASSUME IInv, NEW s \in Stream,
         gen'[s] # "fresh"
           \/ /\ gen'[s] = gen[s] /\ task'[s] = task[s] /\ socket'[s] = socket[s]
              /\ arrived'[s] = arrived[s] /\ (PoolHas(s)' => PoolHas(s))
  PROVE  FreshInv(s)'
<1>1. CASE gen'[s] # "fresh"
  BY <1>1 DEF FreshInv
<1>2. CASE ~(gen'[s] # "fresh")
  <2>1. FreshInv(s)
    BY DEF IInv
  <2>2. /\ gen'[s] = gen[s] /\ task'[s] = task[s] /\ socket'[s] = socket[s]
        /\ arrived'[s] = arrived[s] /\ (PoolHas(s)' => PoolHas(s))
    BY <1>2
  <2>3. gen[s] = "fresh"
    BY <1>2, <2>2
  <2>4. task[s] = "none" /\ socket[s] = "none" /\ arrived[s] = <<>> /\ ~PoolHas(s)
    BY <2>1, <2>3 DEF FreshInv
  <2>5. task'[s] = "none" /\ socket'[s] = "none" /\ arrived'[s] = <<>>
    BY <2>2, <2>4
  <2>6. ~PoolHas(s)'
    BY <2>2, <2>4, Zenon
  <2> QED
    BY <2>5, <2>6 DEF FreshInv
<1> QED
  BY <1>1, <1>2

\* Steps of the connector, the requests, the sockets and the tasks.
LEMMA Aside_Inv ==
  ASSUME IInv, UNCHANGED <<wanted, arrived, batch, queue, yielded>>,
         pool' \in Seq(Stream \cup Request),
         DOMAIN gen' = Stream, DOMAIN task' = Stream, DOMAIN socket' = Stream,
         \A s \in Stream :
           gen'[s] # "fresh"
             \/ /\ gen'[s] = gen[s] /\ task'[s] = task[s] /\ socket'[s] = socket[s]
                /\ PoolHas(s)' => PoolHas(s)
  PROVE  IInv'
<1>1. TypeInv'
  BY DEF IInv, TypeInv
<1>2. \A s \in Stream : BatchInv(s)' /\ GivenInv(s)'
  BY Aside
<1>3. \A s \in Stream : FreshInv(s)'
  BY StillFresh
<1> QED
  BY <1>1, <1>2, <1>3 DEF IInv

LEMMA Request_Inv ==
  ASSUME IInv, Connect \/ Disconnect \/ (\E r \in Request : Ask(r) \/ StartListing(r) \/ ListingAnswers(r))
  PROVE  IInv'
<1>1. UNCHANGED streamVars
  BY DEF Connect, Disconnect, Ask, StartListing, ListingAnswers
<1>2. TypeInv
  BY DEF IInv
<1>3. pool' \in Seq(Stream \cup Request) /\ \A s \in Stream : PoolHas(s)' => PoolHas(s)
  <2>1. CASE pool' = pool
    BY <1>2, <2>1 DEF TypeInv, PoolHas
  <2>2. ASSUME NEW r \in Request, pool' = Append(pool, r)
        PROVE  pool' \in Seq(Stream \cup Request) /\ \A s \in Stream : PoolHas(s)' => PoolHas(s)
    <3>1. \A s \in Stream : s # r
      BY InputAssumption
    <3> QED
      BY <1>2, <2>2, <3>1, PoolGrows
  <2>3. CASE pool # <<>> /\ pool' = Tail(pool)
    BY <1>2, <2>3, PoolShrinks
  <2> QED
    BY <2>1, <2>2, <2>3 DEF Connect, Disconnect, Ask, StartListing, ListingAnswers
<1> QED
  BY <1>1, <1>2, <1>3, Aside_Inv DEF streamVars, TypeInv

LEMMA Stream_Inv ==
  ASSUME IInv, NEW s \in Stream,
         \/ RunClient(s) \/ SocketOpens(s) \/ SocketEnds(s) \/ Works(s) \/ Resume(s) \/ Close(s)
  PROVE  IInv'
<1>1. TypeInv /\ FreshInv(s)
  BY DEF IInv
<1>2. UNCHANGED <<wanted, arrived, batch, queue, yielded>>
  BY DEF RunClient, SocketOpens, SocketEnds, Works, RunWebsocket, WebsocketReturns, WebsocketCancelled,
         EndClose, Resume, Close
<1>3. \A t \in Stream : t # s => gen'[t] = gen[t] /\ task'[t] = task[t] /\ socket'[t] = socket[t]
  BY <1>1 DEF TypeInv, RunClient, SocketOpens, SocketEnds, Works, RunWebsocket, WebsocketReturns,
              WebsocketCancelled, EndClose, Resume, Close
<1>4. DOMAIN gen' = Stream /\ DOMAIN task' = Stream /\ DOMAIN socket' = Stream
  BY <1>1 DEF TypeInv, RunClient, SocketOpens, SocketEnds, Works, RunWebsocket, WebsocketReturns,
              WebsocketCancelled, EndClose, Resume, Close
<1>5. pool' \in Seq(Stream \cup Request) /\ \A x : PoolHas(x)' => PoolHas(x) \/ x = s
  <2>1. CASE pool' = pool
    BY <1>1, <2>1 DEF TypeInv, PoolHas
  <2>2. CASE pool' = Append(pool, s)
    BY <1>1, <2>2, PoolGrows
  <2>3. CASE pool # <<>> /\ pool' = Tail(pool)
    BY <1>1, <2>3, PoolShrinks
  <2>4. CASE pool' = RemoveFirst(pool, s)
    BY <1>1, <2>4, PoolLoses
  <2> QED
    BY <2>1, <2>2, <2>3, <2>4 DEF RunClient, SocketOpens, SocketEnds, Works, RunWebsocket, WebsocketReturns,
       WebsocketCancelled, EndClose, Resume, Close
<1>6. gen'[s] # "fresh"
  <2>1. CASE RunClient(s)
    <3>1. PoolHas(s)
      BY <1>1, <2>1, PoolShrinks DEF RunClient
    <3> QED
      BY <1>1, <2>1, <3>1 DEF FreshInv, RunClient
  <2>2. CASE SocketOpens(s) \/ SocketEnds(s)
    BY <1>1, <2>2 DEF FreshInv, SocketOpens, SocketEnds, Sockets
  <2>3. CASE Works(s)
    BY <1>1, <2>3 DEF TypeInv, FreshInv, Works, RunWebsocket, WebsocketReturns, WebsocketCancelled, EndClose
  <2>4. CASE Resume(s) \/ Close(s)
    BY <1>1, <2>4 DEF TypeInv, Resume, Close
  <2> QED
    BY <2>1, <2>2, <2>3, <2>4
<1> QED
  BY <1>2, <1>3, <1>4, <1>5, <1>6, Aside_Inv

\* The other streams, in a step of one of them that leaves the executor's jobs alone.
LEMMA Others ==
  ASSUME IInv, NEW t \in Stream,
         gen'[t] = gen[t], task'[t] = task[t], socket'[t] = socket[t], pool' = pool,
         wanted'[t] = wanted[t], arrived'[t] = arrived[t], batch'[t] = batch[t],
         queue'[t] = queue[t], yielded'[t] = yielded[t]
  PROVE  FreshInv(t)' /\ BatchInv(t)' /\ GivenInv(t)'
<1>1. PoolHas(t)' => PoolHas(t)
  BY DEF PoolHas
<1>2. FreshInv(t)'
  BY <1>1, StillFresh
<1> QED
  BY <1>2, Aside

\* A generator's first step: nothing arrived before, so nothing is said of it.
LEMMA Start_Inv ==
  ASSUME IInv, NEW s \in Stream, Start(s)
  PROVE  IInv'
<1>1. TypeInv /\ FreshInv(s) /\ BatchInv(s) /\ GivenInv(s)
  BY DEF IInv
<1>2. arrived[s] = <<>>
  BY <1>1 DEF Start, FreshInv
<1>3. batch[s] = <<>>
  <2>1. PICK b : b = batch[s]
    OBVIOUS
  <2>2. PICK messages : messages = Message(Feed[s], wanted[s])
    OBVIOUS
  <2>3. b \in Seq(messages) /\ Len(b) <= 0
    BY <1>1, <1>2, <2>1, <2>2 DEF BatchInv, IsBatch
  <2>4. b = <<>>
    BY <2>3, EmptySeq, LenProperties
  <2> QED
    BY <2>1, <2>4
<1>4. /\ gen'[s] # "fresh" /\ UNCHANGED <<socket, arrived, batch, queue, yielded, pool>>
      /\ DOMAIN gen' = Stream /\ DOMAIN wanted' = Stream /\ DOMAIN task' = Stream
      /\ \A t \in Stream \ {s} : gen'[t] = gen[t] /\ wanted'[t] = wanted[t] /\ task'[t] = task[t]
      /\ wanted'[s] \in Wanted[s] \cup {<<>>}
  BY <1>1 DEF Start, TypeInv
<1>5. TypeInv'
  BY <1>1, <1>4 DEF TypeInv
<1>6. FreshInv(s)'
  BY <1>4 DEF FreshInv
<1>7. BatchInv(s)'
  <2>1. arrived'[s] = <<>> /\ batch'[s] = <<>>
    BY <1>2, <1>3, <1>4
  <2> QED
    BY <2>1 DEF BatchInv, IsBatch
<1>8. GivenInv(s)'
  <2>1. PICK list : list = wanted[s]
    OBVIOUS
  <2>2. PICK events : events = Given(s)
    OBVIOUS
  <2>3. Gives(events, <<>>, 0, list)
    BY <1>1, <1>2, <1>3, <2>1, <2>2 DEF GivenInv
  <2>4. Len(events) = 0 \/ 1 \notin 1 .. Len(events)
    BY <2>3 DEF Gives
  <2>5. \A k \in 1 .. Len(events) : FALSE
    BY <2>3 DEF Gives
  <2>6. PICK new : new = wanted'[s]
    OBVIOUS
  <2>7. Gives(events, <<>>, 0, new)
    BY <2>5 DEF Gives
  <2>8. Given(s)' = events /\ arrived'[s] = <<>> /\ batch'[s] = <<>>
    BY <1>2, <1>3, <1>4, <2>2 DEF Given
  <2>9. Gives(Given(s)', arrived'[s], Len(arrived'[s]) - Len(batch'[s]), wanted'[s])
    BY <2>6, <2>7, <2>8
  <2> QED
    BY <2>9 DEF GivenInv
<1>9. \A t \in Stream \ {s} : FreshInv(t)' /\ BatchInv(t)' /\ GivenInv(t)'
  BY <1>4, Others
<1> QED
  BY <1>5, <1>6, <1>7, <1>8, <1>9 DEF IInv

\* Messages that come are a batch, and the processor has done those before.
LEMMA BatchCame ==
  ASSUME NEW messages, NEW arr \in Seq(messages), NEW n \in Nat, NEW msgs \in [1 .. n -> messages]
  PROVE  /\ IsBatch(arr \o msgs, msgs, messages)
         /\ Len(arr \o msgs) - Len(msgs) = Len(arr)
         /\ \A k \in 1 .. Len(arr) : (arr \o msgs)[k] = arr[k]
<1>1. msgs \in Seq(messages) /\ Len(msgs) = n
  OBVIOUS
<1>2. PICK m : m = msgs
  OBVIOUS
<1>3. m \in Seq(messages) /\ Len(m) = n
  BY <1>1, <1>2
<1>4. PICK more : more = arr \o m
  OBVIOUS
<1>5. /\ more \in Seq(messages) /\ Len(more) = Len(arr) + n /\ Len(arr) \in Nat
      /\ \A k \in 1 .. Len(arr) + n : more[k] = IF k <= Len(arr) THEN arr[k] ELSE m[k - Len(arr)]
  BY <1>3, <1>4, ConcatProperties, LenProperties
<1>6. \A k \in 1 .. Len(arr) : more[k] = arr[k]
  BY <1>5
<1>7. \A k \in 1 .. n : m[k] = more[Len(more) - n + k]
  <2> SUFFICES ASSUME NEW k \in 1 .. n PROVE m[k] = more[Len(more) - n + k]
    OBVIOUS
  <2>1. Len(more) - n + k = Len(arr) + k /\ Len(arr) + k \in 1 .. Len(arr) + n
        /\ ~(Len(arr) + k <= Len(arr)) /\ (Len(arr) + k) - Len(arr) = k
    BY <1>5
  <2> QED
    BY <1>5, <2>1
<1>8. IsBatch(more, m, messages)
  BY <1>3, <1>5, <1>7 DEF IsBatch
<1> QED
  BY <1>2, <1>3, <1>4, <1>5, <1>6, <1>8

\* Messages arrive only in a stream that has begun, and tell of what it wants.
LEMMA Receive_Inv ==
  ASSUME IInv, NEW s \in Stream, Receive(s)
  PROVE  IInv'
<1>1. TypeInv /\ FreshInv(s) /\ BatchInv(s) /\ GivenInv(s)
  BY DEF IInv
<1>2. UNCHANGED <<gen, wanted, task, socket, queue, yielded, pool>>
  BY DEF Receive
<1>3. DOMAIN arrived' = Stream /\ DOMAIN batch' = Stream
      /\ \A t \in Stream \ {s} : arrived'[t] = arrived[t] /\ batch'[t] = batch[t]
  BY <1>1 DEF Receive, TypeInv
<1>4. TypeInv'
  BY <1>1, <1>2, <1>3 DEF TypeInv
<1>5. FreshInv(s)'
  <2>1. gen[s] # "fresh"
    BY <1>1 DEF Receive, Sockets, FreshInv
  <2> QED
    BY <1>2, <2>1 DEF FreshInv
<1>6. PICK list : list = wanted[s]
  OBVIOUS
<1>7. PICK messages : messages = Message(Feed[s], list)
  OBVIOUS
<1>8. PICK arr : arr = arrived[s]
  OBVIOUS
<1>9. \E n \in 1 .. MaxBatch : \E msgs \in [1 .. n -> messages] :
        arrived' = [arrived EXCEPT ![s] = @ \o msgs] /\ batch' = [batch EXCEPT ![s] = msgs]
  BY <1>6, <1>7 DEF Receive
<1>10. PICK n \in 1 .. MaxBatch : \E msgs \in [1 .. n -> messages] :
         arrived'[s] = arr \o msgs /\ batch'[s] = msgs
  BY <1>1, <1>8, <1>9 DEF TypeInv
<1>11. n \in Nat
  <2>1. MaxBatch \in Nat
    BY InputAssumption, Zenon
  <2> QED
    BY <2>1
<1>12. PICK msgs \in [1 .. n -> messages] : arrived'[s] = arr \o msgs /\ batch'[s] = msgs
  BY <1>10
<1>13. arr \in Seq(messages)
  BY <1>1, <1>6, <1>7, <1>8 DEF BatchInv, IsBatch
<1>14. /\ IsBatch(arr \o msgs, msgs, messages)
       /\ Len(arr \o msgs) - Len(msgs) = Len(arr)
       /\ \A k \in 1 .. Len(arr) : (arr \o msgs)[k] = arr[k]
  BY <1>11, <1>13, BatchCame
<1>15. BatchInv(s)'
  BY <1>2, <1>6, <1>7, <1>12, <1>14 DEF BatchInv
<1>16. GivenInv(s)'
  <2>1. PICK events : events = Given(s)
    OBVIOUS
  <2>2. Len(arr) - Len(batch[s]) = Len(arr) /\ Len(arr) \in Nat
    <3>1. Len(batch[s]) = 0
      BY DEF Receive
    <3> QED
      BY <1>13, <3>1, LenProperties
  <2>3. Gives(events, arr, Len(arr), list)
    BY <1>1, <1>6, <1>8, <2>1, <2>2 DEF GivenInv
  <2>4. PICK more : more = arr \o msgs
    OBVIOUS
  <2>5. Gives(events, more, Len(arr), list)
    BY <1>14, <2>2, <2>3, <2>4, GivesStill
  <2>6. Given(s)' = events
    BY <1>2, <2>1 DEF Given
  <2>7. Gives(Given(s)', arrived'[s], Len(arrived'[s]) - Len(batch'[s]), wanted'[s])
    BY <1>2, <1>6, <1>12, <1>14, <2>4, <2>5, <2>6
  <2> QED
    BY <2>7 DEF GivenInv
<1>17. \A t \in Stream \ {s} : FreshInv(t)' /\ BatchInv(t)' /\ GivenInv(t)'
  BY <1>2, <1>3, Others
<1> QED
  BY <1>4, <1>5, <1>15, <1>16, <1>17 DEF IInv

\* What is queued and what is yielded, one after the other.
LEMMA AppendedAfter ==
  ASSUME NEW S, NEW y \in Seq(S), NEW q \in Seq(S), NEW e \in S
  PROVE  y \o Append(q, e) = Append(y \o q, e)
<1>1. PICK p : p = Append(q, e)
  OBVIOUS
<1>2. /\ p \in Seq(S) /\ Len(p) = Len(q) + 1 /\ Len(q) \in Nat /\ Len(y) \in Nat
      /\ \A k \in 1 .. Len(q) : p[k] = q[k]
      /\ p[Len(q) + 1] = e
  BY <1>1, AppendProperties, LenProperties
<1>3. PICK a : a = y \o q
  OBVIOUS
<1>4. /\ a \in Seq(S) /\ Len(a) = Len(y) + Len(q)
      /\ \A k \in 1 .. Len(y) + Len(q) : a[k] = IF k <= Len(y) THEN y[k] ELSE q[k - Len(y)]
  BY <1>3, ConcatProperties
<1>5. PICK b : b = y \o p
  OBVIOUS
<1>6. /\ b \in Seq(S) /\ Len(b) = Len(y) + Len(p)
      /\ \A k \in 1 .. Len(y) + Len(p) : b[k] = IF k <= Len(y) THEN y[k] ELSE p[k - Len(y)]
  <2>1. p \in Seq(S)
    BY <1>2
  <2> QED
    BY <1>5, <2>1, ConcatProperties
<1>7. PICK c : c = Append(a, e)
  OBVIOUS
<1>8. /\ c \in Seq(S) /\ Len(c) = Len(a) + 1
      /\ \A k \in 1 .. Len(a) : c[k] = a[k]
      /\ c[Len(a) + 1] = e
  BY <1>4, <1>7, AppendProperties
<1>9. Len(b) = Len(c) /\ Len(b) = Len(y) + Len(q) + 1
  BY <1>2, <1>4, <1>6, <1>8
<1>10. ASSUME NEW k \in 1 .. Len(b) PROVE b[k] = c[k]
  <2>1. CASE k <= Len(y)
    <3>1. k \in 1 .. Len(a) /\ k \in 1 .. Len(y) + Len(p) /\ k \in 1 .. Len(y) + Len(q)
      BY <1>2, <1>4, <1>9, <2>1
    <3> QED
      BY <1>4, <1>6, <1>8, <2>1, <3>1
  <2>2. CASE ~(k <= Len(y)) /\ k <= Len(y) + Len(q)
    <3>1. /\ k \in 1 .. Len(a) /\ k \in 1 .. Len(y) + Len(p) /\ k \in 1 .. Len(y) + Len(q)
          /\ k - Len(y) \in 1 .. Len(q)
      BY <1>2, <1>4, <1>9, <2>2
    <3> QED
      BY <1>2, <1>4, <1>6, <1>8, <2>2, <3>1
  <2>3. CASE ~(k <= Len(y) + Len(q))
    <3>1. /\ k = Len(a) + 1 /\ k \in 1 .. Len(y) + Len(p) /\ ~(k <= Len(y))
          /\ k - Len(y) = Len(q) + 1
      <4>1. k \in 1 .. Len(y) + Len(q) + 1 /\ Len(y) \in Nat /\ Len(q) \in Nat
        BY <1>2, <1>9
      <4>2. k = Len(y) + Len(q) + 1
        BY <2>3, <4>1
      <4> QED
        BY <1>2, <1>4, <4>1, <4>2
    <3> QED
      BY <1>2, <1>6, <1>8, <3>1
  <2> QED
    BY <2>1, <2>2, <2>3
<1>11. b = c
  BY <1>6, <1>8, <1>9, <1>10, SeqEqual
<1> QED
  BY <1>1, <1>3, <1>5, <1>7, <1>11

LEMMA PassedOver ==
  ASSUME NEW S, NEW y \in Seq(S), NEW q \in Seq(S), q # <<>>
  PROVE  Append(y, Head(q)) \o Tail(q) = y \o q
<1>1. PICK h : h = Append(y, Head(q))
  OBVIOUS
<1>2. PICK r : r = Tail(q)
  OBVIOUS
<1>3. /\ Head(q) \in S /\ Head(q) = q[1] /\ r \in Seq(S) /\ Len(r) = Len(q) - 1
      /\ Len(q) \in Nat \ {0} /\ Len(y) \in Nat
      /\ \A k \in 1 .. Len(r) : r[k] = q[k + 1]
  BY <1>2, HeadTailProperties, LenProperties, EmptySeq
<1>4. /\ h \in Seq(S) /\ Len(h) = Len(y) + 1
      /\ \A k \in 1 .. Len(y) : h[k] = y[k]
      /\ h[Len(y) + 1] = q[1]
  BY <1>1, <1>3, AppendProperties
<1>5. PICK a : a = y \o q
  OBVIOUS
<1>6. /\ a \in Seq(S) /\ Len(a) = Len(y) + Len(q)
      /\ \A k \in 1 .. Len(y) + Len(q) : a[k] = IF k <= Len(y) THEN y[k] ELSE q[k - Len(y)]
  BY <1>5, ConcatProperties
<1>7. PICK b : b = h \o r
  OBVIOUS
<1>8. /\ b \in Seq(S) /\ Len(b) = Len(h) + Len(r)
      /\ \A k \in 1 .. Len(h) + Len(r) : b[k] = IF k <= Len(h) THEN h[k] ELSE r[k - Len(h)]
  BY <1>3, <1>4, <1>7, ConcatProperties
<1>9. Len(b) = Len(a) /\ Len(b) = Len(y) + Len(q)
  BY <1>3, <1>4, <1>6, <1>8
<1>10. ASSUME NEW k \in 1 .. Len(b) PROVE b[k] = a[k]
  <2>0. k \in 1 .. Len(h) + Len(r) /\ k \in 1 .. Len(y) + Len(q)
    BY <1>3, <1>4, <1>9
  <2>1. CASE k <= Len(y)
    <3>1. k \in 1 .. Len(y) /\ k <= Len(h)
      BY <1>3, <1>4, <2>1
    <3> QED
      BY <1>4, <1>6, <1>8, <2>0, <2>1, <3>1
  <2>2. CASE k = Len(y) + 1
    <3>1. k <= Len(h) /\ ~(k <= Len(y)) /\ k - Len(y) = 1
      BY <1>3, <1>4, <2>2
    <3> QED
      BY <1>4, <1>6, <1>8, <2>0, <2>2, <3>1
  <2>3. CASE k > Len(y) + 1
    <3>1. /\ ~(k <= Len(h)) /\ ~(k <= Len(y))
          /\ k - Len(h) \in 1 .. Len(r) /\ (k - Len(h)) + 1 = k - Len(y)
      BY <1>3, <1>4, <1>9, <2>3
    <3> QED
      BY <1>3, <1>6, <1>8, <2>0, <3>1
  <2> QED
    BY <1>3, <2>1, <2>2, <2>3
<1>11. b = a
  BY <1>6, <1>8, <1>9, <1>10, SeqEqual
<1> QED
  BY <1>1, <1>2, <1>5, <1>7, <1>11

\* The processor does the first message of the batch.
LEMMA BatchGoesOn ==
  ASSUME NEW messages, NEW arr, NEW bat, IsBatch(arr, bat, messages), bat # <<>>
  PROVE  /\ IsBatch(arr, Tail(bat), messages)
         /\ Head(bat) \in messages /\ Head(bat) = arr[Len(arr) - Len(bat) + 1]
<1> DEFINE done == Len(arr) - Len(bat)
           msg  == Head(bat)
<1>0. PICK rest : rest = Tail(bat)
  OBVIOUS
<1>1. /\ arr \in Seq(messages) /\ bat \in Seq(messages) /\ Len(bat) <= Len(arr)
      /\ \A k \in 1 .. Len(bat) : bat[k] = arr[done + k]
  BY DEF IsBatch
<1>2. /\ msg \in messages /\ msg = bat[1] /\ rest \in Seq(messages)
      /\ Len(rest) = Len(bat) - 1 /\ Len(bat) \in Nat \ {0} /\ Len(arr) \in Nat
      /\ \A k \in 1 .. Len(rest) : rest[k] = bat[k + 1]
  BY <1>0, <1>1, HeadTailProperties, LenProperties, EmptySeq
<1>3. done \in Nat /\ Len(arr) - Len(rest) = done + 1 /\ Len(rest) <= Len(arr)
  BY <1>1, <1>2
<1>4. msg = arr[done + 1]
  <2>1. 1 \in 1 .. Len(bat)
    BY <1>2
  <2> QED
    BY <1>1, <1>2, <2>1
<1>5. \A k \in 1 .. Len(rest) : rest[k] = arr[Len(arr) - Len(rest) + k]
  <2> SUFFICES ASSUME NEW k \in 1 .. Len(rest) PROVE rest[k] = arr[Len(arr) - Len(rest) + k]
    OBVIOUS
  <2>1. k + 1 \in 1 .. Len(bat) /\ done + (k + 1) = Len(arr) - Len(rest) + k
    BY <1>2, <1>3
  <2> QED
    BY <1>1, <1>2, <2>1
<1>6. IsBatch(arr, rest, messages)
  BY <1>1, <1>2, <1>3, <1>5 DEF IsBatch
<1> QED
  BY <1>0, <1>2, <1>4, <1>6

\* The processor makes an event of a sound message and of no other.
LEMMA Process_Inv ==
  ASSUME IInv, NEW s \in Stream, Process(s)
  PROVE  IInv'
<1>1. TypeInv /\ BatchInv(s) /\ GivenInv(s) /\ FreshInv(s)
  BY DEF IInv
<1>2. /\ UNCHANGED <<gen, wanted, task, socket, arrived, yielded, pool>>
      /\ batch[s] # <<>> /\ batch' = [batch EXCEPT ![s] = Tail(@)]
  BY DEF Process
<1>3. DOMAIN batch' = Stream /\ batch'[s] = Tail(batch[s])
      /\ \A t \in Stream \ {s} : batch'[t] = batch[t]
  BY <1>1, <1>2 DEF TypeInv
<1>4. PICK list : list = wanted[s]
  OBVIOUS
<1>5. PICK feed : feed = Feed[s]
  OBVIOUS
<1>6. PICK arr : arr = arrived[s]
  OBVIOUS
<1>7. PICK bat : bat = batch[s]
  OBVIOUS
<1>8. PICK messages : messages = Message(feed, list)
  OBVIOUS
<1>9. PICK done : done = Len(arr) - Len(bat)
  OBVIOUS
<1>10. PICK msg : msg = Head(bat)
  OBVIOUS
<1>11. PICK instrument : instrument = Resolve(msg, InstrumentMap(list))
  OBVIOUS
<1>12. PICK event : event = EventOf(instrument, done + 1)
  OBVIOUS
<1>13. IsBatch(arr, bat, messages)
  BY <1>1, <1>4, <1>5, <1>6, <1>7, <1>8 DEF BatchInv
<1>14. PICK rest : rest = Tail(bat)
  OBVIOUS
<1>15. /\ IsBatch(arr, rest, messages) /\ Len(arr) - Len(rest) = done + 1
       /\ done \in Nat /\ msg \in messages /\ msg = arr[done + 1]
  <2>1. bat # <<>>
    BY <1>2, <1>7
  <2>2. /\ IsBatch(arr, Tail(bat), messages)
        /\ Head(bat) \in messages /\ Head(bat) = arr[Len(arr) - Len(bat) + 1]
    BY <1>13, <2>1, BatchGoesOn
  <2>3. bat \in Seq(messages) /\ Len(bat) <= Len(arr) /\ Len(arr) \in Nat
    BY <1>13, LenProperties DEF IsBatch
  <2>4. Len(rest) = Len(bat) - 1 /\ Len(bat) \in Nat
    BY <1>14, <2>1, <2>3, HeadTailProperties, LenProperties
  <2>5. done \in Nat /\ Len(arr) - Len(rest) = done + 1
    BY <1>9, <2>3, <2>4
  <2> QED
    BY <1>9, <1>10, <1>14, <2>2, <2>5
<1>16. list \in Wanted[s] \cup {<<>>}
  BY <1>1, <1>4 DEF TypeInv
<1>17. /\ msg.form \in {"sound", "broken", "status"}
       /\ msg.form = "status" => instrument = NoInstrument
       /\ msg.form # "status" => instrument \in ToSet(list) /\ instrument # NoInstrument
  BY <1>8, <1>11, <1>15, <1>16, ResolveIs
<1>18. queue' = IF instrument # NoInstrument /\ msg.form # "broken"
                THEN [queue EXCEPT ![s] = Append(@, event)] ELSE queue
  BY <1>4, <1>6, <1>7, <1>9, <1>10, <1>11, <1>12 DEF Process
<1>19. BatchInv(s)'
  BY <1>2, <1>3, <1>4, <1>5, <1>6, <1>7, <1>8, <1>14, <1>15 DEF BatchInv
<1>20. Gives(Given(s), arr, done, list)
  BY <1>1, <1>4, <1>6, <1>7, <1>9 DEF GivenInv
<1>21. Len(arrived'[s]) - Len(batch'[s]) = done + 1 /\ arrived'[s] = arr /\ wanted'[s] = list
  BY <1>2, <1>3, <1>4, <1>6, <1>7, <1>14, <1>15
<1>22. queue[s] \in Seq(Event) /\ yielded[s] \in Seq(Event)
  BY <1>1 DEF TypeInv
<1>23. CASE msg.form = "sound"
  <2>1. instrument \in ToSet(list) /\ instrument # NoInstrument
    BY <1>17, <1>23
  <2>2. list \in Wanted[s]
    BY <1>16, <2>1 DEF ToSet
  <2>3. event \in Event
    <3>1. instrument \in Listed
      BY <2>1, <2>2 DEF Listed
    <3> QED
      BY <1>12, <1>15, <3>1 DEF EventOf, Event
  <2>4. queue' = [queue EXCEPT ![s] = Append(@, event)]
    BY <1>18, <1>23, <2>1
  <2>5. queue' \in [Stream -> Seq(Event)] /\ queue'[s] = Append(queue[s], event)
        /\ \A t \in Stream \ {s} : queue'[t] = queue[t]
    <3>1. Append(queue[s], event) \in Seq(Event)
      BY <1>22, <2>3, AppendProperties
    <3> QED
      BY <1>1, <2>4, <3>1 DEF TypeInv
  <2>6. TypeInv'
    BY <1>1, <1>2, <1>3, <2>5 DEF TypeInv
  <2>7. PICK events : events = Given(s)
    OBVIOUS
  <2>8. events \in Seq(Event)
    BY <1>22, <2>7, ConcatProperties DEF Given
  <2>9. Given(s)' = Append(events, event)
    <3>1. PICK q : q = queue[s]
      OBVIOUS
    <3>2. PICK y : y = yielded[s]
      OBVIOUS
    <3>3. y \o Append(q, event) = Append(y \o q, event)
      <4>1. q \in Seq(Event) /\ y \in Seq(Event)
        BY <1>22, <3>1, <3>2
      <4>2. PICK E : E = Event
        OBVIOUS
      <4>3. q \in Seq(E) /\ y \in Seq(E) /\ event \in E
        BY <2>3, <4>1, <4>2
      <4> QED
        BY <4>3, AppendedAfter
    <3>4. queue'[s] = Append(q, event) /\ yielded'[s] = y
      BY <1>2, <2>5, <3>1, <3>2
    <3>5. events = y \o q
      BY <2>7, <3>1, <3>2 DEF Given
    <3> QED
      BY <3>3, <3>4, <3>5 DEF Given
  <2>10. Gives(Append(events, event), arr, done + 1, list)
    <3>1. arr[done + 1].form = "sound"
      BY <1>15, <1>23
    <3>2. event = EventOf(Resolve(arr[done + 1], InstrumentMap(list)), done + 1)
      BY <1>11, <1>12, <1>15
    <3>3. Gives(events, arr, done, list)
      BY <1>20, <2>7
    <3> QED
      BY <1>15, <2>3, <2>8, <3>1, <3>2, <3>3, GivesMore
  <2>11. GivenInv(s)'
    BY <1>21, <2>9, <2>10 DEF GivenInv
  <2>12. FreshInv(s)'
    BY <1>1, <1>2 DEF FreshInv, PoolHas
  <2>13. \A t \in Stream \ {s} : FreshInv(t)' /\ BatchInv(t)' /\ GivenInv(t)'
    BY <1>2, <1>3, <2>5, Others
  <2> QED
    BY <1>19, <2>6, <2>11, <2>12, <2>13 DEF IInv
<1>24. CASE msg.form # "sound"
  <2>1. queue' = queue
    BY <1>17, <1>18, <1>24
  <2>2. TypeInv'
    BY <1>1, <1>2, <1>3, <2>1 DEF TypeInv
  <2>3. PICK events : events = Given(s)
    OBVIOUS
  <2>4. Given(s)' = events
    BY <1>2, <2>1, <2>3 DEF Given
  <2>5. Gives(events, arr, done + 1, list)
    BY <1>15, <1>20, <1>24, <2>3, GivesNothing
  <2>6. GivenInv(s)'
    BY <1>21, <2>4, <2>5 DEF GivenInv
  <2>7. FreshInv(s)'
    BY <1>1, <1>2 DEF FreshInv, PoolHas
  <2>8. \A t \in Stream \ {s} : FreshInv(t)' /\ BatchInv(t)' /\ GivenInv(t)'
    BY <1>2, <1>3, <2>1, Others
  <2> QED
    BY <1>19, <2>2, <2>6, <2>7, <2>8 DEF IInv
<1> QED
  BY <1>23, <1>24

\* The generator yields what is queued first.
LEMMA Get_Inv ==
  ASSUME IInv, NEW s \in Stream, Get(s)
  PROVE  IInv'
<1>1. TypeInv /\ BatchInv(s) /\ GivenInv(s)
  BY DEF IInv
<1>2. UNCHANGED <<wanted, task, socket, arrived, batch, pool>>
  BY DEF Get
<1>3. queue[s] \in Seq(Event) /\ yielded[s] \in Seq(Event) /\ queue[s] # <<>>
  BY <1>1 DEF TypeInv, Get
<1>4. Tail(queue[s]) \in Seq(Event) /\ Append(yielded[s], Head(queue[s])) \in Seq(Event)
  BY <1>3, HeadTailProperties, AppendProperties
<1>5. /\ queue' \in [Stream -> Seq(Event)] /\ yielded' \in [Stream -> Seq(Event)]
      /\ queue'[s] = Tail(queue[s]) /\ yielded'[s] = Append(yielded[s], Head(queue[s]))
      /\ DOMAIN gen' = Stream /\ gen'[s] # "fresh"
      /\ \A t \in Stream \ {s} : gen'[t] = gen[t] /\ queue'[t] = queue[t] /\ yielded'[t] = yielded[t]
  BY <1>1, <1>4 DEF TypeInv, Get
<1>6. TypeInv'
  BY <1>1, <1>2, <1>5 DEF TypeInv
<1>7. Given(s)' = Given(s)
  <2>1. Append(yielded[s], Head(queue[s])) \o Tail(queue[s]) = yielded[s] \o queue[s]
    BY <1>3, PassedOver
  <2> QED
    BY <1>5, <2>1 DEF Given
<1>8. BatchInv(s)' /\ GivenInv(s)'
  BY <1>1, <1>2, <1>7 DEF BatchInv, GivenInv
<1>9. FreshInv(s)'
  BY <1>5 DEF FreshInv
<1>10. \A t \in Stream \ {s} : FreshInv(t)' /\ BatchInv(t)' /\ GivenInv(t)'
  BY <1>2, <1>5, Others
<1> QED
  BY <1>6, <1>8, <1>9, <1>10 DEF IInv

LEMMA NextInv == IInv /\ [Next]_vars => IInv'
<1> SUFFICES ASSUME IInv, [Next]_vars PROVE IInv'
  OBVIOUS
<1>1. CASE UNCHANGED vars
  <2>1. UNCHANGED <<gen, wanted, task, pool, socket, arrived, batch, queue, yielded>>
    BY <1>1 DEF vars, streamVars
  <2>2. TypeInv'
    BY <2>1 DEF IInv, TypeInv
  <2>3. \A s \in Stream : FreshInv(s)' /\ BatchInv(s)' /\ GivenInv(s)'
    BY <2>1, Others
  <2> QED
    BY <2>2, <2>3 DEF IInv
<1>2. CASE Connect \/ Disconnect \/ (\E r \in Request : Ask(r) \/ StartListing(r) \/ ListingAnswers(r))
  BY <1>2, Request_Inv
<1>3. ASSUME NEW s \in Stream,
             RunClient(s) \/ SocketOpens(s) \/ SocketEnds(s) \/ Works(s) \/ Resume(s) \/ Close(s)
      PROVE  IInv'
  BY <1>3, Stream_Inv
<1>4. ASSUME NEW s \in Stream, Start(s) \/ Receive(s) \/ Process(s) \/ Get(s)
      PROVE  IInv'
  BY <1>4, Start_Inv, Receive_Inv, Process_Inv, Get_Inv
<1> QED
  BY <1>1, <1>2, <1>3, <1>4 DEF Next

LEMMA Invariance == Spec => []IInv
BY InitInv, NextInv, PTL DEF Spec

-------------------------------------------------------------------------------
(* Theorems *)

\* In every stream the consumer gets the events of the messages it can use, each
\* once and in the order in which they arrived (_process_messages(), the queue and
\* the generator of _stream_ws()).
THEOREM DeliveredCorrect == Spec => []DeliveredInOrder
<1>1. IInv => DeliveredInOrder
  <2> SUFFICES ASSUME IInv, NEW s \in Stream
               PROVE  LET done == Len(arrived[s]) - Len(batch[s])
                      IN /\ {Given(s)[k].message : k \in DOMAIN Given(s)}
                              = {n \in 1 .. done : arrived[s][n].form = "sound"}
                         /\ \A j, k \in DOMAIN Given(s) :
                              j < k => Given(s)[j].message < Given(s)[k].message
    BY DEF DeliveredInOrder
  <2>1. PICK events : events = Given(s)
    OBVIOUS
  <2>2. PICK arr : arr = arrived[s]
    OBVIOUS
  <2>3. PICK done : done = Len(arrived[s]) - Len(batch[s])
    OBVIOUS
  <2>4. PICK list : list = wanted[s]
    OBVIOUS
  <2>5. Gives(events, arr, done, list)
    BY <2>1, <2>2, <2>3, <2>4 DEF IInv, GivenInv
  <2>6. DOMAIN events = 1 .. Len(events)
    <3>1. events \in Seq(Event)
      BY <2>1, ConcatProperties DEF IInv, TypeInv, Given
    <3> QED
      BY <3>1, LenProperties
  <2>7. ASSUME NEW k \in 1 .. Len(events)
        PROVE  events[k].message \in 1 .. done /\ arr[events[k].message].form = "sound"
    <3>1. PICK n \in 1 .. done :
            arr[n].form = "sound" /\ events[k] = EventOf(Resolve(arr[n], InstrumentMap(list)), n)
      BY <2>5 DEF Gives
    <3>2. EventOf(Resolve(arr[n], InstrumentMap(list)), n).message = n
      BY DEF EventOf
    <3> QED
      BY <3>1, <3>2
  <2>8. \A n \in 1 .. done : arr[n].form = "sound" => \E k \in 1 .. Len(events) : events[k].message = n
    BY <2>5 DEF Gives
  <2>9. {events[k].message : k \in DOMAIN events} = {n \in 1 .. done : arr[n].form = "sound"}
    BY <2>6, <2>7, <2>8
  <2>10. \A j, k \in DOMAIN events : j < k => events[j].message < events[k].message
    BY <2>5, <2>6 DEF Gives
  <2> QED
    BY <2>1, <2>2, <2>3, <2>9, <2>10
<1> QED
  BY <1>1, Invariance, PTL

\* An event is attributed to the instrument whose channel its message came on, or
\* its stream begins with a pair and another instrument has the same letters
\* (_resolve_instrument_from_ws() with the map of _stream_ws()).
THEOREM AttributedCorrect == Spec => []AttributedToChannel
<1>1. IInv => AttributedToChannel
  <2> SUFFICES ASSUME IInv, NEW s \in Stream, NEW k \in DOMAIN Given(s)
               PROVE  Attributed(Feed[s], wanted[s], arrived[s][Given(s)[k].message].channel,
                                 Given(s)[k].instrument)
    BY DEF AttributedToChannel, Attributed
  <2>1. PICK events : events = Given(s)
    OBVIOUS
  <2>2. PICK arr : arr = arrived[s]
    OBVIOUS
  <2>3. PICK done : done = Len(arrived[s]) - Len(batch[s])
    OBVIOUS
  <2>4. PICK list : list = wanted[s]
    OBVIOUS
  <2>5. PICK feed : feed = Feed[s]
    OBVIOUS
  <2>6. Gives(events, arr, done, list)
    BY <2>1, <2>2, <2>3, <2>4 DEF IInv, GivenInv
  <2>7. k \in 1 .. Len(events)
    <3>1. events \in Seq(Event)
      BY <2>1, ConcatProperties DEF IInv, TypeInv, Given
    <3> QED
      BY <2>1, <3>1, LenProperties
  <2>8. PICK n \in 1 .. done :
          arr[n].form = "sound" /\ events[k] = EventOf(Resolve(arr[n], InstrumentMap(list)), n)
    BY <2>6, <2>7 DEF Gives
  <2>9. PICK msg : msg = arr[n]
    OBVIOUS
  <2>10. PICK instrument : instrument = Resolve(msg, InstrumentMap(list))
    OBVIOUS
  <2>11. events[k].message = n /\ events[k].instrument = instrument
    BY <2>8, <2>9, <2>10 DEF EventOf
  <2>12. msg \in Message(feed, list)
    <3>1. PICK messages : messages = Message(feed, list)
      OBVIOUS
    <3>2. PICK bat : bat = batch[s]
      OBVIOUS
    <3>3. IsBatch(arr, bat, messages)
      BY <2>2, <2>4, <2>5, <3>1, <3>2 DEF IInv, BatchInv
    <3>4. arr \in Seq(messages) /\ bat \in Seq(messages)
      BY <3>3 DEF IsBatch
    <3>5. Len(arr) \in Nat /\ Len(bat) \in Nat /\ done = Len(arr) - Len(bat)
      BY <2>2, <2>3, <3>2, <3>4, LenProperties
    <3>6. n \in 1 .. Len(arr)
      BY <3>5
    <3> QED
      BY <2>9, <3>1, <3>4, <3>6, ElementOfSeq
  <2>13. list \in Wanted[s] \cup {<<>>}
    BY <2>4 DEF IInv, TypeInv
  <2>14. msg.form # "status"
    BY <2>8, <2>9
  <2>15. Attributed(feed, list, msg.channel, instrument)
    BY <2>10, <2>12, <2>13, <2>14, ResolveIs
  <2> QED
    BY <2>1, <2>2, <2>4, <2>5, <2>9, <2>11, <2>15
<1> QED
  BY <1>1, Invariance, PTL

--------------------------------------------------------------------------------
(* The ArcticDB store implements the in-memory one.  The invariant behind it: a *)
(* client past its check that no deletion has overtaken still finds its symbol. *)

CheckedExists ==
  \A c \in checked : /\ call[c].op \in {"read", "append", "delete"}
                     /\ c \notin overtaken => call[c].symbol \in DOMAIN lib

\* Sets and functions that the invariant is about.
StoreShape == /\ lib = [s \in DOMAIN lib |-> lib[s]]
         /\ DOMAIN call = Client /\ DOMAIN answer = Client
         /\ checked \subseteq Client /\ overtaken \subseteq checked

StoreIInv == StoreShape /\ CheckedExists

\* Rows in order are not touched by sort_index(): the in-memory append is then
\* the concatenation, as in the library.
LEMMA SortedAppend ==
  ASSUME NEW rows, Memory!InOrder(rows)
  PROVE  Memory!SortIndex(rows) = rows
BY DEF Memory!SortIndex

\* The library after a write or an append, and after a deletion.
LEMMA WithShape ==
  ASSUME NEW s, NEW rows, lib' = Memory!With(lib, s, rows)
  PROVE  DOMAIN lib' = DOMAIN lib \cup {s} /\ lib' = [x \in DOMAIN lib' |-> lib'[x]]
BY DEF Memory!With

LEMMA WithoutShape ==
  ASSUME NEW s, lib' = Memory!Without(lib, s)
  PROVE  DOMAIN lib' = DOMAIN lib \ {s} /\ lib' = [x \in DOMAIN lib' |-> lib'[x]]
BY DEF Memory!Without

LEMMA StoreInitInv == StoreInit => StoreIInv
BY DEF StoreInit, Memory!MemoryInit, StoreIInv, StoreShape, CheckedExists, Memory!NoCall

\* A call that ends leaves the other clients alone, whatever it adds to the library.
LEMMA AnswerKeeps ==
  ASSUME StoreIInv, NEW c \in Client, NEW value, Answers(c, value),
         DOMAIN lib \subseteq DOMAIN lib', lib' = [s \in DOMAIN lib' |-> lib'[s]]
  PROVE  StoreIInv'
<1>1. StoreShape'
  BY DEF StoreIInv, StoreShape, Answers, Memory!Answers
<1>2. ASSUME NEW d \in checked'
      PROVE  /\ call'[d].op \in {"read", "append", "delete"}
             /\ d \notin overtaken' => call'[d].symbol \in DOMAIN lib'
  <2>1. d \in checked /\ d # c /\ d \in Client
    BY DEF StoreIInv, StoreShape, Answers
  <2>2. call'[d] = call[d] /\ (d \notin overtaken' => d \notin overtaken)
    BY <2>1 DEF StoreIInv, StoreShape, Answers, Memory!Answers
  <2> QED
    BY <2>1, <2>2 DEF StoreIInv, CheckedExists
<1> QED
  BY <1>1, <1>2 DEF StoreIInv, CheckedExists

\* Every step keeps the invariant.
LEMMA StoreNextInv == StoreIInv /\ [StoreNext]_storeVars => StoreIInv'
<1> SUFFICES ASSUME StoreIInv, [StoreNext]_storeVars
             PROVE  StoreIInv'
  OBVIOUS
<1>0. CASE UNCHANGED storeVars
  BY <1>0 DEF storeVars, StoreIInv, StoreShape, CheckedExists
<1> SUFFICES ASSUME NEW c \in Client,
                    Begin(c) \/ Check(c) \/ Write(c) \/ Read(c) \/ AppendRows(c)
                      \/ Delete(c) \/ ListSymbols(c) \/ Fails(c)
             PROVE  StoreIInv'
  BY <1>0 DEF StoreNext
<1>1. CASE Begin(c)
  <2>1. PICK cl : Memory!Begin(c, cl)
    BY <1>1 DEF Begin
  <2>2. c \notin checked
    BY <2>1 DEF StoreIInv, CheckedExists, Memory!Begin, Memory!NoCall
  <2>3. \A d \in checked : call'[d] = call[d]
    BY <2>1, <2>2 DEF Memory!Begin, StoreIInv, StoreShape
  <2>4. StoreShape'
    BY <1>1, <2>1 DEF Begin, Memory!Begin, StoreIInv, StoreShape
  <2> QED
    BY <1>1, <2>1, <2>3, <2>4 DEF Begin, Memory!Begin, StoreIInv, CheckedExists
<1>2. CASE Check(c)
  <2>1. lib' = lib /\ call[c].op \in {"read", "append", "delete", "has_symbol"}
    BY <1>2 DEF Check
  <2>2. lib' = [s \in DOMAIN lib' |-> lib'[s]]
    BY <2>1 DEF StoreIInv, StoreShape
  <2>3. CASE call[c].op = "has_symbol" \/ call[c].symbol \notin DOMAIN lib
    <3>1. PICK value : Answers(c, value)
      BY <1>2, <2>3 DEF Check, Memory!Has
    <3> QED
      BY <2>1, <2>2, <3>1, AnswerKeeps
  <2>4. CASE call[c].op # "has_symbol" /\ call[c].symbol \in DOMAIN lib
    <3>1. checked' = checked \cup {c} /\ call' = call /\ answer' = answer /\ overtaken' = overtaken
      BY <1>2, <2>4 DEF Check, Memory!Has
    <3>2. StoreShape'
      BY <2>2, <3>1 DEF StoreIInv, StoreShape
    <3> QED
      BY <2>1, <2>4, <3>1, <3>2 DEF StoreIInv, CheckedExists
  <2> QED
    BY <2>3, <2>4
<1>3. CASE Write(c)
  <2>1. PICK s, rows : lib' = Memory!With(lib, s, rows)
    BY <1>3 DEF Write
  <2> QED
    BY <1>3, <2>1, AnswerKeeps, WithShape DEF Write
<1>4. CASE Read(c)
  BY <1>4, AnswerKeeps DEF Read, StoreIInv, StoreShape
<1>5. CASE AppendRows(c)
  <2>1. PICK s, rows : lib' = Memory!With(lib, s, rows)
    BY <1>5 DEF AppendRows
  <2> QED
    BY <1>5, <2>1, AnswerKeeps, WithShape DEF AppendRows
<1>6. CASE Delete(c)
  <2>0. /\ DOMAIN lib' = DOMAIN lib \ {call[c].symbol}
        /\ lib' = [x \in DOMAIN lib' |-> lib'[x]]
    BY <1>6, WithoutShape DEF Delete
  <2>1. StoreShape'
    BY <1>6, <2>0 DEF Delete, Memory!Answers, StoreIInv, StoreShape
  <2>2. ASSUME NEW d \in checked'
        PROVE  /\ call'[d].op \in {"read", "append", "delete"}
               /\ d \notin overtaken' => call'[d].symbol \in DOMAIN lib'
    <3>1. d \in checked /\ d # c /\ d \in Client /\ call'[d] = call[d]
      BY <1>6 DEF Delete, Memory!Answers, StoreIInv, StoreShape
    <3>2. d \notin overtaken' => d \notin overtaken /\ call[d].symbol # call[c].symbol
      BY <1>6, <3>1 DEF Delete
    <3> QED
      BY <2>0, <3>1, <3>2 DEF StoreIInv, CheckedExists
  <2> QED
    BY <2>1, <2>2 DEF StoreIInv, CheckedExists
<1>7. CASE ListSymbols(c)
  BY <1>7, AnswerKeeps DEF ListSymbols, StoreIInv, StoreShape
<1>8. CASE Fails(c)
  BY <1>8, AnswerKeeps DEF Fails, StoreIInv, StoreShape
<1> QED
  BY <1>1, <1>2, <1>3, <1>4, <1>5, <1>6, <1>7, <1>8

\* One step of the store is one of the in-memory store, a failure or a revival.
LEMMA StepImplements ==
  ASSUME StoreIInv, NEW c \in Client,
         Begin(c) \/ Check(c) \/ Write(c) \/ Read(c) \/ AppendRows(c)
           \/ Delete(c) \/ ListSymbols(c) \/ Fails(c)
  PROVE  Memory!MemoryStep(c) \/ Failure(c) \/ Revival(c) \/ UNCHANGED <<lib, call, answer>>
<1>1. CASE Begin(c)
  BY <1>1 DEF Begin, Memory!MemoryStep
<1>2. CASE Check(c)
  <2>1. CASE call[c].op = "has_symbol"
    BY <1>2, <2>1 DEF Check, Answers, Memory!HasSymbol, Memory!MemoryStep
  <2>2. CASE call[c].op # "has_symbol" /\ Memory!Has(lib, call[c].symbol)
    BY <1>2, <2>2 DEF Check
  <2>3. CASE call[c].op = "delete" /\ ~ Memory!Has(lib, call[c].symbol)
    <3>1. UNCHANGED lib /\ Memory!Answers(c, Memory!Done)
      BY <1>2, <2>3 DEF Check, Answers
    <3>2. lib = Memory!Without(lib, call[c].symbol)
      BY <2>3 DEF Memory!Has, Memory!Without, StoreIInv, StoreShape
    <3> QED
      BY <2>3, <3>1, <3>2 DEF Memory!Delete, Memory!MemoryStep
  <2>4. CASE call[c].op \in {"read", "append"} /\ ~ Memory!Has(lib, call[c].symbol)
    <3>1. UNCHANGED lib /\ Memory!Answers(c, Memory!NotFound)
      BY <1>2, <2>4 DEF Check, Answers
    <3> QED
      BY <2>4, <3>1 DEF Memory!Read, Memory!AppendRows, Memory!MemoryStep
  <2> QED
    BY <1>2, <2>1, <2>2, <2>3, <2>4 DEF Check
<1>3. CASE Write(c)
  BY <1>3 DEF Write, Answers, Memory!Write, Memory!MemoryStep
<1>4. CASE Read(c)
  <2>1. CASE Memory!Has(lib, call[c].symbol)
    BY <1>4, <2>1 DEF Read, Answers, Memory!Read, Memory!MemoryStep
  <2>2. CASE ~ Memory!Has(lib, call[c].symbol)
    BY <1>4, <2>2 DEF Read, Answers, Memory!Answers, Failure
  <2> QED
    BY <2>1, <2>2
<1>5. CASE AppendRows(c)
  <2>1. CASE Memory!Has(lib, call[c].symbol)
    BY <1>5, <2>1, SortedAppend DEF AppendRows, Answers, Memory!AppendRows, Memory!MemoryStep
  <2>2. CASE ~ Memory!Has(lib, call[c].symbol)
    <3>1. c \in overtaken
      BY <1>5, <2>2 DEF AppendRows, StoreIInv, CheckedExists, Memory!Has
    <3>2. lib' = Memory!With(lib, call[c].symbol, <<>> \o call[c].frame)
      BY <1>5, <2>2 DEF AppendRows
    <3> QED
      BY <1>5, <3>1, <3>2 DEF AppendRows, Answers, Revival
  <2> QED
    BY <2>1, <2>2
<1>6. CASE Delete(c)
  BY <1>6 DEF Delete, Memory!Delete, Memory!MemoryStep
<1>7. CASE ListSymbols(c)
  BY <1>7 DEF ListSymbols, Answers, Memory!ListSymbols, Memory!MemoryStep
<1>8. CASE Fails(c)
  BY <1>8 DEF Fails, Answers, Memory!Answers, Failure
<1> QED
  BY <1>1, <1>2, <1>3, <1>4, <1>5, <1>6, <1>7, <1>8

\* The invariant holds throughout.
LEMMA StoreInvariance == StoreSpec => []StoreIInv
  BY StoreInitInv, StoreNextInv, PTL DEF StoreSpec

\* With any number of clients, every step that a client can see is one that the
\* in-memory store takes, a failure without effect, or an append that a deletion
\* overtook.
THEOREM StoreCorrect == StoreSpec => ImplementsMemory
<1>1. ASSUME StoreIInv, [StoreNext]_storeVars
      PROVE  [\E c \in Client : Memory!MemoryStep(c) \/ Failure(c) \/ Revival(c)]_<<lib, call, answer>>
  <2>1. CASE UNCHANGED storeVars
    BY <2>1 DEF storeVars
  <2>2. CASE StoreNext
    <3>1. PICK c \in Client : Begin(c) \/ Check(c) \/ Write(c) \/ Read(c) \/ AppendRows(c)
                                \/ Delete(c) \/ ListSymbols(c) \/ Fails(c)
      BY <2>2 DEF StoreNext
    <3>2. Memory!MemoryStep(c) \/ Failure(c) \/ Revival(c) \/ UNCHANGED <<lib, call, answer>>
      BY <1>1, <3>1, StepImplements
    <3> QED
      BY <3>2
  <2> QED
    BY <1>1, <2>1, <2>2
<1> QED
  BY <1>1, StoreInvariance, PTL DEF StoreSpec, ImplementsMemory
================================================================================
