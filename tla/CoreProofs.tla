------------------------------ MODULE CoreProofs ------------------------------
(***************************************************************************)
(* Proofs about the two components of core/ that move events and time: the *)
(* event bus, for any number of publishers, subscriptions, stop() calls    *)
(* and restarts and any queue size, and the simulated clock, for every set *)
(* of tasks and delays and any nesting and interleaving of advance_to().   *)
(*                                                                         *)
(* The inductive invariant IInv of the bus says which task holds which     *)
(* entry: a task that waits in put() holds one, a dispatcher that handles  *)
(* an event holds one, sequence numbers are never used twice, and the      *)
(* counter of the queue counts what is queued or held.                     *)
(***************************************************************************)
EXTENDS EventBus, SimulatedClock, TLAPS, FiniteSetTheorems, SequenceTheorems

\* A task waiting in put(), once in the line or once woken, holds an entry.
WaitInv ==
  /\ \A i \in DOMAIN putters : putting[putters[i]] # NoEntry /\ putters[i] \notin woken
  /\ \A i, j \in DOMAIN putters : putters[i] = putters[j] => i = j
  /\ \A t \in woken : putting[t] # NoEntry

CallInv == \A p \in Publisher : call[p] # "putting" => putting[p] = NoEntry

\* A dispatcher holds an event exactly while it handles it.
HandInv ==
  \A d \in Dispatcher :
    /\ dpc[d] = "dispatching" => current[d] # NoEntry
    /\ dpc[d] \in {"unborn", "new", "getting", "exited"} => current[d] = NoEntry

\* No sequence number is ahead of the counter.
SeqInv ==
  /\ \A n \in Outstanding : n <= sequence
  /\ \A t \in Task : putting[t].seq <= sequence
  /\ \A s \in Stopper : \A n \in owed[s] : n <= sequence

\* The entry of a put() in progress is not anywhere else, and no stop() owes it.
PutInv ==
  \A t \in Task : putting[t] # NoEntry =>
    /\ putting[t].seq \notin Outstanding
    /\ \A s \in Stopper : putting[t].seq \notin owed[s]
    /\ \A u \in Task : putting[u] # NoEntry /\ putting[u].seq = putting[t].seq => u = t

OwedInv == \A s \in Stopper : spc[s] = "ready" => owed[s] = {}

IInv == /\ TypeOK /\ WaitInv /\ CallInv /\ HandInv /\ SeqInv /\ PutInv /\ OwedInv
        /\ UnfinishedIsOutstanding /\ StopDrains

-------------------------------------------------------------------------------
(* Data *)

LEMMA PriorityType == \A t : ResolvePriority(t) \in Priority
  BY DEF ResolvePriority, DefaultPriority, Priority, CRITICAL, HIGH, NORMAL, LOW

LEMMA NoEntryIsNone == NoEntry \notin Entry
  BY TypesAssumption DEF NoEntry, Entry

LEMMA SeqType == \A e \in Entry \cup {NoEntry} : e.seq \in Nat
  BY DEF Entry, NoEntry

\* An element taken out of the middle of a sequence.
LEMMA RemoveAtProperties ==
  ASSUME NEW S, NEW s \in Seq(S), NEW i \in DOMAIN s
  PROVE  /\ RemoveAt(s, i) \in Seq(S)
         /\ Len(RemoveAt(s, i)) = Len(s) - 1
         /\ \A j \in 1 .. Len(s) - 1 :
              RemoveAt(s, i)[j] = IF j < i THEN s[j] ELSE s[j + 1]
<1> DEFINE l == SubSeq(s, 1, i - 1)
           r == SubSeq(s, i + 1, Len(s))
<1>1. i \in 1 .. Len(s) /\ Len(s) \in Nat
  BY LenProperties
<1>2. /\ l \in Seq(S) /\ Len(l) = i - 1
      /\ \A j \in 1 .. i - 1 : l[j] = s[j]
  BY <1>1, SubSeqProperties
<1>3. /\ r \in Seq(S) /\ Len(r) = Len(s) - i
      /\ \A j \in 1 .. Len(s) - i : r[j] = s[i + j]
  BY <1>1, SubSeqProperties
<1>4. /\ l \o r \in Seq(S) /\ Len(l \o r) = Len(l) + Len(r)
      /\ \A j \in 1 .. Len(l) + Len(r) :
           (l \o r)[j] = IF j <= Len(l) THEN l[j] ELSE r[j - Len(l)]
  BY <1>2, <1>3, ConcatProperties
<1>5. RemoveAt(s, i) = l \o r
  BY DEF RemoveAt
<1> HIDE DEF l, r
<1>6. /\ RemoveAt(s, i) \in Seq(S)
      /\ Len(RemoveAt(s, i)) = Len(s) - 1
  BY <1>1, <1>2, <1>3, <1>4, <1>5
<1>7. ASSUME NEW j \in 1 .. Len(s) - 1
      PROVE  RemoveAt(s, i)[j] = IF j < i THEN s[j] ELSE s[j + 1]
  <2>1. RemoveAt(s, i)[j] = IF j <= i - 1 THEN l[j] ELSE r[j - (i - 1)]
    <3>1. j \in 1 .. Len(l) + Len(r)
      BY <1>1, <1>2, <1>3, <1>7
    <3>2. (l \o r)[j] = IF j <= Len(l) THEN l[j] ELSE r[j - Len(l)]
      BY <1>4, <3>1
    <3> QED
      BY <1>2, <1>5, <3>2
  <2>2. CASE j < i
    BY <1>1, <1>2, <1>7, <2>1, <2>2
  <2>3. CASE j >= i
    <3>1. j - (i - 1) \in 1 .. Len(s) - i /\ i + (j - (i - 1)) = j + 1
      BY <1>1, <1>7, <2>3
    <3> QED
      BY <1>1, <1>3, <1>7, <2>1, <2>3, <3>1
  <2> QED
    BY <1>1, <1>7, <2>2, <2>3
<1> QED
  BY <1>6, <1>7

\* Nothing outstanding is left when the counter is zero.
LEMMA NoneLeft ==
  ASSUME NEW Q, NEW H, IsFiniteSet(Q), IsFiniteSet(H), Cardinality(Q) + Cardinality(H) = 0
  PROVE  Q = {} /\ H = {}
  BY FS_CardinalityType, FS_EmptySet

LEMMA DispatcherFinite == IsFiniteSet(Dispatcher)
  BY FS_Interval, BoundsAssumption DEF Dispatcher

LEMMA HeldFinite == IsFiniteSet(Held) /\ IsFiniteSet(Held')
  BY DispatcherFinite, FS_Subset DEF Held

-------------------------------------------------------------------------------
(* Types *)

LEMMA TypeInit == Init => TypeOK
<1> SUFFICES ASSUME Init PROVE TypeOK
  OBVIOUS
<1>1. QueueTypeOK
  <2>1. IsFiniteSet(queue)
    BY FS_EmptySet DEF Init
  <2> QED
    BY <2>1 DEF Init, QueueTypeOK
<1>2. SubTypeOK /\ DispatchTypeOK /\ StopTypeOK
  BY DEF Init, SubTypeOK, DispatchTypeOK, StopTypeOK, Alive
<1>3. running \in BOOLEAN
  BY DEF Init
<1>4. /\ dispatcherTask \in Dispatcher \cup {NoTask}
      /\ call \in [Publisher -> {"ready", "putting", "done", "failed"}]
      /\ calls \in [Sub -> Seq(Nat)]
  BY DEF Init
<1> QED
  BY <1>1, <1>2, <1>3, <1>4 DEF TypeOK

\* put_nowait() of an entry.
LEMMA PutNowType ==
  ASSUME QueueTypeOK, NEW e \in Entry, PutNow(e)
  PROVE  queue' \in SUBSET Entry /\ IsFiniteSet(queue') /\ unfinished' \in Int
<1>1. queue' = queue \cup {e}
  BY DEF PutNow
<1>2. IsFiniteSet(queue')
  BY <1>1, FS_AddElement DEF QueueTypeOK
<1> QED
  BY <1>1, <1>2 DEF PutNow, QueueTypeOK

LEMMA BeginPutType ==
  ASSUME QueueTypeOK, NEW t \in Task, NEW type \in EventType, BeginPut(t, type),
         woken' = woken
  PROVE  QueueTypeOK'
<1> DEFINE e == [pri |-> ResolvePriority(type), seq |-> sequence + 1, type |-> type]
<1>1. e \in Entry
  BY PriorityType DEF QueueTypeOK, Entry
<1> HIDE DEF e
<1>2. /\ sequence' = sequence + 1
      /\ \/ PutNow(e) /\ UNCHANGED <<putting, putters>>
         \/ /\ putting' = [putting EXCEPT ![t] = e] /\ putters' = Append(putters, t)
            /\ UNCHANGED <<queue, unfinished>>
  BY DEF BeginPut, e
<1>3. CASE PutNow(e) /\ UNCHANGED <<putting, putters>>
  BY <1>1, <1>2, <1>3, PutNowType DEF QueueTypeOK
<1>4. CASE /\ putting' = [putting EXCEPT ![t] = e] /\ putters' = Append(putters, t)
           /\ UNCHANGED <<queue, unfinished>>
  BY <1>1, <1>2, <1>4 DEF QueueTypeOK
<1> QED
  BY <1>2, <1>3, <1>4

LEMMA WakeType ==
  ASSUME QueueTypeOK, WakePutter
  PROVE  putters' \in Seq(Task) /\ woken' \in SUBSET Task
<1>1. CASE putters = <<>>
  BY <1>1 DEF WakePutter, QueueTypeOK
<1>2. CASE putters # <<>>
  <2>1. Head(putters) \in Task /\ Tail(putters) \in Seq(Task)
    BY <1>2, HeadTailProperties DEF QueueTypeOK
  <2>2. woken' = woken \cup {Head(putters)} /\ putters' = Tail(putters)
    BY <1>2 DEF WakePutter
  <2> QED
    BY <2>1, <2>2 DEF QueueTypeOK
<1> QED
  BY <1>1, <1>2

\* What the head of the dispatcher's loop does to queue and hands.
LEMMA LoopHeadCases ==
  ASSUME NEW d \in Dispatcher, LoopHead(d) \/ Take(d)
  PROVE  \/ /\ WakePutter
            /\ dpc' = [dpc EXCEPT ![d] = "dispatching"]
            /\ \E e \in queue : /\ queue' = queue \ {e}
                                /\ current' = [current EXCEPT ![d] = e]
                                /\ todo' = [todo EXCEPT ![d] = Handlers(e.type)]
                                /\ log' = Append(log, e)
         \/ /\ \E pc \in {"getting", "exited"} : dpc' = [dpc EXCEPT ![d] = pc]
            /\ current' = [current EXCEPT ![d] = NoEntry]
            /\ UNCHANGED <<queue, putters, woken, todo, log>>
  BY DEF LoopHead, Take

LEMMA LoopHeadType ==
  ASSUME TypeOK, NEW d \in Dispatcher, LoopHead(d) \/ Take(d)
  PROVE  /\ DispatchTypeOK'
         /\ queue' \in SUBSET Entry /\ IsFiniteSet(queue')
         /\ putters' \in Seq(Task) /\ woken' \in SUBSET Task
<1>1. CASE /\ WakePutter
           /\ dpc' = [dpc EXCEPT ![d] = "dispatching"]
           /\ \E e \in queue : /\ queue' = queue \ {e}
                               /\ current' = [current EXCEPT ![d] = e]
                               /\ todo' = [todo EXCEPT ![d] = Handlers(e.type)]
                               /\ log' = Append(log, e)
  <2>1. PICK e \in queue : /\ queue' = queue \ {e}
                           /\ current' = [current EXCEPT ![d] = e]
                           /\ todo' = [todo EXCEPT ![d] = Handlers(e.type)]
                           /\ log' = Append(log, e)
    BY <1>1
  <2>2. IsFiniteSet(queue') /\ queue' \in SUBSET Entry
    BY <2>1, FS_RemoveElement DEF TypeOK, QueueTypeOK
  <2>3. Handlers(e.type) \subseteq Sub
    BY DEF Handlers, TypeOK, SubTypeOK
  <2>4. putters' \in Seq(Task) /\ woken' \in SUBSET Task
    BY <1>1, WakeType DEF TypeOK
  <2>5. DispatchTypeOK'
    BY <1>1, <2>1, <2>3 DEF TypeOK, DispatchTypeOK, QueueTypeOK, Alive
  <2> QED
    BY <2>2, <2>4, <2>5
<1>2. CASE /\ \E pc \in {"getting", "exited"} : dpc' = [dpc EXCEPT ![d] = pc]
           /\ current' = [current EXCEPT ![d] = NoEntry]
           /\ UNCHANGED <<queue, putters, woken, todo, log>>
  BY <1>2 DEF TypeOK, DispatchTypeOK, QueueTypeOK, Alive
<1> QED
  BY <1>1, <1>2, LoopHeadCases

LEMMA TaskDoneType ==
  ASSUME TypeOK, TaskDone
  PROVE  unfinished' \in Int /\ (UNCHANGED <<awaited, owed>> => StopTypeOK')
  BY DEF TaskDone, TypeOK, QueueTypeOK, StopTypeOK

LEMMA CancelDispatcherType ==
  ASSUME TypeOK, NEW s \in Stopper, CancelDispatcher(s), UNCHANGED <<current, todo, log>>
  PROVE  /\ DispatchTypeOK'
         /\ owed' \in [Stopper -> SUBSET Nat] => StopTypeOK'
         /\ dispatcherTask' \in Dispatcher \cup {NoTask}
  BY DEF CancelDispatcher, Ended, TypeOK, DispatchTypeOK, StopTypeOK

LEMMA OutstandingType == ASSUME TypeOK PROVE Outstanding \in SUBSET Nat
  BY SeqType DEF TypeOK, QueueTypeOK, DispatchTypeOK, Outstanding, Held

\* A put() that is given up.
LEMMA GiveUpType ==
  ASSUME QueueTypeOK, NEW t \in Task, GiveUpPut(t)
  PROVE  putters' \in Seq(Task) /\ woken' \in SUBSET Task
<1>1. ASSUME NEW i \in DOMAIN putters, putters' = RemoveAt(putters, i)
      PROVE  putters' \in Seq(Task)
  BY <1>1, RemoveAtProperties DEF QueueTypeOK
<1>2. CASE putters # <<>> /\ putters' = Tail(putters)
           /\ woken' = (woken \ {t}) \cup {Head(putters)}
  <2>1. Head(putters) \in Task /\ Tail(putters) \in Seq(Task)
    BY <1>2, HeadTailProperties DEF QueueTypeOK
  <2> QED
    BY <1>2, <2>1 DEF QueueTypeOK
<1> QED
  BY <1>1, <1>2 DEF GiveUpPut, QueueTypeOK

-------------------------------------------------------------------------------
(* The tasks waiting in put() *)

LEMMA WaitBegin ==
  ASSUME QueueTypeOK, WaitInv, NEW t \in Task, NEW type \in EventType,
         putting[t] = NoEntry, BeginPut(t, type), woken' = woken
  PROVE  WaitInv'
<1> DEFINE e == [pri |-> ResolvePriority(type), seq |-> sequence + 1, type |-> type]
<1>1. e \in Entry /\ e # NoEntry
  BY PriorityType, NoEntryIsNone DEF QueueTypeOK, Entry
<1> HIDE DEF e
<1>2. \/ UNCHANGED <<putting, putters>>
      \/ putting' = [putting EXCEPT ![t] = e] /\ putters' = Append(putters, t)
  BY DEF BeginPut, e
<1>3. CASE UNCHANGED <<putting, putters>>
  BY <1>3 DEF WaitInv
<1>4. CASE putting' = [putting EXCEPT ![t] = e] /\ putters' = Append(putters, t)
  <2>1. \A i \in DOMAIN putters : putters[i] # t
    BY DEF WaitInv
  <2>2. t \notin woken
    BY DEF WaitInv
  <2>3. \A u \in Task : putting'[u] = IF u = t THEN e ELSE putting[u]
    BY <1>4 DEF QueueTypeOK
  <2>4. /\ putters \in Seq(Task) /\ Len(putters) \in Nat
        /\ DOMAIN putters = 1 .. Len(putters)
        /\ DOMAIN putters' = 1 .. Len(putters) + 1
        /\ \A i \in 1 .. Len(putters) + 1 :
             putters'[i] = IF i = Len(putters) + 1 THEN t ELSE putters[i]
    BY <1>4 DEF QueueTypeOK
  <2> QED
    BY <1>1, <2>1, <2>2, <2>3, <2>4 DEF WaitInv, QueueTypeOK
<1> QED
  BY <1>2, <1>3, <1>4

\* The first of the line is woken.
LEMMA TailProperties ==
  ASSUME QueueTypeOK, putters # <<>>
  PROVE  /\ Head(putters) = putters[1] /\ 1 \in DOMAIN putters
         /\ DOMAIN putters = 1 .. Len(putters)
         /\ DOMAIN Tail(putters) = 1 .. Len(putters) - 1
         /\ \A i \in 1 .. Len(putters) - 1 :
              Tail(putters)[i] = putters[i + 1] /\ i + 1 \in DOMAIN putters
  BY HeadTailProperties, EmptySeq DEF QueueTypeOK

LEMMA WaitWake ==
  ASSUME QueueTypeOK, WaitInv, WakePutter, putting' = putting
  PROVE  WaitInv'
<1>1. CASE putters = <<>>
  BY <1>1 DEF WakePutter, WaitInv
<1>2. CASE putters # <<>>
  <2>1. woken' = woken \cup {putters[1]} /\ putters' = Tail(putters)
    BY <1>2, TailProperties DEF WakePutter
  <2> QED
    BY <1>2, <2>1, TailProperties DEF WaitInv
<1> QED
  BY <1>1, <1>2

LEMMA WaitAgain ==
  ASSUME QueueTypeOK, WaitInv, NEW t \in woken, woken' = woken \ {t},
         putters' = Append(putters, t), putting' = putting
  PROVE  WaitInv'
<1>1. t \in Task
  BY DEF QueueTypeOK
<1>2. /\ putters \in Seq(Task) /\ Len(putters) \in Nat
      /\ DOMAIN putters = 1 .. Len(putters)
      /\ DOMAIN putters' = 1 .. Len(putters) + 1
      /\ \A i \in 1 .. Len(putters) + 1 :
           putters'[i] = IF i = Len(putters) + 1 THEN t ELSE putters[i]
  BY <1>1 DEF QueueTypeOK
<1> QED
  BY <1>2 DEF WaitInv

\* A task that is neither in the line nor woken any more lets go of its entry.
LEMMA WaitLetGo ==
  ASSUME QueueTypeOK, WaitInv, NEW t \in Task, woken' = woken \ {t},
         \A i \in DOMAIN putters : putters[i] # t,
         putters' = putters, putting' = [putting EXCEPT ![t] = NoEntry]
  PROVE  WaitInv'
<1>1. \A u \in Task : putting'[u] = IF u = t THEN NoEntry ELSE putting[u]
  BY DEF QueueTypeOK
<1>2. \A i \in DOMAIN putters : putters[i] \in Task
  BY DEF QueueTypeOK
<1> QED
  BY <1>1, <1>2 DEF WaitInv, QueueTypeOK

LEMMA WaitGiveUp ==
  ASSUME QueueTypeOK, WaitInv, NEW t \in Task, GiveUpPut(t),
         putting' = [putting EXCEPT ![t] = NoEntry]
  PROVE  WaitInv'
<1>1. \A u \in Task : putting'[u] = IF u = t THEN NoEntry ELSE putting[u]
  BY DEF QueueTypeOK
<1>2. /\ \A i \in DOMAIN putters : putters[i] \in Task
      /\ woken \subseteq Task
  BY DEF QueueTypeOK
<1>3. ASSUME NEW i \in DOMAIN putters, putters[i] = t, putters' = RemoveAt(putters, i),
             woken' = woken
      PROVE  WaitInv'
  <2>1. DOMAIN putters = 1 .. Len(putters) /\ Len(putters) \in Nat
    BY DEF QueueTypeOK
  <2>2. /\ DOMAIN putters' = 1 .. Len(putters) - 1
        /\ \A j \in 1 .. Len(putters) - 1 :
             putters'[j] = IF j < i THEN putters[j] ELSE putters[j + 1]
    BY <1>3, RemoveAtProperties DEF QueueTypeOK
  <2>3. \A j \in DOMAIN putters' : \E k \in DOMAIN putters :
          k # i /\ putters'[j] = putters[k] /\ k = IF j < i THEN j ELSE j + 1
    BY <2>1, <2>2
  <2>4. \A j \in DOMAIN putters' : /\ putting'[putters'[j]] # NoEntry
                                   /\ putters'[j] \notin woken'
    BY <1>1, <1>2, <1>3, <2>3 DEF WaitInv
  <2>5. \A j, k \in DOMAIN putters' : putters'[j] = putters'[k] => j = k
    BY <2>1, <2>2, <2>3 DEF WaitInv
  <2>6. \A u \in woken' : putting'[u] # NoEntry
    BY <1>1, <1>2, <1>3 DEF WaitInv
  <2> QED
    BY <2>4, <2>5, <2>6 DEF WaitInv
<1>4. CASE t \in woken /\ woken' = woken \ {t} /\ putters' = putters
  BY <1>4, WaitLetGo DEF WaitInv
<1>5. CASE /\ t \in woken /\ putters # <<>>
           /\ woken' = (woken \ {t}) \cup {Head(putters)} /\ putters' = Tail(putters)
  BY <1>1, <1>2, <1>5, TailProperties DEF WaitInv
<1>6. CASE putting[t] = NoEntry /\ putters' = putters /\ woken' = woken
  <2>1. putting' = putting
    BY <1>6 DEF QueueTypeOK
  <2> QED
    BY <1>6, <2>1 DEF WaitInv
<1> QED
  BY <1>3, <1>4, <1>5, <1>6 DEF GiveUpPut

-------------------------------------------------------------------------------
(* Sequence numbers: what is outstanding, waiting and owed *)

\* Nothing new is outstanding.
LEMMA NumbersShrink ==
  ASSUME SeqInv, PutInv, Outstanding' \subseteq Outstanding, sequence \in Nat,
         sequence' = sequence, owed' = owed,
         \A t \in Task : putting'[t] \in {putting[t], NoEntry}
  PROVE  SeqInv' /\ PutInv'
<1>1. SeqInv'
  BY DEF SeqInv, NoEntry
<1>2. PutInv'
  BY DEF PutInv
<1> QED
  BY <1>1, <1>2

LEMMA StopsShrink ==
  ASSUME StopDrains, OwedInv, Outstanding' \subseteq Outstanding, owed' = owed,
         \A s \in Stopper :
           \/ spc'[s] = spc[s]
           \/ spc'[s] = "joined" /\ Outstanding' = {}
           \/ spc[s] \in {"joined", "reaping"} /\ spc'[s] \in {"reaping", "done"}
  PROVE  StopDrains' /\ OwedInv'
<1>1. StopDrains'
  BY DEF StopDrains
<1>2. OwedInv'
  BY DEF OwedInv
<1> QED
  BY <1>1, <1>2

\* What is outstanding, element by element.
LEMMA OutstandingMembers ==
  \A n : n \in Outstanding <=>
    \/ \E e \in queue : e.seq = n
    \/ \E d \in Dispatcher : current[d] # NoEntry /\ current[d].seq = n
  BY DEF Outstanding, Held

LEMMA OutstandingMembersPrime ==
  \A n : n \in Outstanding' <=>
    \/ \E e \in queue' : e.seq = n
    \/ \E d \in Dispatcher : current'[d] # NoEntry /\ current'[d].seq = n
  BY DEF Outstanding, Held

LEMMA OutstandingSame ==
  ASSUME queue' = queue, current' = current
  PROVE  Outstanding' = Outstanding /\ Held' = Held
  BY DEF Outstanding, Held

\* One entry more in the queue.
LEMMA OutstandingPut ==
  ASSUME NEW e, queue' = queue \cup {e}, current' = current
  PROVE  Outstanding' = Outstanding \cup {e.seq}
  BY OutstandingMembers, OutstandingMembersPrime

\* The loop moves entries from the queue to the dispatcher, and drops its own.
LEMMA LoopHeadOutstanding ==
  ASSUME TypeOK, NEW d \in Dispatcher, LoopHead(d) \/ Take(d)
  PROVE  Outstanding' \subseteq Outstanding
<1> SUFFICES ASSUME NEW n \in Outstanding' PROVE n \in Outstanding
  OBVIOUS
<1>1. \E r \in queue \cup {NoEntry} :
        /\ queue' \subseteq queue
        /\ current' = [current EXCEPT ![d] = r]
  BY LoopHeadCases
<1>2. PICK r \in queue \cup {NoEntry} :
        /\ queue' \subseteq queue
        /\ \A c \in Dispatcher : current'[c] = IF c = d THEN r ELSE current[c]
  BY <1>1 DEF TypeOK, DispatchTypeOK
<1>3. CASE \E e \in queue' : e.seq = n
  BY <1>2, <1>3, OutstandingMembers
<1>4. CASE \E c \in Dispatcher : current'[c] # NoEntry /\ current'[c].seq = n
  <2>1. PICK c \in Dispatcher : current'[c] # NoEntry /\ current'[c].seq = n
    BY <1>4
  <2>2. CASE c = d
    BY <1>2, <2>1, <2>2, OutstandingMembers
  <2>3. CASE c # d
    BY <1>2, <2>1, <2>3, OutstandingMembers
  <2> QED
    BY <2>2, <2>3
<1> QED
  BY <1>3, <1>4, OutstandingMembersPrime

-------------------------------------------------------------------------------
(* Counting *)

Count == Cardinality(queue) + Cardinality(Held)

LEMMA CountType == ASSUME TypeOK PROVE Count \in Nat
  BY HeldFinite, FS_CardinalityType DEF Count, TypeOK, QueueTypeOK

LEMMA CountPut ==
  ASSUME TypeOK, NEW e, e \notin queue, queue' = queue \cup {e}, current' = current
  PROVE  Count' = Count + 1
<1>1. Cardinality(queue') = Cardinality(queue) + 1
  BY FS_AddElement DEF TypeOK, QueueTypeOK
<1>2. Held' = Held
  BY DEF Held
<1>3. Cardinality(queue) \in Nat /\ Cardinality(Held) \in Nat
  BY HeldFinite, FS_CardinalityType DEF TypeOK, QueueTypeOK
<1> QED
  BY <1>1, <1>2, <1>3 DEF Count

\* A dispatcher's hand is emptied, or filled.
LEMMA HandEmptied ==
  ASSUME TypeOK, NEW d \in Dispatcher, current' = [current EXCEPT ![d] = NoEntry]
  PROVE  Cardinality(Held') = IF current[d] = NoEntry THEN Cardinality(Held)
                              ELSE Cardinality(Held) - 1
<1>1. Held' = Held \ {d}
  BY DEF Held, TypeOK, DispatchTypeOK
<1>2. d \in Held <=> current[d] # NoEntry
  BY DEF Held
<1>3. CASE current[d] = NoEntry
  <2>1. Held' = Held
    BY <1>1, <1>2, <1>3
  <2> QED
    BY <1>3, <2>1
<1>4. CASE current[d] # NoEntry
  BY <1>1, <1>2, <1>4, HeldFinite, FS_RemoveElement
<1> QED
  BY <1>3, <1>4

LEMMA HandFilled ==
  ASSUME TypeOK, NEW d \in Dispatcher, NEW e \in Entry,
         current' = [current EXCEPT ![d] = e]
  PROVE  Cardinality(Held') = IF current[d] = NoEntry THEN Cardinality(Held) + 1
                              ELSE Cardinality(Held)
<1>1. Held' = Held \cup {d}
  BY NoEntryIsNone DEF Held, TypeOK, DispatchTypeOK
<1>2. d \in Held <=> current[d] # NoEntry
  BY DEF Held
<1>3. CASE current[d] = NoEntry
  BY <1>1, <1>2, <1>3, HeldFinite, FS_AddElement
<1>4. CASE current[d] # NoEntry
  <2>1. Held' = Held
    BY <1>1, <1>2, <1>4
  <2> QED
    BY <1>4, <2>1
<1> QED
  BY <1>3, <1>4

LEMMA LoopHeadCount ==
  ASSUME TypeOK, NEW d \in Dispatcher, LoopHead(d) \/ Take(d)
  PROVE  Count' = IF current[d] = NoEntry THEN Count ELSE Count - 1
<1>1. /\ Cardinality(queue) \in Nat /\ Cardinality(Held) \in Nat
      /\ IsFiniteSet(queue)
  BY HeldFinite, FS_CardinalityType DEF TypeOK, QueueTypeOK
<1>2. ASSUME NEW e \in queue, queue' = queue \ {e}, current' = [current EXCEPT ![d] = e]
      PROVE  Count' = IF current[d] = NoEntry THEN Count ELSE Count - 1
  <2>1. Cardinality(queue') = Cardinality(queue) - 1
    BY <1>1, <1>2, FS_RemoveElement
  <2>2. Cardinality(Held') = IF current[d] = NoEntry THEN Cardinality(Held) + 1
                             ELSE Cardinality(Held)
    BY <1>2, HandFilled DEF TypeOK, QueueTypeOK
  <2> QED
    BY <1>1, <2>1, <2>2 DEF Count
<1>3. CASE queue' = queue /\ current' = [current EXCEPT ![d] = NoEntry]
  <2>1. Cardinality(Held') = IF current[d] = NoEntry THEN Cardinality(Held)
                             ELSE Cardinality(Held) - 1
    BY <1>3, HandEmptied
  <2> QED
    BY <1>1, <1>3, <2>1 DEF Count
<1>4. \/ \E e \in queue : queue' = queue \ {e} /\ current' = [current EXCEPT ![d] = e]
      \/ queue' = queue /\ current' = [current EXCEPT ![d] = NoEntry]
  BY LoopHeadCases
<1> QED
  BY <1>2, <1>3, <1>4

\* With nothing to count, nothing is outstanding.
LEMMA NothingOutstanding ==
  ASSUME IsFiniteSet(queue), Count = 0
  PROVE  Outstanding = {}
<1>1. queue = {} /\ Held = {}
  BY HeldFinite, NoneLeft DEF Count
<1> QED
  BY <1>1 DEF Outstanding

LEMMA NothingOutstandingPrime ==
  ASSUME IsFiniteSet(queue'), Count' = 0
  PROVE  Outstanding' = {}
<1>1. queue' = {} /\ Held' = {}
  BY HeldFinite, NoneLeft DEF Count
<1> QED
  BY <1>1 DEF Outstanding

-------------------------------------------------------------------------------
(* Each action keeps IInv *)

\* What a publish() does to the queue, whoever calls it.
LEMMA BeginPutKeeps ==
  ASSUME IInv, NEW t \in Task, NEW type \in EventType, putting[t] = NoEntry,
         BeginPut(t, type), woken' = woken, current' = current, spc' = spc, owed' = owed
  PROVE  /\ QueueTypeOK' /\ WaitInv' /\ SeqInv' /\ PutInv' /\ OwedInv'
         /\ UnfinishedIsOutstanding' /\ StopDrains'
<1> DEFINE e == [pri |-> ResolvePriority(type), seq |-> sequence + 1, type |-> type]
<1>1. e \in Entry /\ e # NoEntry /\ e.seq = sequence + 1
  BY PriorityType, NoEntryIsNone DEF IInv, TypeOK, QueueTypeOK, Entry
<1>2. /\ sequence' = sequence + 1
      /\ \/ PutNow(e) /\ UNCHANGED <<putting, putters>>
         \/ /\ putting' = [putting EXCEPT ![t] = e]
            /\ UNCHANGED <<queue, unfinished>>
  BY DEF BeginPut
<1> HIDE DEF e
<1>3. QueueTypeOK' /\ WaitInv'
  BY BeginPutType, WaitBegin DEF IInv, TypeOK
<1>4. /\ sequence \in Nat /\ Outstanding \in SUBSET Nat /\ owed \in [Stopper -> SUBSET Nat]
      /\ \A u \in Task : putting[u].seq \in Nat
  BY OutstandingType, SeqType DEF IInv, TypeOK, QueueTypeOK, StopTypeOK
<1>5. CASE PutNow(e) /\ UNCHANGED <<putting, putters>>
  <2>1. queue' = queue \cup {e} /\ unfinished' = unfinished + 1
    BY <1>5 DEF PutNow
  <2>2. Outstanding' = Outstanding \cup {sequence + 1}
    BY <1>1, <2>1, OutstandingPut
  <2>3. e \notin queue
    BY <1>1, <1>4, OutstandingMembers DEF IInv, SeqInv
  <2>4. UnfinishedIsOutstanding'
    BY <2>1, <2>3, CountPut DEF IInv, UnfinishedIsOutstanding, Count
  <2>5. SeqInv'
    BY <1>2, <1>4, <1>5, <2>2 DEF IInv, SeqInv
  <2>6. PutInv'
    BY <1>4, <1>5, <2>2 DEF IInv, PutInv, SeqInv
  <2>7. StopDrains' /\ OwedInv'
    BY <1>4, <2>2 DEF IInv, SeqInv, StopDrains, OwedInv
  <2> QED
    BY <1>3, <2>4, <2>5, <2>6, <2>7
<1>6. CASE putting' = [putting EXCEPT ![t] = e] /\ UNCHANGED <<queue, unfinished>>
  <2>1. \A u \in Task : putting'[u] = IF u = t THEN e ELSE putting[u]
    BY <1>6 DEF IInv, TypeOK, QueueTypeOK
  <2>2. Outstanding' = Outstanding /\ Held' = Held
    BY <1>6, OutstandingSame
  <2>3. SeqInv'
    <3>1. \A n \in Outstanding' : n <= sequence'
      BY <1>2, <1>4, <2>2 DEF IInv, SeqInv
    <3>2. \A u \in Task : putting'[u].seq <= sequence'
      BY <1>1, <1>2, <1>4, <2>1 DEF IInv, SeqInv
    <3>3. \A s \in Stopper : \A n \in owed'[s] : n <= sequence'
      BY <1>2, <1>4 DEF IInv, SeqInv
    <3> QED
      BY <3>1, <3>2, <3>3 DEF SeqInv
  <2>4. PutInv'
    BY <1>1, <1>4, <2>1, <2>2 DEF IInv, PutInv, SeqInv
  <2>5. StopDrains' /\ OwedInv' /\ UnfinishedIsOutstanding'
    BY <1>6, <2>2 DEF IInv, StopDrains, OwedInv, UnfinishedIsOutstanding
  <2> QED
    BY <1>3, <2>3, <2>4, <2>5
<1> QED
  BY <1>2, <1>5, <1>6

LEMMA PublishKeeps ==
  ASSUME IInv, NEW p \in Publisher, NEW type \in EventType, Publish(p, type)
  PROVE  IInv'
<1>1. /\ call[p] = "ready" /\ putting[p] = NoEntry /\ p \in Task
  BY DEF Publish, IInv, CallInv, Task
<1>2. /\ QueueTypeOK' /\ WaitInv' /\ SeqInv' /\ PutInv' /\ OwedInv'
      /\ UnfinishedIsOutstanding' /\ StopDrains'
  BY <1>1, BeginPutKeeps DEF Publish, dispatchVars, stopVars
<1>3. call' = [call EXCEPT ![p] = IF Full THEN "putting" ELSE "done"]
  BY DEF Publish
<1>4. running' \in BOOLEAN
  BY DEF Publish, IInv, TypeOK
<1>5. SubTypeOK' /\ DispatchTypeOK' /\ StopTypeOK' /\ calls' \in [Sub -> Seq(Nat)]
      /\ dispatcherTask' \in Dispatcher \cup {NoTask}
  BY DEF Publish, IInv, TypeOK, SubTypeOK, DispatchTypeOK, StopTypeOK, subVars,
         dispatchVars, stopVars
<1>6. TypeOK'
  BY <1>2, <1>3, <1>4, <1>5 DEF IInv, TypeOK
<1>7. CallInv'
  <2>1. ~Full => putting' = putting
    BY DEF Publish, BeginPut
  <2>2. \A q \in Publisher : q # p => putting'[q] = putting[q]
    BY DEF Publish, BeginPut, IInv, TypeOK, QueueTypeOK, Task
  <2> QED
    BY <1>1, <1>3, <2>1, <2>2 DEF IInv, TypeOK, CallInv
<1>8. HandInv'
  BY DEF Publish, dispatchVars, IInv, HandInv
<1> QED
  BY <1>2, <1>6, <1>7, <1>8 DEF IInv

LEMMA HandlerPublishesKeeps ==
  ASSUME IInv, NEW d \in Dispatcher, HandlerPublishes(d)
  PROVE  IInv'
<1>1. PICK h \in NextHandler(d) :
        /\ Reaction[h] # NoEvent
        /\ BeginPut(d, Reaction[h])
        /\ calls' = [calls EXCEPT ![h] = Append(@, current[d].seq)]
        /\ todo' = [todo EXCEPT ![d] = IF Full THEN @ ELSE @ \ {h}]
  BY DEF HandlerPublishes
<1>2. /\ putting[d] = NoEntry /\ d \in Task
      /\ \A p \in Publisher : p # d /\ p \in Task
  BY BoundsAssumption DEF HandlerPublishes, Task
<1>3. h \in Sub /\ Reaction[h] \in EventType
  BY <1>1, TypesAssumption DEF NextHandler, IInv, TypeOK, DispatchTypeOK
<1>4. UNCHANGED <<woken, running, dispatcherTask, subscribers, nextSubId, subId, call,
                  dpc, current, log, spc, awaited, owed>>
  BY DEF HandlerPublishes, subVars, stopVars
<1>5. /\ QueueTypeOK' /\ WaitInv' /\ SeqInv' /\ PutInv' /\ OwedInv'
      /\ UnfinishedIsOutstanding' /\ StopDrains'
  BY <1>1, <1>2, <1>3, <1>4, BeginPutKeeps
<1>6. TypeOK'
  <2>1. running' \in BOOLEAN
    BY <1>4 DEF IInv, TypeOK
  <2>2. SubTypeOK' /\ StopTypeOK' /\ dispatcherTask' \in Dispatcher \cup {NoTask}
        /\ call' \in [Publisher -> {"ready", "putting", "done", "failed"}]
    BY <1>4 DEF IInv, TypeOK, SubTypeOK, StopTypeOK
  <2>3. DispatchTypeOK'
    <3>1. todo' \in [Dispatcher -> SUBSET Sub]
      BY <1>1 DEF IInv, TypeOK, DispatchTypeOK
    <3> QED
      BY <1>4, <3>1 DEF IInv, TypeOK, DispatchTypeOK
  <2>4. calls' \in [Sub -> Seq(Nat)]
    <3>1. current[d].seq \in Nat
      BY SeqType DEF IInv, TypeOK, DispatchTypeOK
    <3>2. Append(calls[h], current[d].seq) \in Seq(Nat)
      BY <1>3, <3>1 DEF IInv, TypeOK
    <3> QED
      BY <1>1, <1>3, <3>2 DEF IInv, TypeOK
  <2> QED
    BY <1>5, <2>1, <2>2, <2>3, <2>4 DEF TypeOK
<1>7. CallInv'
  <2>1. \A q \in Publisher : putting'[q] = putting[q]
    BY <1>1, <1>2 DEF BeginPut, IInv, TypeOK, QueueTypeOK
  <2> QED
    BY <1>4, <2>1 DEF IInv, CallInv
<1>8. HandInv'
  BY <1>4 DEF IInv, HandInv
<1> QED
  BY <1>5, <1>6, <1>7, <1>8 DEF IInv

LEMMA PutWaitsAgainKeeps ==
  ASSUME IInv, NEW t \in Task, PutWaitsAgain(t)
  PROVE  IInv'
<1>1. /\ t \in woken /\ woken' = woken \ {t} /\ putters' = Append(putters, t)
      /\ UNCHANGED <<queue, unfinished, putting, sequence, running, dispatcherTask,
                     subscribers, nextSubId, subId, call, dpc, current, todo, log,
                     spc, awaited, owed, calls>>
  BY DEF PutWaitsAgain, MayRetry, subVars, dispatchVars, stopVars
<1>2. Outstanding' = Outstanding /\ Held' = Held
  BY <1>1, OutstandingSame
<1>3. WaitInv'
  BY <1>1, WaitAgain DEF IInv, TypeOK
<1>4. SeqInv' /\ PutInv' /\ StopDrains' /\ OwedInv'
  BY <1>1, <1>2, NumbersShrink, StopsShrink DEF IInv, TypeOK, QueueTypeOK
<1>5. TypeOK'
  <2>1. QueueTypeOK'
    BY <1>1 DEF IInv, TypeOK, QueueTypeOK
  <2>2. running' \in BOOLEAN
    BY <1>1 DEF IInv, TypeOK
  <2>3. SubTypeOK' /\ DispatchTypeOK' /\ StopTypeOK'
    BY <1>1 DEF IInv, TypeOK, SubTypeOK, DispatchTypeOK, StopTypeOK
  <2> QED
    BY <1>1, <2>1, <2>2, <2>3 DEF IInv, TypeOK
<1>6. CallInv' /\ HandInv' /\ UnfinishedIsOutstanding'
  BY <1>1, <1>2 DEF IInv, CallInv, HandInv, UnfinishedIsOutstanding
<1> QED
  BY <1>3, <1>4, <1>5, <1>6 DEF IInv

LEMMA PutCompletesKeeps ==
  ASSUME IInv, NEW t \in Task, PutCompletes(t)
  PROVE  IInv'
<1>1. /\ t \in woken /\ woken' = woken \ {t}
      /\ PutNow(putting[t])
      /\ putting' = [putting EXCEPT ![t] = NoEntry]
      /\ call' = [p \in Publisher |-> IF p = t THEN "done" ELSE call[p]]
      /\ UNCHANGED <<putters, sequence, running, dispatcherTask, subscribers, nextSubId,
                     subId, dpc, current, log, spc, awaited, owed, calls>>
  BY DEF PutCompletes, MayRetry, subVars, stopVars
<1> DEFINE e == putting[t]
<1>2. e \in Entry /\ e # NoEntry
  BY <1>1 DEF IInv, WaitInv, TypeOK, QueueTypeOK
<1>3. queue' = queue \cup {e} /\ unfinished' = unfinished + 1
  BY <1>1 DEF PutNow
<1>4. \A u \in Task : putting'[u] = IF u = t THEN NoEntry ELSE putting[u]
  BY <1>1 DEF IInv, TypeOK, QueueTypeOK
<1>5. Outstanding' = Outstanding \cup {e.seq}
  BY <1>1, <1>3, OutstandingPut
<1>6. e.seq \notin Outstanding
  BY <1>2 DEF IInv, PutInv
<1>7. QueueTypeOK'
  <2>1. queue' \in SUBSET Entry /\ IsFiniteSet(queue') /\ unfinished' \in Int
    BY <1>1, <1>2, PutNowType DEF IInv, TypeOK
  <2> QED
    BY <1>1, <2>1 DEF IInv, TypeOK, QueueTypeOK
<1>8. WaitInv'
  <2>1. \A i \in DOMAIN putters : putters[i] # t
    BY <1>1 DEF IInv, WaitInv
  <2> QED
    BY <1>1, <2>1, WaitLetGo DEF IInv, TypeOK
<1>9. UnfinishedIsOutstanding'
  <2>1. e \notin queue
    BY <1>6, OutstandingMembers
  <2> QED
    BY <1>1, <1>3, <2>1, CountPut DEF IInv, UnfinishedIsOutstanding, Count
<1>10. SeqInv' /\ PutInv'
  <2>1. SeqInv'
    BY <1>1, <1>4, <1>5, NoEntryIsNone DEF IInv, SeqInv, NoEntry, TypeOK, QueueTypeOK
  <2>2. PutInv'
    BY <1>1, <1>2, <1>4, <1>5 DEF IInv, PutInv
  <2> QED
    BY <2>1, <2>2
<1>11. StopDrains' /\ OwedInv'
  BY <1>1, <1>2, <1>5 DEF IInv, PutInv, StopDrains, OwedInv
<1>12. DispatchTypeOK'
  <2>1. todo' = [d \in Dispatcher |-> IF d = t THEN todo[d] \ NextHandler(d) ELSE todo[d]]
    BY DEF PutCompletes
  <2>2. todo' \in [Dispatcher -> SUBSET Sub]
    BY <2>1 DEF IInv, TypeOK, DispatchTypeOK
  <2> QED
    BY <1>1, <2>2 DEF IInv, TypeOK, DispatchTypeOK
<1>13. running' \in BOOLEAN
  BY <1>1 DEF IInv, TypeOK
<1>14. TypeOK'
  <2>1. SubTypeOK' /\ StopTypeOK'
    BY <1>1 DEF IInv, TypeOK, SubTypeOK, StopTypeOK
  <2>2. call' \in [Publisher -> {"ready", "putting", "done", "failed"}]
    BY <1>1 DEF IInv, TypeOK
  <2> QED
    BY <1>1, <1>7, <1>12, <1>13, <2>1, <2>2 DEF IInv, TypeOK
<1>15. CallInv'
  BY <1>1, <1>4 DEF IInv, CallInv, Task
<1>16. HandInv'
  BY <1>1 DEF IInv, HandInv
<1> QED
  BY <1>8, <1>9, <1>10, <1>11, <1>14, <1>15, <1>16 DEF IInv

LEMMA HandlerReturnsKeeps ==
  ASSUME IInv, NEW d \in Dispatcher, HandlerReturns(d)
  PROVE  IInv'
<1>1. PICK h \in NextHandler(d) :
        /\ calls' = [calls EXCEPT ![h] = Append(@, current[d].seq)]
        /\ todo' = [todo EXCEPT ![d] = @ \ {h}]
  BY DEF HandlerReturns
<1>2. h \in Sub
  BY <1>1 DEF NextHandler, IInv, TypeOK, DispatchTypeOK
<1>3. UNCHANGED <<queue, unfinished, putters, woken, putting, sequence, running,
                  dispatcherTask, subscribers, nextSubId, subId, call, dpc, current, log,
                  spc, awaited, owed>>
  BY DEF HandlerReturns, queueVars, subVars, stopVars
<1>4. Outstanding' = Outstanding /\ Held' = Held
  BY <1>3, OutstandingSame
<1>5. SeqInv' /\ PutInv' /\ StopDrains' /\ OwedInv'
  BY <1>3, <1>4, NumbersShrink, StopsShrink DEF IInv, TypeOK, QueueTypeOK
<1>6. TypeOK'
  <2>1. running' \in BOOLEAN
    BY <1>3 DEF IInv, TypeOK
  <2>2. QueueTypeOK' /\ SubTypeOK' /\ StopTypeOK'
    BY <1>3 DEF IInv, TypeOK, QueueTypeOK, SubTypeOK, StopTypeOK
  <2>3. DispatchTypeOK'
    BY <1>1, <1>3 DEF IInv, TypeOK, DispatchTypeOK
  <2>4. calls' \in [Sub -> Seq(Nat)]
    <3>1. current[d].seq \in Nat
      BY SeqType DEF IInv, TypeOK, DispatchTypeOK
    <3>2. Append(calls[h], current[d].seq) \in Seq(Nat)
      BY <1>2, <3>1 DEF IInv, TypeOK
    <3> QED
      BY <1>1, <1>2, <3>2 DEF IInv, TypeOK
  <2> QED
    BY <1>3, <2>1, <2>2, <2>3, <2>4 DEF IInv, TypeOK
<1>7. WaitInv' /\ CallInv' /\ HandInv' /\ UnfinishedIsOutstanding'
  BY <1>3, <1>4 DEF IInv, WaitInv, CallInv, HandInv, UnfinishedIsOutstanding
<1> QED
  BY <1>5, <1>6, <1>7 DEF IInv

\* join() returns only when nothing is outstanding.
LEMMA TaskDoneStops ==
  ASSUME TypeOK, TaskDone, unfinished' = Count', IsFiniteSet(queue')
  PROVE  \A s \in Stopper : \/ spc'[s] = spc[s]
                            \/ spc'[s] = "joined" /\ Outstanding' = {}
<1>1. CASE unfinished' = 0
  <2>1. Outstanding' = {}
    BY <1>1, NothingOutstandingPrime
  <2> QED
    BY <2>1 DEF TaskDone
<1>2. CASE unfinished' # 0
  BY <1>2 DEF TaskDone
<1> QED
  BY <1>1, <1>2

\* A turn of the dispatcher's loop.
LEMMA LoopKeeps ==
  ASSUME IInv, NEW d \in Dispatcher, LoopHead(d) \/ Take(d), LoopFrame,
         \/ current[d] = NoEntry /\ UNCHANGED <<unfinished, spc>>
         \/ current[d] # NoEntry /\ TaskDone
  PROVE  IInv'
<1>1. UNCHANGED <<putting, sequence, running, dispatcherTask, subscribers, nextSubId,
                  subId, call, awaited, owed, calls>>
  BY DEF LoopFrame, subVars
<1>2. /\ DispatchTypeOK'
      /\ queue' \in SUBSET Entry /\ IsFiniteSet(queue')
      /\ putters' \in Seq(Task) /\ woken' \in SUBSET Task
  BY LoopHeadType DEF IInv
<1>3. unfinished' \in Int /\ StopTypeOK'
  <2>1. CASE UNCHANGED <<unfinished, spc>>
    BY <1>1, <2>1 DEF IInv, TypeOK, QueueTypeOK, StopTypeOK
  <2>2. CASE TaskDone
    BY <1>1, <2>2, TaskDoneType DEF IInv
  <2> QED
    BY <2>1, <2>2
<1>4. running' \in BOOLEAN
  BY <1>1 DEF IInv, TypeOK
<1>5. TypeOK'
  <2>1. QueueTypeOK'
    BY <1>1, <1>2, <1>3 DEF IInv, TypeOK, QueueTypeOK
  <2>2. SubTypeOK'
    BY <1>1 DEF IInv, TypeOK, SubTypeOK
  <2> QED
    BY <1>1, <1>2, <1>3, <1>4, <2>1, <2>2 DEF IInv, TypeOK
<1>6. WaitInv'
  <2>1. WakePutter \/ UNCHANGED <<putters, woken>>
    BY LoopHeadCases
  <2>2. CASE WakePutter
    BY <1>1, <2>2, WaitWake DEF IInv, TypeOK
  <2>3. CASE UNCHANGED <<putters, woken>>
    BY <1>1, <2>3 DEF IInv, WaitInv
  <2> QED
    BY <2>1, <2>2, <2>3
<1>7. CallInv'
  BY <1>1 DEF IInv, CallInv
<1>8. HandInv'
  <2>1. ASSUME NEW e \in queue, dpc' = [dpc EXCEPT ![d] = "dispatching"],
               current' = [current EXCEPT ![d] = e]
        PROVE  HandInv'
    <3>1. e # NoEntry
      BY NoEntryIsNone DEF IInv, TypeOK, QueueTypeOK
    <3> QED
      BY <2>1, <3>1 DEF IInv, TypeOK, DispatchTypeOK, HandInv
  <2>2. ASSUME NEW pc \in {"getting", "exited"}, dpc' = [dpc EXCEPT ![d] = pc],
               current' = [current EXCEPT ![d] = NoEntry]
        PROVE  HandInv'
    BY <2>2 DEF IInv, TypeOK, DispatchTypeOK, HandInv
  <2> QED
    BY <2>1, <2>2, LoopHeadCases
<1>9. Outstanding' \subseteq Outstanding
  BY LoopHeadOutstanding DEF IInv
<1>10. SeqInv' /\ PutInv'
  BY <1>1, <1>9, NumbersShrink DEF IInv, TypeOK, QueueTypeOK
<1>11. unfinished' = Count'
  <2>1. Count' = IF current[d] = NoEntry THEN Count ELSE Count - 1
    BY LoopHeadCount DEF IInv
  <2>2. unfinished = Count
    BY DEF IInv, UnfinishedIsOutstanding, Count
  <2> QED
    BY <2>1, <2>2 DEF TaskDone
<1>12. UnfinishedIsOutstanding'
  BY <1>11 DEF UnfinishedIsOutstanding, Count
<1>13. StopDrains' /\ OwedInv'
  <2>1. CASE spc' = spc
    BY <1>1, <1>9, <2>1, StopsShrink DEF IInv
  <2>2. CASE TaskDone
    BY <1>1, <1>2, <1>9, <1>11, <2>2, TaskDoneStops, StopsShrink DEF IInv
  <2> QED
    BY <2>1, <2>2
<1> QED
  BY <1>5, <1>6, <1>7, <1>8, <1>10, <1>12, <1>13 DEF IInv

LEMMA DispatcherLoops ==
  ASSUME IInv, NEW d \in Dispatcher,
         DispatcherStarts(d) \/ GetReturns(d) \/ GetTimesOut(d) \/ EventDone(d)
  PROVE  IInv'
<1>1. CASE DispatcherStarts(d)
  BY <1>1, LoopKeeps DEF DispatcherStarts, IInv, HandInv
<1>2. CASE GetReturns(d)
  BY <1>2, LoopKeeps DEF GetReturns, IInv, HandInv
<1>3. CASE GetTimesOut(d)
  BY <1>3, LoopKeeps DEF GetTimesOut, IInv, HandInv
<1>4. CASE EventDone(d)
  BY <1>4, LoopKeeps DEF EventDone, IInv, HandInv
<1> QED
  BY <1>1, <1>2, <1>3, <1>4

LEMMA UnwindKeeps ==
  ASSUME IInv, NEW d \in Dispatcher, Unwind(d)
  PROVE  IInv'
<1>1. /\ dpc' = [dpc EXCEPT ![d] = "exited"]
      /\ current' = [current EXCEPT ![d] = NoEntry]
      /\ todo' = [todo EXCEPT ![d] = {}]
      /\ \/ current[d] = NoEntry /\ UNCHANGED <<unfinished, spc>>
         \/ current[d] # NoEntry /\ TaskDone
      /\ GiveUpPut(d)
      /\ putting' = [putting EXCEPT ![d] = NoEntry]
      /\ UNCHANGED <<queue, sequence, running, dispatcherTask, subscribers, nextSubId,
                     subId, call, log, awaited, owed, calls>>
  BY DEF Unwind, subVars
<1>2. d \in Task
  BY DEF Task
<1>3. \A t \in Task : putting'[t] = IF t = d THEN NoEntry ELSE putting[t]
  BY <1>1, <1>2 DEF IInv, TypeOK, QueueTypeOK
<1>4. QueueTypeOK'
  <2>1. unfinished' \in Int
    BY <1>1, TaskDoneType DEF IInv, TypeOK, QueueTypeOK
  <2>2. putters' \in Seq(Task) /\ woken' \in SUBSET Task
    BY <1>1, <1>2, GiveUpType DEF IInv, TypeOK
  <2> QED
    BY <1>1, <2>1, <2>2 DEF IInv, TypeOK, QueueTypeOK
<1>5. StopTypeOK'
  <2>1. CASE UNCHANGED <<unfinished, spc>>
    BY <1>1, <2>1 DEF IInv, TypeOK, StopTypeOK
  <2>2. CASE TaskDone
    BY <1>1, <2>2, TaskDoneType DEF IInv
  <2> QED
    BY <1>1, <2>1, <2>2
<1>6. running' \in BOOLEAN
  BY <1>1 DEF IInv, TypeOK
<1>7. TypeOK'
  <2>1. SubTypeOK' /\ DispatchTypeOK'
    BY <1>1 DEF IInv, TypeOK, SubTypeOK, DispatchTypeOK
  <2> QED
    BY <1>1, <1>4, <1>5, <1>6, <2>1 DEF IInv, TypeOK
<1>8. WaitInv'
  BY <1>1, <1>2, WaitGiveUp DEF IInv, TypeOK
<1>9. CallInv'
  BY <1>1, <1>3 DEF IInv, CallInv, Task
<1>10. HandInv'
  BY <1>1 DEF IInv, HandInv, TypeOK, DispatchTypeOK
<1>11. Outstanding' \subseteq Outstanding
  <2>1. \A c \in Dispatcher : current'[c] = IF c = d THEN NoEntry ELSE current[c]
    BY <1>1 DEF IInv, TypeOK, DispatchTypeOK
  <2> QED
    BY <1>1, <2>1, OutstandingMembers, OutstandingMembersPrime
<1>12. SeqInv' /\ PutInv'
  BY <1>1, <1>3, <1>11, NumbersShrink DEF IInv, TypeOK, QueueTypeOK
<1>13. unfinished' = Count'
  <2>1. Cardinality(Held') = IF current[d] = NoEntry THEN Cardinality(Held)
                             ELSE Cardinality(Held) - 1
    BY <1>1, HandEmptied DEF IInv
  <2>2. Cardinality(queue) \in Nat /\ Cardinality(Held) \in Nat
    BY HeldFinite, FS_CardinalityType DEF IInv, TypeOK, QueueTypeOK
  <2>3. unfinished = Cardinality(queue) + Cardinality(Held)
    BY DEF IInv, UnfinishedIsOutstanding
  <2> QED
    BY <1>1, <2>1, <2>2, <2>3 DEF TaskDone, Count
<1>14. UnfinishedIsOutstanding'
  BY <1>13 DEF UnfinishedIsOutstanding, Count
<1>15. StopDrains' /\ OwedInv'
  <2>1. CASE spc' = spc
    BY <1>1, <1>11, <2>1, StopsShrink DEF IInv
  <2>2. CASE TaskDone
    <3>1. IsFiniteSet(queue')
      BY <1>4 DEF QueueTypeOK
    <3> QED
      BY <1>1, <1>11, <1>13, <2>2, <3>1, TaskDoneStops, StopsShrink DEF IInv
  <2> QED
    BY <1>1, <2>1, <2>2
<1> QED
  BY <1>7, <1>8, <1>9, <1>10, <1>12, <1>14, <1>15 DEF IInv

\* subscribe(), unsubscribe(), start() and a refused publish() leave the queue,
\* the hands and the stop() calls alone.
LEMMA AsideKeeps ==
  ASSUME IInv, UNCHANGED <<queueVars, current, stopVars>>,
         SubTypeOK', DispatchTypeOK', running' \in BOOLEAN,
         dispatcherTask' \in Dispatcher \cup {NoTask}, calls' = calls,
         call' \in [Publisher -> {"ready", "putting", "done", "failed"}],
         \A p \in Publisher : call'[p] = call[p] \/ call[p] = "ready",
         \A d \in Dispatcher : dpc'[d] = dpc[d] \/ (dpc'[d] = "new" /\ dpc[d] = "unborn")
  PROVE  IInv'
<1>1. UNCHANGED <<queue, unfinished, putters, woken, putting, sequence, current,
                  spc, awaited, owed>>
  BY DEF queueVars, stopVars
<1>2. Outstanding' = Outstanding /\ Held' = Held
  BY <1>1, OutstandingSame
<1>3. SeqInv' /\ PutInv' /\ StopDrains' /\ OwedInv'
  BY <1>1, <1>2, NumbersShrink, StopsShrink DEF IInv, TypeOK, QueueTypeOK
<1>4. QueueTypeOK' /\ StopTypeOK'
  BY <1>1 DEF IInv, TypeOK, QueueTypeOK, StopTypeOK
<1>5. calls' \in [Sub -> Seq(Nat)]
  BY DEF IInv, TypeOK
<1>6. TypeOK'
  BY <1>4, <1>5 DEF TypeOK
<1>7. WaitInv' /\ UnfinishedIsOutstanding'
  BY <1>1, <1>2 DEF IInv, WaitInv, UnfinishedIsOutstanding
<1>8. CallInv' /\ HandInv'
  BY <1>1 DEF IInv, CallInv, HandInv
<1> QED
  BY <1>3, <1>6, <1>7, <1>8 DEF IInv

LEMMA SubscribeKeeps ==
  ASSUME IInv, NEW h \in Sub, Subscribe(h) \/ Unsubscribe(h)
  PROVE  IInv'
<1>1. /\ UNCHANGED <<queueVars, dispatcherTask, call, dpc, current, todo, log,
                     stopVars, calls>>
      /\ subscribers' \in {subscribers \cup {h}, subscribers \ {h}}
      /\ nextSubId' \in {nextSubId, nextSubId + 1}
      /\ \/ subId' = subId
         \/ subId' = [subId EXCEPT ![h] = nextSubId]
  BY DEF Subscribe, Unsubscribe, dispatchVars
<1>2. SubTypeOK'
  BY <1>1 DEF IInv, TypeOK, SubTypeOK
<1>3. running' \in BOOLEAN
  BY DEF Subscribe, Unsubscribe, IInv, TypeOK
<1>4. DispatchTypeOK' /\ dispatcherTask' \in Dispatcher \cup {NoTask}
      /\ call' \in [Publisher -> {"ready", "putting", "done", "failed"}]
  BY <1>1 DEF IInv, TypeOK, DispatchTypeOK
<1> QED
  BY <1>1, <1>2, <1>3, <1>4, AsideKeeps

LEMMA RefusedKeeps ==
  ASSUME IInv, NEW p \in Publisher, PublishRefused(p)
  PROVE  IInv'
<1>1. /\ call[p] = "ready" /\ call' = [call EXCEPT ![p] = "failed"]
      /\ UNCHANGED <<queueVars, dispatcherTask, subscribers, nextSubId, subId,
                     dpc, current, todo, log, stopVars, calls>>
  BY DEF PublishRefused, dispatchVars, subVars
<1>2. running' \in BOOLEAN
  BY DEF PublishRefused, IInv, TypeOK
<1>3. /\ SubTypeOK' /\ DispatchTypeOK' /\ dispatcherTask' \in Dispatcher \cup {NoTask}
      /\ call' \in [Publisher -> {"ready", "putting", "done", "failed"}]
      /\ \A q \in Publisher : call'[q] = call[q] \/ call[q] = "ready"
  BY <1>1 DEF IInv, TypeOK, SubTypeOK, DispatchTypeOK
<1> QED
  BY <1>1, <1>2, <1>3, AsideKeeps

LEMMA StartKeeps ==
  ASSUME IInv, NEW d \in Dispatcher, Start(d)
  PROVE  IInv'
<1>1. /\ dpc[d] = "unborn" /\ dpc' = [dpc EXCEPT ![d] = "new"]
      /\ dispatcherTask' = d
      /\ UNCHANGED <<queueVars, subscribers, nextSubId, subId, call, current, todo, log,
                     stopVars, calls>>
  BY DEF Start, subVars
<1>2. running' \in BOOLEAN
  BY DEF Start
<1>3. SubTypeOK' /\ call' \in [Publisher -> {"ready", "putting", "done", "failed"}]
  BY <1>1 DEF IInv, TypeOK, SubTypeOK
<1>4. DispatchTypeOK'
  BY <1>1 DEF IInv, TypeOK, DispatchTypeOK, Alive
<1>5. \A c \in Dispatcher : dpc'[c] = dpc[c] \/ (dpc'[c] = "new" /\ dpc[c] = "unborn")
  BY <1>1 DEF IInv, TypeOK, DispatchTypeOK
<1> QED
  BY <1>1, <1>2, <1>3, <1>4, <1>5, AsideKeeps

\* A step of stop() that cancels, or only changes its own state.
LEMMA StopperKeeps ==
  ASSUME IInv, StopFrame, NEW s \in Stopper,
         running' \in BOOLEAN, dispatcherTask' \in Dispatcher \cup {NoTask},
         DispatchTypeOK', StopTypeOK',
         \A d \in Dispatcher : dpc'[d] = dpc[d] \/ dpc'[d] = "cancelled",
         \A r \in Stopper : r # s => spc'[r] = spc[r] /\ owed'[r] = owed[r],
         spc'[s] # "ready", owed'[s] \in {owed[s], Outstanding},
         spc'[s] # "joining" => owed'[s] \cap Outstanding = {}
  PROVE  IInv'
<1>1. UNCHANGED <<queue, unfinished, putters, woken, putting, sequence, subscribers,
                  nextSubId, subId, call, current, todo, log, calls>>
  BY DEF StopFrame, queueVars, subVars
<1>2. Outstanding' = Outstanding /\ Held' = Held
  BY <1>1, OutstandingSame
<1>3. TypeOK'
  <2>1. QueueTypeOK' /\ SubTypeOK'
    BY <1>1 DEF IInv, TypeOK, QueueTypeOK, SubTypeOK
  <2> QED
    BY <1>1, <2>1 DEF IInv, TypeOK
<1>4. SeqInv'
  BY <1>1, <1>2 DEF IInv, SeqInv
<1>5. PutInv'
  BY <1>1, <1>2 DEF IInv, PutInv
<1>6. StopDrains' /\ OwedInv'
  BY <1>2 DEF IInv, StopDrains, OwedInv
<1>7. WaitInv' /\ CallInv' /\ HandInv' /\ UnfinishedIsOutstanding'
  BY <1>1, <1>2 DEF IInv, WaitInv, CallInv, HandInv, UnfinishedIsOutstanding
<1> QED
  BY <1>3, <1>4, <1>5, <1>6, <1>7 DEF IInv

\* What CancelDispatcher does to the call itself.
LEMMA CancelDispatcherCases ==
  ASSUME IInv, NEW s \in Stopper, CancelDispatcher(s)
  PROVE  /\ spc'[s] \in {"reaping", "done"}
         /\ \A r \in Stopper : r # s => spc'[r] = spc[r]
         /\ \A d \in Dispatcher : dpc'[d] = dpc[d] \/ dpc'[d] = "cancelled"
  BY DEF CancelDispatcher, IInv, TypeOK, StopTypeOK, DispatchTypeOK

LEMMA StopKeeps ==
  ASSUME IInv, NEW s \in Stopper, Stop(s)
  PROVE  IInv'
<1>1. /\ StopFrame /\ running' = FALSE /\ owed' = [owed EXCEPT ![s] = Outstanding]
      /\ UNCHANGED <<current, todo, log>>
  BY DEF Stop, StopFrame
<1>2. owed' \in [Stopper -> SUBSET Nat]
  BY <1>1, OutstandingType DEF IInv, TypeOK, StopTypeOK
<1>3. /\ \A r \in Stopper : r # s => owed'[r] = owed[r]
      /\ owed'[s] = Outstanding
  BY <1>1 DEF IInv, TypeOK, StopTypeOK
<1>4. CASE unfinished = 0 /\ CancelDispatcher(s)
  <2>1. Outstanding = {}
    BY <1>4, NothingOutstanding
       DEF IInv, UnfinishedIsOutstanding, Count, TypeOK, QueueTypeOK
  <2>2. /\ DispatchTypeOK' /\ StopTypeOK' /\ dispatcherTask' \in Dispatcher \cup {NoTask}
    BY <1>1, <1>2, <1>4, CancelDispatcherType DEF IInv
  <2> QED
    BY <1>1, <1>3, <1>4, <2>1, <2>2, CancelDispatcherCases, StopperKeeps
<1>5. CASE /\ spc' = [spc EXCEPT ![s] = "joining"]
           /\ UNCHANGED <<dpc, awaited, dispatcherTask>>
  <2>1. StopTypeOK' /\ DispatchTypeOK' /\ dispatcherTask' \in Dispatcher \cup {NoTask}
    BY <1>1, <1>2, <1>5 DEF IInv, TypeOK, StopTypeOK, DispatchTypeOK
  <2>2. spc'[s] = "joining" /\ \A r \in Stopper : r # s => spc'[r] = spc[r]
    BY <1>5 DEF IInv, TypeOK, StopTypeOK
  <2> QED
    BY <1>1, <1>3, <1>5, <2>1, <2>2, StopperKeeps
<1> QED
  BY <1>4, <1>5 DEF Stop

LEMMA StopStepKeeps ==
  ASSUME IInv, NEW s \in Stopper, StopNotRunning(s) \/ StopStep(s)
  PROVE  IInv'
<1>1. StopFrame /\ running' = running /\ owed' = owed /\ UNCHANGED <<current, todo, log>>
  BY DEF StopNotRunning, StopStep, JoinReturns, StopReturns, StopFrame
<1>2. owed[s] \cap Outstanding = {}
  <2>1. spc[s] = "ready" \/ spc[s] \in {"joined", "reaping", "done"}
    BY DEF StopNotRunning, StopStep, JoinReturns, StopReturns
  <2> QED
    BY <2>1 DEF IInv, OwedInv, StopDrains
<1>3. running' \in BOOLEAN
  BY <1>1 DEF IInv, TypeOK
<1>4. CASE CancelDispatcher(s)
  <2>1. DispatchTypeOK' /\ StopTypeOK' /\ dispatcherTask' \in Dispatcher \cup {NoTask}
    BY <1>1, <1>4, CancelDispatcherType DEF IInv, TypeOK, StopTypeOK
  <2> QED
    BY <1>1, <1>2, <1>3, <1>4, <2>1, CancelDispatcherCases, StopperKeeps
<1>5. CASE /\ spc' = [spc EXCEPT ![s] = "done"]
           /\ dispatcherTask' \in {dispatcherTask, NoTask}
           /\ UNCHANGED <<dpc, awaited>>
  <2>1. StopTypeOK' /\ DispatchTypeOK' /\ dispatcherTask' \in Dispatcher \cup {NoTask}
    BY <1>1, <1>5 DEF IInv, TypeOK, StopTypeOK, DispatchTypeOK
  <2>2. spc'[s] = "done" /\ \A r \in Stopper : r # s => spc'[r] = spc[r]
    BY <1>5 DEF IInv, TypeOK, StopTypeOK
  <2> QED
    BY <1>1, <1>2, <1>3, <1>5, <2>1, <2>2, StopperKeeps
<1> QED
  BY <1>4, <1>5 DEF StopNotRunning, StopStep, JoinReturns, StopReturns

-------------------------------------------------------------------------------
(* The theorems *)

LEMMA InvInit == Init => IInv
<1> SUFFICES ASSUME Init PROVE IInv
  OBVIOUS
<1>1. Held = {} /\ Outstanding = {}
  BY DEF Init, Held, Outstanding
<1>2. WaitInv /\ CallInv
  BY DEF Init, WaitInv, CallInv, Task
<1>3. HandInv /\ OwedInv /\ StopDrains
  BY DEF Init, HandInv, OwedInv, StopDrains
<1>4. SeqInv /\ PutInv
  BY <1>1 DEF Init, SeqInv, PutInv, NoEntry
<1>5. UnfinishedIsOutstanding
  BY <1>1, FS_EmptySet DEF Init, UnfinishedIsOutstanding
<1> QED
  BY <1>2, <1>3, <1>4, <1>5, TypeInit DEF IInv

LEMMA InvNext == IInv /\ [Next]_vars => IInv'
<1> SUFFICES ASSUME IInv, [Next]_vars PROVE IInv'
  OBVIOUS
<1>1. ASSUME NEW h \in Sub, Subscribe(h) \/ Unsubscribe(h) PROVE IInv'
  BY <1>1, SubscribeKeeps
<1>2. ASSUME NEW p \in Publisher,
             PublishRefused(p) \/ \E t \in EventType : Publish(p, t)
      PROVE  IInv'
  BY <1>2, RefusedKeeps, PublishKeeps
<1>3. ASSUME NEW t \in Task, PutStep(t) PROVE IInv'
  BY <1>3, PutWaitsAgainKeeps, PutCompletesKeeps DEF PutStep
<1>4. ASSUME NEW d \in Dispatcher, DispatcherStep(d) \/ Start(d) PROVE IInv'
  BY <1>4, DispatcherLoops, HandlerReturnsKeeps, HandlerPublishesKeeps, UnwindKeeps,
     StartKeeps DEF DispatcherStep
<1>5. ASSUME NEW s \in Stopper, Stop(s) \/ StopNotRunning(s) \/ StopStep(s) PROVE IInv'
  BY <1>5, StopKeeps, StopStepKeeps
<1>6. CASE UNCHANGED vars
  <2>1. UNCHANGED <<queueVars, dispatcherTask, subscribers, nextSubId, subId, call, dpc,
                    current, todo, log, stopVars, calls>>
    BY <1>6 DEF vars, subVars, dispatchVars
  <2>2. SubTypeOK' /\ DispatchTypeOK' /\ dispatcherTask' \in Dispatcher \cup {NoTask}
        /\ call' \in [Publisher -> {"ready", "putting", "done", "failed"}]
    BY <2>1 DEF IInv, TypeOK, SubTypeOK, DispatchTypeOK
  <2>3. running' \in BOOLEAN
    BY <1>6 DEF vars, IInv, TypeOK
  <2> QED
    BY <2>1, <2>2, <2>3, AsideKeeps
<1> QED
  BY <1>1, <1>2, <1>3, <1>4, <1>5, <1>6 DEF Next

LEMMA Inductive == Spec => []IInv
<1>1. Init => IInv
  BY InvInit
<1>2. IInv /\ [Next]_vars => IInv'
  BY InvNext
<1> QED
  BY <1>1, <1>2, PTL DEF Spec

\* Whatever the interleaving, the variables of the bus keep their types.
THEOREM TypeCorrect == Spec => []TypeOK
<1>1. IInv => TypeOK
  BY DEF IInv
<1> QED
  BY <1>1, Inductive, PTL

\* The counter that stop() waits for (queue.join()) is exact: task_done() is
\* called once for each entry taken, also when the dispatcher is cancelled in a
\* handler or in a blocked put(), and when two dispatchers overlap.
THEOREM CounterCorrect == Spec => []UnfinishedIsOutstanding
<1>1. IInv => UnfinishedIsOutstanding
  BY DEF IInv
<1> QED
  BY <1>1, Inductive, PTL

\* A stop() that gets past join() has drained all that was queued or being
\* handled when it was called.
THEOREM StopCorrect == Spec => []StopDrains
<1>1. IInv => StopDrains
  BY DEF IInv
<1> QED
  BY <1>1, Inductive, PTL

-------------------------------------------------------------------------------
(* No handler is given an event twice *)

\* A sequence number is in the queue once, or in one hand.
NumberedInv ==
  /\ \A a, b \in queue : a.seq = b.seq => a = b
  /\ \A d \in Dispatcher : current[d] # NoEntry =>
       /\ \A e \in queue : e.seq # current[d].seq
       /\ \A c \in Dispatcher : current[c] # NoEntry /\ current[c].seq = current[d].seq => c = d

Given(h, n) == \E i \in DOMAIN calls[h] : calls[h][i] = n

\* What a handler was given is neither queued nor waiting to be.
GivenInv ==
  \A h \in Sub : \A n \in Nat : Given(h, n) =>
    /\ n <= sequence
    /\ \A e \in queue : e.seq # n
    /\ \A t \in Task : putting[t] # NoEntry => putting[t].seq # n

\* A handler that was given the event in hand and is still to finish is the one
\* whose own put() blocks.
TodoInv ==
  /\ \A h \in subscribers : subId[h] # NoId
  /\ \A d \in Dispatcher : \A h \in todo[d] :
       /\ subId[h] # NoId
       /\ current[d] # NoEntry /\ Given(h, current[d].seq) =>
            putting[d] # NoEntry /\ h \in NextHandler(d)

OnceInv == NumberedInv /\ GivenInv /\ TodoInv /\ HandledAtMostOnce

\* Steps that touch no entry, no handler and no subscription.
LEMMA OnceAside ==
  ASSUME OnceInv, UNCHANGED <<queue, putting, sequence, current, todo, subscribers, subId, calls>>
  PROVE  OnceInv'
<1>1. \A d \in Dispatcher : NextHandler(d)' = NextHandler(d)
  BY DEF NextHandler, RunsBefore
<1>2. \A h \in Sub : \A n : Given(h, n)' <=> Given(h, n)
  BY DEF Given
<1>3. NumberedInv' /\ HandledAtMostOnce'
  BY DEF OnceInv, NumberedInv, HandledAtMostOnce
<1>4. GivenInv'
  BY <1>2 DEF OnceInv, GivenInv
<1>5. TodoInv'
  BY <1>1 DEF OnceInv, TodoInv, Given
<1> QED
  BY <1>3, <1>4, <1>5 DEF OnceInv

\* A new subscription comes too late for the events being handled.
LEMMA OnceSubscribe ==
  ASSUME IInv, OnceInv, NEW s \in Sub, Subscribe(s)
  PROVE  OnceInv'
<1>1. /\ subId[s] = NoId /\ subId' = [subId EXCEPT ![s] = nextSubId]
      /\ nextSubId \in Nat /\ subId \in [Sub -> Nat \cup {NoId}]
      /\ subscribers' = subscribers \cup {s} /\ subscribers \subseteq Sub
      /\ UNCHANGED <<queue, putting, sequence, current, todo, calls>>
  BY DEF Subscribe, queueVars, dispatchVars, IInv, TypeOK, SubTypeOK
<1>2. \A h \in Sub : subId'[h] = IF h = s THEN nextSubId ELSE subId[h]
  BY <1>1
<1>3. nextSubId # NoId
  BY <1>1 DEF NoId
<1>4. \A d \in Dispatcher : todo[d] \subseteq Sub /\ s \notin todo[d]
  BY <1>1 DEF OnceInv, TodoInv, IInv, TypeOK, DispatchTypeOK
<1>5. \A d \in Dispatcher : NextHandler(d)' = NextHandler(d)
  BY <1>1, <1>2, <1>4 DEF NextHandler, RunsBefore
<1>6. TodoInv'
  BY <1>1, <1>2, <1>3, <1>4, <1>5 DEF OnceInv, TodoInv, Given
<1>7. NumberedInv' /\ HandledAtMostOnce' /\ GivenInv'
  BY <1>1 DEF OnceInv, NumberedInv, HandledAtMostOnce, GivenInv, Given
<1> QED
  BY <1>6, <1>7 DEF OnceInv

LEMMA OnceUnsubscribe ==
  ASSUME OnceInv, NEW s \in Sub, Unsubscribe(s)
  PROVE  OnceInv'
<1>1. /\ subscribers' \subseteq subscribers
      /\ UNCHANGED <<queue, putting, sequence, current, todo, subId, calls>>
  BY DEF Unsubscribe, queueVars, dispatchVars
<1>2. \A d \in Dispatcher : NextHandler(d)' = NextHandler(d)
  BY <1>1 DEF NextHandler, RunsBefore
<1>3. TodoInv'
  BY <1>1, <1>2 DEF OnceInv, TodoInv, Given
<1>4. NumberedInv' /\ HandledAtMostOnce' /\ GivenInv'
  BY <1>1 DEF OnceInv, NumberedInv, HandledAtMostOnce, GivenInv, Given
<1> QED
  BY <1>3, <1>4 DEF OnceInv

LEMMA GivenGrows ==
  ASSUME IInv, NEW h \in Sub, NEW m \in Nat, calls' = [calls EXCEPT ![h] = Append(@, m)]
  PROVE  /\ \A g \in Sub : \A n : Given(g, n)' <=> Given(g, n) \/ (g = h /\ n = m)
         /\ HandledAtMostOnce /\ ~Given(h, m) => HandledAtMostOnce'
<1>1. /\ calls[h] \in Seq(Nat) /\ Len(calls[h]) \in Nat
      /\ calls'[h] = Append(calls[h], m)
      /\ \A g \in Sub : g # h => calls'[g] = calls[g]
  BY DEF IInv, TypeOK
<1>2. /\ DOMAIN calls[h] = 1 .. Len(calls[h])
      /\ DOMAIN calls'[h] = 1 .. Len(calls[h]) + 1
      /\ \A i \in 1 .. Len(calls[h]) : calls'[h][i] = calls[h][i]
      /\ calls'[h][Len(calls[h]) + 1] = m
  BY <1>1, AppendProperties, LenProperties
<1>3. ASSUME NEW g \in Sub, NEW n
      PROVE  Given(g, n)' <=> Given(g, n) \/ (g = h /\ n = m)
  <2>1. CASE g = h
    BY <1>1, <1>2, <2>1 DEF Given
  <2>2. CASE g # h
    BY <1>1, <2>2 DEF Given
  <2> QED
    BY <2>1, <2>2
<1>4. ASSUME HandledAtMostOnce, ~Given(h, m) PROVE HandledAtMostOnce'
  <2>1. \A i, j \in DOMAIN calls'[h] : calls'[h][i] = calls'[h][j] => i = j
    BY <1>1, <1>2, <1>4 DEF HandledAtMostOnce, IsInjective, Given
  <2> QED
    BY <1>1, <1>4, <2>1 DEF HandledAtMostOnce, IsInjective
<1> QED
  BY <1>3, <1>4

\* A number that was just drawn is nowhere yet.
LEMMA OnceDrawn ==
  ASSUME IInv, OnceInv, NEW t \in Task, NEW type \in EventType, BeginPut(t, type),
         current' = current
  PROVE  /\ NumberedInv' /\ sequence \in Nat /\ sequence' = sequence + 1
         /\ \A e \in queue' : e \in queue \/ e.seq = sequence + 1
         /\ \A u \in Task : putting'[u] = putting[u] \/ (u = t /\ putting'[u].seq = sequence + 1)
         /\ Full => putting'[t] # NoEntry
<1> DEFINE e == [pri |-> ResolvePriority(type), seq |-> sequence + 1, type |-> type]
<1>1. e.seq = sequence + 1 /\ e # NoEntry /\ sequence \in Nat
  BY PriorityType, NoEntryIsNone DEF IInv, TypeOK, QueueTypeOK, Entry
<1>2. /\ sequence' = sequence + 1
      /\ \/ ~Full /\ PutNow(e) /\ UNCHANGED <<putting, putters>>
         \/ /\ putting' = [putting EXCEPT ![t] = e]
            /\ UNCHANGED <<queue, unfinished>>
  BY DEF BeginPut
<1> HIDE DEF e
<1>3. queue' \in {queue, queue \cup {e}}
  BY <1>2 DEF PutNow
<1>4. \A u \in Task : putting'[u] = putting[u] \/ (u = t /\ putting'[u] = e)
  BY <1>2 DEF IInv, TypeOK, QueueTypeOK
<1>5. Full => putting'[t] # NoEntry
  BY <1>1, <1>2 DEF IInv, TypeOK, QueueTypeOK
<1>6. NumberedInv'
  <2>1. /\ \A f \in queue : f.seq # sequence + 1
        /\ \A d \in Dispatcher : current[d] # NoEntry => current[d].seq # sequence + 1
    <3>1. \A n \in Outstanding : n # sequence + 1
      BY <1>1, OutstandingType DEF IInv, SeqInv
    <3> QED
      BY <3>1, OutstandingMembers
  <2> QED
    BY <1>1, <1>3, <2>1 DEF OnceInv, NumberedInv
<1> QED
  BY <1>1, <1>2, <1>3, <1>4, <1>5, <1>6

LEMMA OncePublish ==
  ASSUME IInv, OnceInv, NEW p \in Publisher, NEW type \in EventType, Publish(p, type)
  PROVE  OnceInv'
<1>1. UNCHANGED <<current, todo, subscribers, subId, calls>> /\ BeginPut(p, type) /\ p \in Task
  BY DEF Publish, subVars, dispatchVars, Task
<1>2. /\ NumberedInv' /\ sequence \in Nat /\ sequence' = sequence + 1
      /\ \A e \in queue' : e \in queue \/ e.seq = sequence + 1
      /\ \A u \in Task : putting'[u] = putting[u] \/ (u = p /\ putting'[u].seq = sequence + 1)
  BY <1>1, OnceDrawn
<1>3. \A h \in Sub : \A n : Given(h, n)' <=> Given(h, n)
  BY <1>1 DEF Given
<1>4. GivenInv'
  BY <1>2, <1>3 DEF OnceInv, GivenInv
<1>5. \A d \in Dispatcher : d \in Task /\ d # p
  BY BoundsAssumption DEF Task
<1>6. \A d \in Dispatcher : NextHandler(d)' = NextHandler(d)
  BY <1>1 DEF NextHandler, RunsBefore
<1>7. TodoInv'
  BY <1>1, <1>2, <1>5, <1>6 DEF OnceInv, TodoInv, Given
<1>8. HandledAtMostOnce'
  BY <1>1 DEF OnceInv, HandledAtMostOnce
<1> QED
  BY <1>2, <1>4, <1>7, <1>8 DEF OnceInv

LEMMA OnceCompletes ==
  ASSUME IInv, OnceInv, NEW t \in Task, PutCompletes(t)
  PROVE  OnceInv'
<1>1. /\ t \in woken /\ queue' = queue \cup {putting[t]}
      /\ putting' = [putting EXCEPT ![t] = NoEntry]
      /\ todo' = [d \in Dispatcher |-> IF d = t THEN todo[d] \ NextHandler(d) ELSE todo[d]]
      /\ UNCHANGED <<sequence, current, subscribers, subId, calls>>
  BY DEF PutCompletes, PutNow, MayRetry, subVars
<1>2. \A u \in Task : putting'[u] = IF u = t THEN NoEntry ELSE putting[u]
  BY <1>1 DEF IInv, TypeOK, QueueTypeOK
<1>3. putting[t] # NoEntry /\ putting[t].seq \notin Outstanding
  BY <1>1 DEF IInv, WaitInv, PutInv
<1>4. /\ \A e \in queue : e.seq # putting[t].seq
      /\ \A d \in Dispatcher : current[d] # NoEntry => current[d].seq # putting[t].seq
  BY <1>3, OutstandingMembers
<1>5. NumberedInv'
  BY <1>1, <1>4 DEF OnceInv, NumberedInv
<1>6. GivenInv'
  BY <1>1, <1>2, <1>3 DEF OnceInv, GivenInv, Given
<1>7. TodoInv'
  <2> SUFFICES ASSUME NEW d \in Dispatcher, NEW h \in todo'[d]
               PROVE  /\ subId[h] # NoId
                      /\ current[d] # NoEntry /\ Given(h, current[d].seq) =>
                           putting'[d] # NoEntry /\ h \in NextHandler(d)'
    BY <1>1 DEF OnceInv, TodoInv, Given
  <2>1. h \in todo[d] /\ (d = t => h \notin NextHandler(d))
    BY <1>1
  <2>2. d # t => NextHandler(d)' = NextHandler(d) /\ putting'[d] = putting[d]
    BY <1>1, <1>2 DEF NextHandler, RunsBefore, Task
  <2> QED
    BY <2>1, <2>2 DEF OnceInv, TodoInv
<1>8. HandledAtMostOnce'
  BY <1>1 DEF OnceInv, HandledAtMostOnce
<1> QED
  BY <1>5, <1>6, <1>7, <1>8 DEF OnceInv

\* The dispatcher takes an event no handler was given, or none.
LEMMA OnceLoop ==
  ASSUME IInv, OnceInv, NEW d \in Dispatcher, LoopHead(d) \/ Take(d), LoopFrame
  PROVE  OnceInv'
<1>1. UNCHANGED <<putting, sequence, subscribers, subId, calls>>
  BY DEF LoopFrame, subVars
<1>2. \A h \in Sub : \A n : Given(h, n)' <=> Given(h, n)
  BY <1>1 DEF Given
<1>3. HandledAtMostOnce'
  BY <1>1 DEF OnceInv, HandledAtMostOnce
<1>4. ASSUME NEW e \in queue, queue' = queue \ {e}, current' = [current EXCEPT ![d] = e],
             todo' = [todo EXCEPT ![d] = Handlers(e.type)]
      PROVE  NumberedInv' /\ GivenInv' /\ TodoInv'
  <2>1. \A c \in Dispatcher : /\ current'[c] = IF c = d THEN e ELSE current[c]
                              /\ todo'[c] = IF c = d THEN Handlers(e.type) ELSE todo[c]
    BY <1>4 DEF IInv, TypeOK, DispatchTypeOK
  <2>2. NumberedInv'
    BY <1>4, <2>1 DEF OnceInv, NumberedInv
  <2>3. GivenInv'
    BY <1>1, <1>2, <1>4 DEF OnceInv, GivenInv
  <2>4. \A h \in Sub : ~Given(h, e.seq)
    BY SeqType DEF OnceInv, GivenInv, IInv, TypeOK, QueueTypeOK
  <2>5. \A h \in Handlers(e.type) : h \in Sub /\ subId[h] # NoId
    BY DEF Handlers, OnceInv, TodoInv, IInv, TypeOK, SubTypeOK
  <2>6. \A c \in Dispatcher : c # d => NextHandler(c)' = NextHandler(c)
    BY <1>1, <2>1 DEF NextHandler, RunsBefore
  <2>7. ASSUME NEW c \in Dispatcher, NEW h \in todo'[c]
        PROVE  /\ subId[h] # NoId
               /\ current'[c] # NoEntry /\ Given(h, current'[c].seq) =>
                    putting[c] # NoEntry /\ h \in NextHandler(c)'
    <3>1. CASE c = d
      BY <2>1, <2>4, <2>5, <2>7, <3>1
    <3>2. CASE c # d
      BY <2>1, <2>6, <2>7, <3>2 DEF OnceInv, TodoInv
    <3> QED
      BY <3>1, <3>2
  <2>8. TodoInv'
    BY <1>1, <2>7 DEF OnceInv, TodoInv, Given
  <2> QED
    BY <2>2, <2>3, <2>8
<1>5. ASSUME queue' = queue, current' = [current EXCEPT ![d] = NoEntry], todo' = todo
      PROVE  NumberedInv' /\ GivenInv' /\ TodoInv'
  <2>1. \A c \in Dispatcher : current'[c] = IF c = d THEN NoEntry ELSE current[c]
    BY <1>5 DEF IInv, TypeOK, DispatchTypeOK
  <2>2. NumberedInv' /\ GivenInv'
    BY <1>1, <1>2, <1>5, <2>1 DEF OnceInv, NumberedInv, GivenInv
  <2>3. \A c \in Dispatcher : c # d => NextHandler(c)' = NextHandler(c)
    BY <1>1, <1>5, <2>1 DEF NextHandler, RunsBefore
  <2>4. TodoInv'
    BY <1>1, <1>5, <2>1, <2>3 DEF OnceInv, TodoInv, Given
  <2> QED
    BY <2>2, <2>4
<1> QED
  BY <1>3, <1>4, <1>5, LoopHeadCases DEF OnceInv

\* A handler whose turn it is has not been given the event.
LEMMA TurnIsFirst ==
  ASSUME IInv, OnceInv, NEW d \in Dispatcher, dpc[d] = "dispatching", putting[d] = NoEntry,
         NEW h \in NextHandler(d)
  PROVE  /\ h \in Sub /\ h \in todo[d] /\ current[d] # NoEntry /\ current[d].seq \in Nat
         /\ ~Given(h, current[d].seq)
         /\ current[d].seq <= sequence /\ current[d].seq \in Outstanding
         /\ \A e \in queue : e.seq # current[d].seq
         /\ \A t \in Task : putting[t] # NoEntry => putting[t].seq # current[d].seq
         /\ \A c \in Dispatcher : c # d /\ current[c] # NoEntry => current[c].seq # current[d].seq
<1>1. h \in todo[d] /\ h \in Sub /\ current[d] # NoEntry
  BY DEF NextHandler, IInv, HandInv, TypeOK, DispatchTypeOK
<1>2. current[d].seq \in Nat
  BY SeqType DEF IInv, TypeOK, DispatchTypeOK
<1>3. ~Given(h, current[d].seq)
  BY <1>1 DEF OnceInv, TodoInv
<1>4. current[d].seq \in Outstanding
  BY <1>1, OutstandingMembers
<1>5. current[d].seq <= sequence
  BY <1>4 DEF IInv, SeqInv
<1>6. \A t \in Task : putting[t] # NoEntry => putting[t].seq # current[d].seq
  BY <1>4 DEF IInv, PutInv
<1>7. /\ \A e \in queue : e.seq # current[d].seq
      /\ \A c \in Dispatcher : c # d /\ current[c] # NoEntry => current[c].seq # current[d].seq
  BY <1>1 DEF OnceInv, NumberedInv
<1> QED
  BY <1>1, <1>2, <1>3, <1>4, <1>5, <1>6, <1>7

LEMMA OnceReturns ==
  ASSUME IInv, OnceInv, NEW d \in Dispatcher, HandlerReturns(d)
  PROVE  OnceInv'
<1>1. PICK h \in NextHandler(d) :
        /\ calls' = [calls EXCEPT ![h] = Append(@, current[d].seq)]
        /\ todo' = [todo EXCEPT ![d] = @ \ {h}]
  BY DEF HandlerReturns
<1>2. /\ dpc[d] = "dispatching" /\ putting[d] = NoEntry
      /\ UNCHANGED <<queue, putting, sequence, current, subscribers, subId>>
  BY DEF HandlerReturns, queueVars, subVars
<1>3. /\ h \in Sub /\ current[d] # NoEntry /\ current[d].seq \in Nat
      /\ ~Given(h, current[d].seq) /\ current[d].seq <= sequence
      /\ \A e \in queue : e.seq # current[d].seq
      /\ \A t \in Task : putting[t] # NoEntry => putting[t].seq # current[d].seq
      /\ \A c \in Dispatcher : c # d /\ current[c] # NoEntry => current[c].seq # current[d].seq
  BY <1>2, TurnIsFirst
<1>4. /\ \A g \in Sub : \A n : Given(g, n)' <=> Given(g, n) \/ (g = h /\ n = current[d].seq)
      /\ HandledAtMostOnce'
  BY <1>1, <1>3, GivenGrows DEF OnceInv
<1>5. NumberedInv'
  BY <1>2 DEF OnceInv, NumberedInv
<1>6. GivenInv'
  BY <1>2, <1>3, <1>4 DEF OnceInv, GivenInv
<1>7. TodoInv'
  <2>1. \A c \in Dispatcher : todo'[c] = IF c = d THEN todo[d] \ {h} ELSE todo[c]
    BY <1>1 DEF IInv, TypeOK, DispatchTypeOK
  <2>2. \A c \in Dispatcher : todo[c] \subseteq Sub
    BY DEF IInv, TypeOK, DispatchTypeOK
  <2>3. \A c \in Dispatcher : c # d => NextHandler(c)' = NextHandler(c)
    BY <1>2, <2>1 DEF NextHandler, RunsBefore
  <2>4. ASSUME NEW c \in Dispatcher, NEW g \in todo'[c],
               current[c] # NoEntry, Given(g, current[c].seq)'
        PROVE  putting[c] # NoEntry /\ g \in NextHandler(c)'
    <3>1. g \in todo[c] /\ g \in Sub /\ (c = d => g # h)
      BY <2>1, <2>2
    <3>2. Given(g, current[c].seq)
      <4>1. PICK n : n = current[c].seq
        OBVIOUS
      <4>2. Given(g, n)'
        BY <1>2, <2>4, <4>1 DEF Given
      <4>3. Given(g, n) \/ (g = h /\ n = current[d].seq)
        BY <1>4, <3>1, <4>2
      <4> QED
        BY <1>3, <2>4, <3>1, <4>1, <4>3
    <3>3. putting[c] # NoEntry /\ g \in NextHandler(c)
      BY <2>4, <3>1, <3>2 DEF OnceInv, TodoInv
    <3> QED
      BY <1>2, <2>3, <3>3
  <2>5. \A c \in Dispatcher : \A g \in todo'[c] : subId[g] # NoId
    BY <2>1 DEF OnceInv, TodoInv
  <2> QED
    BY <1>2, <2>4, <2>5 DEF OnceInv, TodoInv, Given
<1> QED
  BY <1>4, <1>5, <1>6, <1>7 DEF OnceInv

LEMMA OnceHandlerPublishes ==
  ASSUME IInv, OnceInv, NEW d \in Dispatcher, HandlerPublishes(d)
  PROVE  OnceInv'
<1>1. PICK h \in NextHandler(d) :
        /\ Reaction[h] # NoEvent
        /\ BeginPut(d, Reaction[h])
        /\ calls' = [calls EXCEPT ![h] = Append(@, current[d].seq)]
        /\ todo' = [todo EXCEPT ![d] = IF Full THEN @ ELSE @ \ {h}]
  BY DEF HandlerPublishes
<1>2. /\ dpc[d] = "dispatching" /\ putting[d] = NoEntry /\ d \in Task
      /\ UNCHANGED <<current, subscribers, subId>>
  BY DEF HandlerPublishes, subVars, Task
<1>3. /\ h \in Sub /\ h \in todo[d] /\ current[d] # NoEntry /\ current[d].seq \in Nat
      /\ ~Given(h, current[d].seq) /\ current[d].seq <= sequence
      /\ \A e \in queue : e.seq # current[d].seq
      /\ \A t \in Task : putting[t] # NoEntry => putting[t].seq # current[d].seq
      /\ \A c \in Dispatcher : c # d /\ current[c] # NoEntry => current[c].seq # current[d].seq
  BY <1>2, TurnIsFirst
<1>4. Reaction[h] \in EventType
  BY <1>1, <1>3, TypesAssumption
<1>5. /\ \A g \in Sub : \A n : Given(g, n)' <=> Given(g, n) \/ (g = h /\ n = current[d].seq)
      /\ HandledAtMostOnce'
  BY <1>1, <1>3, GivenGrows DEF OnceInv
<1>6. /\ NumberedInv' /\ sequence \in Nat /\ sequence' = sequence + 1
      /\ \A e \in queue' : e \in queue \/ e.seq = sequence + 1
      /\ \A u \in Task : putting'[u] = putting[u] \/ (u = d /\ putting'[u].seq = sequence + 1)
      /\ Full => putting'[d] # NoEntry
  BY <1>1, <1>2, <1>4, OnceDrawn
<1>7. GivenInv'
  <2> SUFFICES ASSUME NEW g \in Sub, NEW n \in Nat, Given(g, n)'
               PROVE  /\ n <= sequence'
                      /\ \A e \in queue' : e.seq # n
                      /\ \A t \in Task : putting'[t] # NoEntry => putting'[t].seq # n
    BY DEF GivenInv
  <2>1. /\ n <= sequence
        /\ \A e \in queue : e.seq # n
        /\ \A t \in Task : putting[t] # NoEntry => putting[t].seq # n
    BY <1>3, <1>5 DEF OnceInv, GivenInv
  <2> QED
    BY <1>6, <2>1
<1>8. TodoInv'
  <2>1. \A c \in Dispatcher : todo'[c] = IF c = d /\ ~Full THEN todo[d] \ {h} ELSE todo[c]
    BY <1>1 DEF IInv, TypeOK, DispatchTypeOK
  <2>2. \A c \in Dispatcher : todo[c] \subseteq Sub /\ c \in Task
    BY DEF IInv, TypeOK, DispatchTypeOK, Task
  <2>3. \A c \in Dispatcher : todo'[c] = todo[c] => NextHandler(c)' = NextHandler(c)
    BY <1>2 DEF NextHandler, RunsBefore
  <2>4. ASSUME NEW c \in Dispatcher, NEW g \in todo'[c],
               current[c] # NoEntry, Given(g, current[c].seq)'
        PROVE  putting'[c] # NoEntry /\ g \in NextHandler(c)'
    <3>1. g \in todo[c] /\ g \in Sub
      BY <2>1, <2>2
    <3>2. CASE Given(g, current[c].seq)
      <4>1. putting[c] # NoEntry /\ g \in NextHandler(c)
        BY <2>4, <3>1, <3>2 DEF OnceInv, TodoInv
      <4>2. c # d /\ putting'[c] = putting[c] /\ todo'[c] = todo[c]
        BY <1>2, <1>6, <2>1, <2>2, <4>1
      <4> QED
        BY <2>3, <4>1, <4>2
    <3>3. CASE ~Given(g, current[c].seq)
      <4>1. g = h /\ current[c].seq = current[d].seq
        <5>1. PICK n : n = current[c].seq
          OBVIOUS
        <5>2. Given(g, n)'
          BY <1>2, <2>4, <5>1 DEF Given
        <5> QED
          BY <1>5, <3>1, <3>3, <5>1, <5>2
      <4>2. c = d
        BY <1>3, <2>4, <4>1
      <4>3. Full /\ todo'[d] = todo[d]
        BY <2>1, <2>4, <4>1, <4>2
      <4> QED
        BY <1>1, <1>6, <2>3, <4>1, <4>2, <4>3
    <3> QED
      BY <3>2, <3>3
  <2>5. \A c \in Dispatcher : \A g \in todo'[c] : subId[g] # NoId
    BY <2>1 DEF OnceInv, TodoInv
  <2> QED
    BY <1>2, <2>4, <2>5 DEF OnceInv, TodoInv, Given
<1> QED
  BY <1>5, <1>6, <1>7, <1>8 DEF OnceInv

LEMMA OnceUnwind ==
  ASSUME IInv, OnceInv, NEW d \in Dispatcher, Unwind(d)
  PROVE  OnceInv'
<1>1. /\ current' = [current EXCEPT ![d] = NoEntry]
      /\ todo' = [todo EXCEPT ![d] = {}]
      /\ putting' = [putting EXCEPT ![d] = NoEntry]
      /\ UNCHANGED <<queue, sequence, subscribers, subId, calls>>
  BY DEF Unwind, subVars
<1>2. \A c \in Dispatcher : /\ current'[c] = IF c = d THEN NoEntry ELSE current[c]
                            /\ todo'[c] = IF c = d THEN {} ELSE todo[c]
  BY <1>1 DEF IInv, TypeOK, DispatchTypeOK
<1>3. \A t \in Task : putting'[t] = IF t = d THEN NoEntry ELSE putting[t]
  BY <1>1 DEF IInv, TypeOK, QueueTypeOK
<1>4. NumberedInv' /\ HandledAtMostOnce'
  BY <1>1, <1>2 DEF OnceInv, NumberedInv, HandledAtMostOnce
<1>5. GivenInv'
  BY <1>1, <1>3 DEF OnceInv, GivenInv, Given
<1>6. \A c \in Dispatcher : c # d => NextHandler(c)' = NextHandler(c) /\ c \in Task
  BY <1>1, <1>2 DEF NextHandler, RunsBefore, Task
<1>7. TodoInv'
  BY <1>1, <1>2, <1>3, <1>6 DEF OnceInv, TodoInv, Given
<1> QED
  BY <1>4, <1>5, <1>7 DEF OnceInv

LEMMA OnceInit == Init => OnceInv
<1> SUFFICES ASSUME Init PROVE OnceInv
  OBVIOUS
<1>1. \A h \in Sub : calls[h] = <<>>
  BY DEF Init
<1>2. HandledAtMostOnce /\ GivenInv
  BY <1>1 DEF HandledAtMostOnce, IsInjective, GivenInv, Given
<1>3. NumberedInv /\ TodoInv
  BY DEF Init, NumberedInv, TodoInv
<1> QED
  BY <1>2, <1>3 DEF OnceInv

LEMMA OnceNext == IInv /\ OnceInv /\ [Next]_vars => OnceInv'
<1> SUFFICES ASSUME IInv, OnceInv, [Next]_vars PROVE OnceInv'
  OBVIOUS
<1>1. ASSUME NEW h \in Sub, Subscribe(h) \/ Unsubscribe(h) PROVE OnceInv'
  BY <1>1, OnceSubscribe, OnceUnsubscribe
<1>2. ASSUME NEW p \in Publisher, NEW t \in EventType, Publish(p, t) PROVE OnceInv'
  BY <1>2, OncePublish
<1>3. ASSUME NEW t \in Task, PutCompletes(t) PROVE OnceInv'
  BY <1>3, OnceCompletes
<1>4. ASSUME NEW d \in Dispatcher,
             DispatcherStarts(d) \/ GetReturns(d) \/ GetTimesOut(d) \/ EventDone(d)
      PROVE  OnceInv'
  BY <1>4, OnceLoop DEF DispatcherStarts, GetReturns, GetTimesOut, EventDone
<1>5. ASSUME NEW d \in Dispatcher, HandlerReturns(d) \/ HandlerPublishes(d) \/ Unwind(d)
      PROVE  OnceInv'
  BY <1>5, OnceReturns, OnceHandlerPublishes, OnceUnwind
<1>6. CASE \/ \E p \in Publisher : PublishRefused(p)
           \/ \E t \in Task : PutWaitsAgain(t)
           \/ \E d \in Dispatcher : Start(d)
           \/ \E s \in Stopper : Stop(s) \/ StopNotRunning(s) \/ StopStep(s)
           \/ UNCHANGED vars
  <2>1. UNCHANGED <<queue, putting, sequence, current, todo, subscribers, subId, calls>>
    BY <1>6 DEF PublishRefused, PutWaitsAgain, Start, Stop, StopNotRunning, StopStep, JoinReturns,
                StopReturns, StopFrame, vars, queueVars, subVars, dispatchVars
  <2> QED
    BY <2>1, OnceAside
<1> QED
  BY <1>1, <1>2, <1>3, <1>4, <1>5, <1>6 DEF Next, PutStep, DispatcherStep

\* No handler is given an event twice, for any number of overlapping dispatchers,
\* cancelled in the middle of an event or of a blocked put() of the handler.
THEOREM HandledOnceCorrect == Spec => []HandledAtMostOnce
<1>1. IInv /\ OnceInv /\ [Next]_vars => OnceInv'
  BY OnceNext
<1>2. OnceInv => HandledAtMostOnce
  BY DEF OnceInv
<1> QED
  BY <1>1, <1>2, OnceInit, Inductive, PTL DEF Spec

-------------------------------------------------------------------------------
(* A bus started once *)

\* Before the start no stop() waits; after it one waits only when not running.
StartedOnceInv ==
  /\ running => dpc[1] \in Alive /\ \A s \in Stopper : spc[s] \in {"ready", "done"}
  /\ dpc[1] = "unborn" => \A s \in Stopper : spc[s] \in {"ready", "done"}

LEMMA StartedOnceNext ==
  ASSUME MaxStarts = 1, IInv, StartedOnceInv, [Next]_vars
  PROVE  StartedOnceInv'
<1>1. Dispatcher = {1}
  BY DEF Dispatcher
<1>2. /\ dpc \in [Dispatcher -> Alive \cup {"unborn", "cancelled", "exited"}]
      /\ spc \in [Stopper -> {"ready", "joining", "joined", "reaping", "done"}]
      /\ dispatcherTask \in {1, NoTask}
  BY <1>1 DEF IInv, TypeOK, DispatchTypeOK, StopTypeOK
<1>3. ASSUME NEW d \in Dispatcher,
             DispatcherStarts(d) \/ GetReturns(d) \/ GetTimesOut(d) \/ EventDone(d)
      PROVE  StartedOnceInv'
  <2>1. d = 1 /\ running' = running
    BY <1>1, <1>3 DEF DispatcherStarts, GetReturns, GetTimesOut, EventDone, LoopFrame
  <2>2. dpc'[1] # "unborn" /\ (running => dpc'[1] \in Alive)
    BY <1>1, <1>2, <1>3, <2>1 DEF DispatcherStarts, GetReturns, GetTimesOut, EventDone,
                                  LoopHead, Take, Alive
  <2>3. \A s \in Stopper : spc'[s] = spc[s] \/ spc[s] = "joining"
    BY <1>2, <1>3 DEF DispatcherStarts, GetReturns, GetTimesOut, EventDone, TaskDone
  <2> QED
    BY <2>1, <2>2, <2>3 DEF StartedOnceInv
<1>4. ASSUME NEW d \in Dispatcher, Unwind(d) PROVE StartedOnceInv'
  <2>1. ~running /\ running' = running /\ dpc'[1] = "exited"
    BY <1>1, <1>2, <1>4 DEF Unwind, StartedOnceInv, Alive
  <2> QED
    BY <2>1 DEF StartedOnceInv
<1>5. ASSUME NEW d \in Dispatcher, Start(d) PROVE StartedOnceInv'
  <2>1. dpc'[1] = "new" /\ spc' = spc /\ dpc[1] = "unborn"
    BY <1>1, <1>2, <1>5 DEF Start, stopVars
  <2> QED
    BY <2>1 DEF StartedOnceInv, Alive
<1>6. ASSUME NEW s \in Stopper, Stop(s) PROVE StartedOnceInv'
  <2>1. ~running' /\ dpc[1] # "unborn" /\ dpc'[1] # "unborn"
    BY <1>1, <1>2, <1>6 DEF Stop, CancelDispatcher, StartedOnceInv, Alive
  <2> QED
    BY <2>1 DEF StartedOnceInv
<1>7. ASSUME NEW s \in Stopper, StopStep(s) PROVE StartedOnceInv'
  <2>1. ~running /\ ~running' /\ dpc[1] # "unborn"
    BY <1>7 DEF StopStep, JoinReturns, StopReturns, StartedOnceInv
  <2>2. dpc'[1] # "unborn"
    BY <1>1, <1>2, <1>7, <2>1 DEF StopStep, JoinReturns, StopReturns, CancelDispatcher
  <2> QED
    BY <2>1, <2>2 DEF StartedOnceInv
<1>8. ASSUME NEW s \in Stopper, StopNotRunning(s) PROVE StartedOnceInv'
  BY <1>2, <1>8 DEF StopNotRunning, StartedOnceInv
<1>9. CASE \/ \E h \in Sub : Subscribe(h) \/ Unsubscribe(h)
           \/ \E p \in Publisher : PublishRefused(p) \/ \E t \in EventType : Publish(p, t)
           \/ \E t \in Task : PutStep(t)
           \/ \E d \in Dispatcher : HandlerReturns(d) \/ HandlerPublishes(d)
           \/ UNCHANGED vars
  <2>1. UNCHANGED <<running, dpc, spc>>
    BY <1>9 DEF Subscribe, Unsubscribe, PublishRefused, Publish, PutStep, PutWaitsAgain, PutCompletes,
                HandlerReturns, HandlerPublishes, vars, stopVars, dispatchVars
  <2> QED
    BY <2>1 DEF StartedOnceInv
<1> QED
  BY <1>3, <1>4, <1>5, <1>6, <1>7, <1>8, <1>9 DEF Next, DispatcherStep

\* A running bus has a dispatcher that will take its events, as long as it is not
\* started again: a stop() in progress cancels whatever dispatcher there is then.
THEOREM RunningCorrect == ASSUME MaxStarts = 1 PROVE Spec => []RunningBusDispatches
<1>1. Init => StartedOnceInv
  BY DEF Init, StartedOnceInv
<1>2. IInv /\ StartedOnceInv /\ [Next]_vars => StartedOnceInv'
  BY StartedOnceNext
<1>3. StartedOnceInv => RunningBusDispatches
  BY DEF StartedOnceInv, RunningBusDispatches, Dispatcher
<1> QED
  BY <1>1, <1>2, <1>3, Inductive, PTL DEF Spec

-------------------------------------------------------------------------------
(* An unbounded bus implements the lanes *)

Below(S, e) == {f \in S : f.seq < e.seq}

\* A finite set whose elements have different numbers, so that there is one for
\* each place.
Ordered(S) ==
  /\ IsFiniteSet(S)
  /\ \A a, b \in S : a.seq \in Nat /\ (a.seq = b.seq => a = b)
  /\ \A i \in 1 .. Cardinality(S) : \E e \in S : Cardinality(Below(S, e)) = i - 1

LEMMA BelowFinite ==
  ASSUME NEW S, IsFiniteSet(S), NEW e
  PROVE  IsFiniteSet(Below(S, e)) /\ Cardinality(Below(S, e)) \in Nat
  BY FS_Subset, FS_CardinalityType DEF Below

LEMMA BelowGrows ==
  ASSUME NEW S, Ordered(S), NEW a \in S, NEW b \in S, a.seq < b.seq
  PROVE  Cardinality(Below(S, a)) < Cardinality(Below(S, b))
<1>1. /\ IsFiniteSet(Below(S, a)) /\ Cardinality(Below(S, a)) \in Nat
      /\ IsFiniteSet(Below(S, b)) /\ Cardinality(Below(S, b)) \in Nat
  BY BelowFinite DEF Ordered
<1>2. a.seq \in Nat /\ b.seq \in Nat /\ \A f \in S : f.seq \in Nat
  BY DEF Ordered
<1>3. a \notin Below(S, a) /\ Below(S, a) \cup {a} \subseteq Below(S, b)
  BY <1>2 DEF Below
<1>4. Cardinality(Below(S, a) \cup {a}) = Cardinality(Below(S, a)) + 1
  BY <1>1, <1>3, FS_AddElement
<1>5. Cardinality(Below(S, a) \cup {a}) <= Cardinality(Below(S, b))
  BY <1>1, <1>3, FS_Subset
<1> QED
  BY <1>1, <1>4, <1>5

\* The i-th element is the one with i - 1 below it.
LEMMA NthIs ==
  ASSUME NEW S, Ordered(S), NEW i, NEW e \in S, Cardinality(Below(S, e)) = i - 1
  PROVE  Nth(S, i) = e
<1>1. \A f \in S : Cardinality(Below(S, f)) = i - 1 => f = e
  <2> SUFFICES ASSUME NEW f \in S, Cardinality(Below(S, f)) = i - 1, f # e PROVE FALSE
    OBVIOUS
  <2>1. f.seq \in Nat /\ e.seq \in Nat /\ f.seq # e.seq
    BY DEF Ordered
  <2>2. Cardinality(Below(S, f)) \in Nat /\ Cardinality(Below(S, e)) \in Nat
    BY BelowFinite DEF Ordered
  <2>3. f.seq < e.seq \/ e.seq < f.seq
    BY <2>1
  <2> QED
    BY <2>2, <2>3, BelowGrows
<1>2. Nth(S, i) = CHOOSE f \in S : Cardinality(Below(S, f)) = i - 1
  BY DEF Nth, Below
<1> QED
  BY <1>1, <1>2

\* A new element with the largest number comes last.
LEMMA AddLast ==
  ASSUME NEW S, Ordered(S), NEW x, x.seq \in Nat, \A f \in S : f.seq < x.seq,
         NEW U, U = S \cup {x}
  PROVE  /\ Ordered(U)
         /\ Cardinality(U) = Cardinality(S) + 1 /\ Cardinality(S) \in Nat
         /\ \A i \in 1 .. Cardinality(S) : Nth(U, i) = Nth(S, i)
         /\ Nth(U, Cardinality(S) + 1) = x
<1>1. \A f \in S : f.seq \in Nat /\ f # x /\ ~(x.seq < f.seq)
  BY DEF Ordered
<1>2. IsFiniteSet(S) /\ Cardinality(S) \in Nat /\ IsFiniteSet(U) /\ Cardinality(U) = Cardinality(S) + 1
  BY <1>1, FS_AddElement, FS_CardinalityType DEF Ordered
<1>3. \A e \in S : Below(U, e) = Below(S, e)
  BY <1>1 DEF Below
<1>4. Below(U, x) = S
  BY <1>1 DEF Below
<1>5. \A i \in 1 .. Cardinality(S) : \E e \in S : Cardinality(Below(S, e)) = i - 1
  BY DEF Ordered
<1>6. Ordered(U)
  <2>1. \A a, b \in U : a.seq \in Nat /\ (a.seq = b.seq => a = b)
    BY <1>1 DEF Ordered
  <2>2. ASSUME NEW i \in 1 .. Cardinality(U)
        PROVE  \E e \in U : Cardinality(Below(U, e)) = i - 1
    <3>1. CASE i = Cardinality(S) + 1
      BY <1>2, <1>4, <3>1
    <3>2. CASE i # Cardinality(S) + 1
      <4>1. i \in 1 .. Cardinality(S)
        BY <1>2, <2>2, <3>2
      <4>2. PICK e \in S : Cardinality(Below(S, e)) = i - 1
        BY <1>5, <4>1
      <4>3. e \in U /\ Cardinality(Below(U, e)) = i - 1
        BY <1>3, <4>2
      <4> QED
        BY <4>3
    <3> QED
      BY <3>1, <3>2
  <2> QED
    BY <1>2, <2>1, <2>2 DEF Ordered
<1>7. ASSUME NEW i \in 1 .. Cardinality(S) PROVE Nth(U, i) = Nth(S, i)
  <2>1. PICK e \in S : Cardinality(Below(S, e)) = i - 1
    BY <1>5
  <2>2. Nth(S, i) = e
    BY <2>1, NthIs
  <2>3. e \in U /\ Cardinality(Below(U, e)) = i - 1
    BY <1>3, <2>1
  <2>4. Nth(U, i) = e
    BY <1>6, <2>3, NthIs
  <2> QED
    BY <2>2, <2>4
<1>8. Nth(U, Cardinality(S) + 1) = x
  <2>1. x \in U /\ Cardinality(Below(U, x)) = (Cardinality(S) + 1) - 1
    BY <1>2, <1>4
  <2> QED
    BY <1>6, <2>1, NthIs
<1> QED
  BY <1>2, <1>6, <1>7, <1>8

\* The element with the smallest number is the first, and the others move up.
LEMMA TakeLeast ==
  ASSUME NEW S, Ordered(S), NEW x \in S, \A f \in S \ {x} : x.seq < f.seq
  PROVE  /\ Ordered(S \ {x})
         /\ Cardinality(S \ {x}) = Cardinality(S) - 1 /\ Cardinality(S) \in Nat \ {0}
         /\ Nth(S, 1) = x
         /\ \A i \in 1 .. Cardinality(S) - 1 : Nth(S \ {x}, i) = Nth(S, i + 1)
<1> DEFINE U == S \ {x}
<1>1. \A f \in S : f.seq \in Nat /\ x.seq \in Nat /\ ~(f.seq < x.seq)
  BY DEF Ordered
<1>2. /\ IsFiniteSet(S) /\ Cardinality(S) \in Nat
      /\ IsFiniteSet(U) /\ Cardinality(U) = Cardinality(S) - 1 /\ Cardinality(U) \in Nat
  BY FS_RemoveElement, FS_CardinalityType DEF Ordered
<1>3. Nth(S, 1) = x
  <2>1. Below(S, x) = {}
    BY <1>1 DEF Below
  <2>2. Cardinality(Below(S, x)) = 1 - 1
    BY <2>1, FS_EmptySet
  <2> QED
    BY <2>2, NthIs
<1>4. ASSUME NEW e \in U
      PROVE  Cardinality(Below(S, e)) = Cardinality(Below(U, e)) + 1
  <2>1. Below(S, e) = Below(U, e) \cup {x} /\ x \notin Below(U, e)
    BY <1>4 DEF Below
  <2>2. IsFiniteSet(Below(U, e))
    BY <1>2, BelowFinite
  <2> QED
    BY <2>1, <2>2, FS_AddElement
<1>5. ASSUME NEW i \in 1 .. Cardinality(U)
      PROVE  \E e \in U : Cardinality(Below(U, e)) = i - 1 /\ Nth(S, i + 1) = e
  <2>1. i + 1 \in 1 .. Cardinality(S)
    BY <1>2, <1>5
  <2>2. PICK e \in S : Cardinality(Below(S, e)) = (i + 1) - 1
    BY <2>1 DEF Ordered
  <2>3. Nth(S, i + 1) = e
    BY <2>2, NthIs
  <2>4. e # x
    <3>1. Below(S, x) = {}
      BY <1>1 DEF Below
    <3> QED
      BY <1>5, <2>2, <3>1, FS_EmptySet
  <2>5. Cardinality(Below(U, e)) \in Nat
    BY <1>2, BelowFinite
  <2>6. Cardinality(Below(U, e)) = i - 1
    BY <1>4, <1>5, <2>2, <2>4, <2>5
  <2> QED
    BY <2>3, <2>4, <2>6
<1>6. Ordered(U)
  BY <1>2, <1>5 DEF Ordered
<1>7. ASSUME NEW i \in 1 .. Cardinality(U) PROVE Nth(U, i) = Nth(S, i + 1)
  BY <1>5, <1>6, NthIs
<1>8. Cardinality(U) = Cardinality(S) - 1 /\ Cardinality(S) \in Nat \ {0}
  BY <1>2
<1>9. \A i \in 1 .. Cardinality(S) - 1 : Nth(U, i) = Nth(S, i + 1)
  BY <1>7, <1>8
<1> QED
  BY <1>3, <1>6, <1>8, <1>9, Zenon

\* The types of a set of entries in the order of their numbers.
Flow(S) == [i \in 1 .. Cardinality(S) |-> Nth(S, i).type]

LEMMA NthMember ==
  ASSUME NEW S, Ordered(S), NEW i \in 1 .. Cardinality(S)
  PROVE  Nth(S, i) \in S
<1>1. PICK e \in S : Cardinality(Below(S, e)) = i - 1
  BY DEF Ordered
<1> QED
  BY <1>1, NthIs

LEMMA FlowType ==
  ASSUME NEW S, Ordered(S), \A e \in S : e.type \in EventType
  PROVE  /\ Flow(S) \in Seq(EventType) /\ Len(Flow(S)) = Cardinality(S)
         /\ Cardinality(S) \in Nat
         /\ \A i \in 1 .. Cardinality(S) : Flow(S)[i] = Nth(S, i).type
         /\ Flow(S) = <<>> <=> S = {}
<1>1. IsFiniteSet(S) /\ Cardinality(S) \in Nat
  BY FS_CardinalityType DEF Ordered
<1>2. \A i \in 1 .. Cardinality(S) : Nth(S, i).type \in EventType
  BY NthMember
<1>3. /\ Flow(S) \in Seq(EventType) /\ Len(Flow(S)) = Cardinality(S)
      /\ \A i \in 1 .. Cardinality(S) : Flow(S)[i] = Nth(S, i).type
  BY <1>1, <1>2 DEF Flow
<1>4. Cardinality(S) = 0 <=> S = {}
  BY <1>1, FS_EmptySet
<1>5. Len(Flow(S)) = 0 <=> Flow(S) = <<>>
  BY <1>3, EmptySeq
<1> QED
  BY <1>1, <1>3, <1>4, <1>5

LEMMA FlowAdd ==
  ASSUME NEW S, Ordered(S), \A e \in S : e.type \in EventType,
         NEW x, x \notin S, x.seq \in Nat, x.type \in EventType,
         \A f \in S : f.seq < x.seq
  PROVE  Ordered(S \cup {x}) /\ Flow(S \cup {x}) = Append(Flow(S), x.type)
<1> DEFINE A == Append(Flow(S), x.type)
<1>u. PICK U : U = S \cup {x}
  OBVIOUS
<1>1. /\ Ordered(U) /\ Cardinality(U) = Cardinality(S) + 1
      /\ \A i \in 1 .. Cardinality(S) : Nth(U, i) = Nth(S, i)
      /\ Nth(U, Cardinality(S) + 1) = x
  BY <1>u, AddLast
<1>2. /\ Flow(S) \in Seq(EventType) /\ Len(Flow(S)) = Cardinality(S)
      /\ Cardinality(S) \in Nat
      /\ \A i \in 1 .. Cardinality(S) : Flow(S)[i] = Nth(S, i).type
  BY FlowType
<1>3. \A e \in U : e.type \in EventType
  BY <1>u
<1>4. /\ Flow(U) \in Seq(EventType) /\ Len(Flow(U)) = Cardinality(S) + 1
      /\ \A i \in 1 .. Cardinality(S) + 1 : Flow(U)[i] = Nth(U, i).type
  BY <1>1, <1>3, FlowType
<1>5. /\ A \in Seq(EventType) /\ Len(A) = Cardinality(S) + 1
      /\ \A i \in 1 .. Cardinality(S) : A[i] = Flow(S)[i]
      /\ A[Cardinality(S) + 1] = x.type
  BY <1>2, AppendProperties
<1> HIDE DEF A
<1>6. ASSUME NEW i \in 1 .. Cardinality(S) + 1 PROVE Flow(U)[i] = A[i]
  <2>1. CASE i = Cardinality(S) + 1
    BY <1>1, <1>4, <1>5, <2>1
  <2>2. CASE i # Cardinality(S) + 1
    <3>1. i \in 1 .. Cardinality(S)
      BY <1>2, <2>2
    <3> QED
      BY <1>1, <1>2, <1>4, <1>5, <3>1
  <2> QED
    BY <2>1, <2>2
<1>7. Flow(U) = A
  BY <1>4, <1>5, <1>6, SeqEqual
<1> QED
  BY <1>u, <1>1, <1>7 DEF A

LEMMA FlowTake ==
  ASSUME NEW S, Ordered(S), \A e \in S : e.type \in EventType,
         NEW x \in S, \A f \in S \ {x} : x.seq < f.seq
  PROVE  /\ Ordered(S \ {x}) /\ Flow(S) # <<>>
         /\ Head(Flow(S)) = x.type /\ Flow(S \ {x}) = Tail(Flow(S))
<1> DEFINE U == S \ {x}
           T == Tail(Flow(S))
<1>1. /\ Ordered(U)
      /\ Cardinality(U) = Cardinality(S) - 1 /\ Cardinality(S) \in Nat \ {0}
      /\ Nth(S, 1) = x
      /\ \A i \in 1 .. Cardinality(S) - 1 : Nth(U, i) = Nth(S, i + 1)
  BY TakeLeast
<1>2. /\ Flow(S) \in Seq(EventType) /\ Len(Flow(S)) = Cardinality(S)
      /\ \A i \in 1 .. Cardinality(S) : Flow(S)[i] = Nth(S, i).type
  BY FlowType
<1>3. \A e \in U : e.type \in EventType
  OBVIOUS
<1> HIDE DEF U
<1>4. /\ Flow(U) \in Seq(EventType) /\ Len(Flow(U)) = Cardinality(S) - 1
      /\ \A i \in 1 .. Cardinality(S) - 1 : Flow(U)[i] = Nth(U, i).type
  BY <1>1, <1>3, FlowType
<1>5. Flow(S) # <<>>
  BY <1>1, <1>2, EmptySeq
<1>6. Head(Flow(S)) = x.type
  BY <1>1, <1>2, <1>5, HeadTailProperties
<1>7. /\ T \in Seq(EventType) /\ Len(T) = Cardinality(S) - 1
      /\ \A i \in 1 .. Cardinality(S) - 1 : T[i] = Flow(S)[i + 1]
  BY <1>1, <1>2, <1>5, HeadTailProperties
<1> HIDE DEF T
<1>8. ASSUME NEW i \in 1 .. Cardinality(S) - 1 PROVE Flow(U)[i] = T[i]
  <2>1. i + 1 \in 1 .. Cardinality(S)
    BY <1>1
  <2> QED
    BY <1>1, <1>2, <1>4, <1>7, <2>1
<1>9. Flow(U) = T
  BY <1>1, <1>4, <1>7, <1>8, SeqEqual
<1> QED
  BY <1>1, <1>5, <1>6, <1>9 DEF T, U

\* The entries of a priority.
Level(p) == {e \in queue : e.pri = p}

\* On an unbounded queue put() never waits, so the entries of a level are in it
\* in the order of their numbers.
LaneInv == /\ \A p \in Priority : Ordered(Level(p))
           /\ \A t \in Task : putting[t] = NoEntry

LEMMA LaneIs ==
  ASSUME NEW p
  PROVE  Lane(p) = Flow(Level(p))
  BY DEF Lane, Level, Flow

LEMMA LevelTypes ==
  ASSUME TypeOK
  PROVE  /\ queue \subseteq Entry
         /\ \A e \in queue : e.seq \in Nat /\ e.pri \in Int /\ e.type \in EventType
         /\ \A p : \A e \in Level(p) : e.type \in EventType
<1>1. queue \subseteq Entry
  BY DEF TypeOK, QueueTypeOK
<1>2. \A e \in queue : e.seq \in Nat /\ e.pri \in Int /\ e.type \in EventType
  BY <1>1 DEF Entry, Priority, CRITICAL, HIGH, NORMAL, LOW
<1> QED
  BY <1>1, <1>2 DEF Level

\* The mapped variables.
lanes == [p \in Priority |-> Lane(p)]
delivered == [i \in DOMAIN log |-> log[i].type]

\* Steps outside the queue keep the lanes.
LEMMA LanesAside ==
  ASSUME queue' = queue, log' = log
  PROVE  lanes' = lanes /\ delivered' = delivered
  BY DEF lanes, delivered, Lane

\* The types of a log that grew by an entry.
LEMMA TypesAppend ==
  ASSUME NEW s \in Seq(Entry), NEW x \in Entry
  PROVE  [i \in DOMAIN Append(s, x) |-> Append(s, x)[i].type]
           = Append([i \in DOMAIN s |-> s[i].type], x.type)
<1> DEFINE n == Len(s)
           f == [i \in DOMAIN s |-> s[i].type]
           g == [i \in DOMAIN Append(s, x) |-> Append(s, x)[i].type]
           A == Append(f, x.type)
<1>1. /\ n \in Nat /\ DOMAIN s = 1 .. n /\ DOMAIN Append(s, x) = 1 .. n + 1
      /\ \A i \in 1 .. n : Append(s, x)[i] = s[i]
      /\ Append(s, x)[n + 1] = x
  BY AppendProperties, LenProperties
<1>2. x.type \in EventType
  BY DEF Entry
<1>3. ASSUME NEW i \in 1 .. n PROVE s[i].type \in EventType
  <2>1. s[i] \in Entry
    BY <1>3, ElementOfSeq
  <2> QED
    BY <2>1 DEF Entry
<1>4. f = [i \in 1 .. n |-> s[i].type]
  BY <1>1
<1>5. g = [i \in 1 .. n + 1 |-> Append(s, x)[i].type]
  BY <1>1
<1> HIDE DEF f, g
<1>6. f \in Seq(EventType) /\ Len(f) = n
  BY <1>1, <1>3, <1>4
<1>7. ASSUME NEW i \in 1 .. n + 1
      PROVE  g[i] = IF i = n + 1 THEN x.type ELSE s[i].type
  <2>1. CASE i = n + 1
    BY <1>1, <1>5, <2>1
  <2>2. CASE i # n + 1
    <3>1. i \in 1 .. n
      BY <1>1, <2>2
    <3> QED
      BY <1>1, <1>5, <2>2, <3>1
  <2> QED
    BY <2>1, <2>2
<1>8. \A i \in 1 .. n + 1 : g[i] \in EventType
  <2>1. \A i \in 1 .. n + 1 : i # n + 1 => i \in 1 .. n
    BY <1>1
  <2> QED
    BY <1>2, <1>3, <1>7, <2>1
<1>9. g \in Seq(EventType) /\ Len(g) = n + 1
  <2>1. g = [i \in 1 .. n + 1 |-> g[i]]
    BY <1>5
  <2> QED
    BY <1>1, <1>8, <2>1
<1>10. /\ A \in Seq(EventType) /\ Len(A) = n + 1
       /\ \A i \in 1 .. n : A[i] = f[i]
       /\ A[n + 1] = x.type
  BY <1>2, <1>6, AppendProperties
<1> HIDE DEF A
<1>11. ASSUME NEW i \in 1 .. n + 1 PROVE g[i] = A[i]
  <2>1. CASE i = n + 1
    BY <1>7, <1>10, <2>1
  <2>2. CASE i # n + 1
    <3>1. i \in 1 .. n
      BY <1>1, <2>2
    <3> QED
      BY <1>4, <1>7, <1>10, <2>2, <3>1
  <2> QED
    BY <2>1, <2>2
<1>12. g = A
  BY <1>9, <1>10, <1>11, SeqEqual
<1> QED
  BY <1>12 DEF A, f, g

\* publish() on a bus whose queue is never full appends to a lane.
LEMMA PutAppends ==
  ASSUME MaxQueueSize = 0, IInv, OnceInv, LaneInv, NEW t \in Task, NEW type \in EventType,
         BeginPut(t, type), log' = log
  PROVE  LaneInv' /\ \E p \in Priority : Lanes!Accept(p, type)
<1>1. PICK x \in Entry : /\ x.pri \in Priority
                         /\ x.seq = sequence + 1 /\ x.seq \in Nat /\ x.type = type
                         /\ queue' = queue \cup {x} /\ putting' = putting
  <2> DEFINE x == [pri |-> ResolvePriority(type), seq |-> sequence + 1, type |-> type]
  <2>1. x \in Entry /\ x.pri \in Priority /\ x.seq = sequence + 1 /\ x.seq \in Nat /\ x.type = type
    BY PriorityType DEF IInv, TypeOK, QueueTypeOK, Entry
  <2>2. queue' = queue \cup {x} /\ putting' = putting
    BY DEF BeginPut, PutNow, Full
  <2> QED
    BY <2>1, <2>2
<1>2. PICK p \in Priority : p = x.pri
  BY <1>1
<1>3. PICK S : S = Level(p)
  OBVIOUS
<1>4. /\ Level(p)' = S \cup {x}
      /\ \A q \in Priority : q # p => Level(q)' = Level(q)
  BY <1>1, <1>2, <1>3 DEF Level
<1>5. \A f \in queue : f.seq <= sequence
  BY OutstandingMembers, OutstandingType DEF IInv, SeqInv
<1>6. \A f \in S : f.seq < x.seq
  <2>1. sequence \in Nat /\ \A f \in queue : f.seq \in Nat
    BY LevelTypes DEF IInv, TypeOK, QueueTypeOK
  <2> QED
    BY <1>1, <1>3, <1>5, <2>1 DEF Level
<1>7. Ordered(S) /\ \A e \in S : e.type \in EventType
  BY <1>3, LevelTypes DEF LaneInv, IInv
<1>8. x \notin S
  BY <1>1, <1>6
<1>9. Ordered(S \cup {x}) /\ Flow(S \cup {x}) = Append(Flow(S), type)
  BY <1>1, <1>6, <1>7, <1>8, FlowAdd
<1>10. LaneInv'
  <2>1. \A q \in Priority : Ordered(Level(q)')
    BY <1>4, <1>9 DEF LaneInv
  <2> QED
    BY <1>1, <2>1 DEF LaneInv
<1>11. Lane(p)' = Append(Lane(p), type)
  <2>1. Lane(p) = Flow(S)
    BY <1>3, LaneIs
  <2>2. Lane(p)' = Flow(Level(p)')
    BY DEF Lane, Level, Flow
  <2> QED
    BY <1>4, <1>9, <2>1, <2>2
<1>12. \A q \in Priority : q # p => Lane(q)' = Lane(q)
  BY <1>4 DEF Lane, Level
<1>13. lanes' = [lanes EXCEPT ![p] = Append(@, type)]
  BY <1>11, <1>12 DEF lanes
<1>14. delivered' = delivered
  BY DEF delivered
<1> QED
  BY <1>10, <1>13, <1>14 DEF Lanes!Accept, lanes, delivered

\* The dispatcher takes the first entry of the most urgent lane that has any.
LEMMA TakeDelivers ==
  ASSUME IInv, LaneInv, NEW d \in Dispatcher, Take(d), putting' = putting
  PROVE  LaneInv' /\ \E p \in Priority : Lanes!Deliver(p)
<1>1. PICK x \in queue : /\ \A f \in queue \ {x} : Precedes(x, f)
                         /\ queue' = queue \ {x}
                         /\ log' = Append(log, x)
  BY DEF Take
<1>2. TypeOK
  BY DEF IInv
<1>3. x \in Entry /\ x.type \in EventType /\ log \in Seq(Entry)
  BY <1>1, <1>2, LevelTypes DEF TypeOK, DispatchTypeOK
<1>4. PICK p \in Priority : p = x.pri
  BY <1>3 DEF Entry
<1>5. PICK S : S = Level(p)
  OBVIOUS
<1>6. /\ Level(p)' = S \ {x} /\ x \in S
      /\ \A q \in Priority : q # p => Level(q)' = Level(q)
  BY <1>1, <1>4, <1>5 DEF Level
<1>7. \A f \in S \ {x} : x.seq < f.seq
  BY <1>1, <1>2, <1>4, <1>5, LevelTypes DEF Level, Precedes
<1>8. \A q \in Priority : q < p => Level(q) = {}
  BY <1>1, <1>2, <1>4, LevelTypes DEF Level, Precedes
<1>9. Ordered(S) /\ \A e \in S : e.type \in EventType
  BY <1>2, <1>5, LevelTypes DEF LaneInv
<1>10. /\ Ordered(S \ {x}) /\ Flow(S) # <<>>
       /\ Head(Flow(S)) = x.type /\ Flow(S \ {x}) = Tail(Flow(S))
  BY <1>6, <1>7, <1>9, FlowTake
<1>11. LaneInv'
  <2>1. \A q \in Priority : Ordered(Level(q)')
    BY <1>6, <1>10 DEF LaneInv
  <2> QED
    BY <2>1 DEF LaneInv
<1>12. Lane(p) # <<>> /\ Head(Lane(p)) = x.type /\ Lane(p)' = Tail(Lane(p))
  <2>1. Lane(p) = Flow(S)
    BY <1>5, LaneIs
  <2>2. Lane(p)' = Flow(Level(p)')
    BY DEF Lane, Level, Flow
  <2> QED
    BY <1>6, <1>10, <2>1, <2>2
<1>13. \A q \in Priority : q # p => Lane(q)' = Lane(q)
  BY <1>6 DEF Lane, Level
<1>14. lanes' = [lanes EXCEPT ![p] = Tail(@)]
  BY <1>12, <1>13 DEF lanes
<1>15. \A q \in Priority : q < p => lanes[q] = <<>>
  <2>1. \A q \in Priority : Ordered(Level(q)) /\ \A e \in Level(q) : e.type \in EventType
    BY <1>2, LevelTypes DEF LaneInv
  <2>2. \A q \in Priority : Flow(Level(q)) = <<>> <=> Level(q) = {}
    BY <2>1, FlowType
  <2> QED
    BY <1>8, <2>2, LaneIs DEF lanes
<1>16. delivered' = Append(delivered, Head(lanes[p]))
  <2>1. PICK past : past = log
    OBVIOUS
  <2>2. PICK longer : longer = log'
    OBVIOUS
  <2>3. past \in Seq(Entry) /\ longer = Append(past, x)
    BY <1>1, <1>3, <2>1, <2>2
  <2>4. [i \in DOMAIN longer |-> longer[i].type]
          = Append([i \in DOMAIN past |-> past[i].type], x.type)
    BY <1>3, <2>3, TypesAppend
  <2> QED
    BY <1>12, <2>1, <2>2, <2>4 DEF lanes, delivered
<1> QED
  BY <1>11, <1>12, <1>14, <1>15, <1>16 DEF Lanes!Deliver, lanes, delivered

LEMMA LaneLoops ==
  ASSUME IInv, LaneInv, NEW d \in Dispatcher, LoopHead(d), putting' = putting
  PROVE  LaneInv' /\ ((\E p \in Priority : Lanes!Deliver(p)) \/ UNCHANGED <<lanes, delivered>>)
<1>1. CASE Take(d)
  BY <1>1, TakeDelivers
<1>2. CASE queue' = queue /\ log' = log
  <2>1. LaneInv'
    BY <1>2 DEF LaneInv, Level
  <2> QED
    BY <1>2, <2>1, LanesAside
<1> QED
  BY <1>1, <1>2 DEF LoopHead

LEMMA LaneInit == Init => LaneInv /\ Lanes!Init
<1> SUFFICES ASSUME Init PROVE LaneInv /\ Lanes!Init
  OBVIOUS
<1>1. queue = {} /\ log = <<>> /\ \A t \in Task : putting[t] = NoEntry
  BY DEF Init
<1>2. \A p : Level(p) = {}
  BY <1>1 DEF Level
<1>3. Cardinality({}) = 0 /\ IsFiniteSet({})
  BY FS_EmptySet
<1>4. Ordered({})
  BY <1>3 DEF Ordered
<1>5. Flow({}) = <<>>
  BY <1>4, FlowType
<1>6. \A p : Lane(p) = <<>>
  BY <1>2, <1>5, LaneIs
<1>7. [i \in DOMAIN log |-> log[i].type] = <<>>
  BY <1>1
<1> QED
  BY <1>1, <1>2, <1>4, <1>6, <1>7 DEF LaneInv, Lanes!Init

\* Every step of the bus is a step of the lanes, or leaves them alone.
LEMMA LaneNext ==
  ASSUME MaxQueueSize = 0, IInv, OnceInv, LaneInv, [Next]_vars
  PROVE  LaneInv' /\ [Lanes!Next]_<<lanes, delivered>>
<1>1. CASE \E p \in Publisher, type \in EventType : Publish(p, type)
  <2>1. PICK p \in Publisher, type \in EventType : Publish(p, type)
    BY <1>1
  <2>2. p \in Task /\ BeginPut(p, type) /\ log' = log
    BY <2>1 DEF Publish, Task, dispatchVars
  <2> QED
    BY <2>2, PutAppends DEF Lanes!Next
<1>2. CASE \E d \in Dispatcher : HandlerPublishes(d)
  <2>1. PICK d \in Dispatcher : HandlerPublishes(d)
    BY <1>2
  <2>2. PICK h \in NextHandler(d) : Reaction[h] # NoEvent /\ BeginPut(d, Reaction[h])
    BY <2>1 DEF HandlerPublishes
  <2>3. h \in Sub
    BY DEF NextHandler, IInv, TypeOK, DispatchTypeOK
  <2>4. Reaction[h] \in EventType /\ d \in Task /\ log' = log
    BY <2>1, <2>2, <2>3, TypesAssumption DEF HandlerPublishes, Task
  <2> QED
    BY <2>2, <2>4, PutAppends DEF Lanes!Next
<1>3. CASE \E d \in Dispatcher : DispatcherStarts(d) \/ GetReturns(d) \/ GetTimesOut(d) \/ EventDone(d)
  <2>1. PICK d \in Dispatcher : putting' = putting /\ (LoopHead(d) \/ Take(d))
    BY <1>3 DEF DispatcherStarts, GetReturns, GetTimesOut, EventDone, LoopFrame
  <2> QED
    BY <2>1, LaneLoops, TakeDelivers DEF Lanes!Next
<1>4. CASE \E t \in Task : PutStep(t)
  <2>1. woken = {}
    BY DEF IInv, WaitInv, LaneInv, TypeOK, QueueTypeOK
  <2> QED
    BY <1>4, <2>1 DEF PutStep, PutWaitsAgain, PutCompletes, MayRetry
<1>5. CASE \E d \in Dispatcher : Unwind(d)
  <2>1. PICK d \in Dispatcher : Unwind(d)
    BY <1>5
  <2>2. /\ queue' = queue /\ log' = log
        /\ \A t \in Task : putting'[t] = NoEntry
    BY <2>1 DEF Unwind, LaneInv, IInv, TypeOK, QueueTypeOK
  <2>3. LaneInv'
    BY <2>2 DEF LaneInv, Level
  <2> QED
    BY <2>2, <2>3, LanesAside
<1>6. CASE UNCHANGED <<queueVars, log>>
  <2>1. queue' = queue /\ log' = log /\ putting' = putting
    BY <1>6 DEF queueVars
  <2>2. LaneInv'
    BY <2>1 DEF LaneInv, Level
  <2> QED
    BY <2>1, <2>2, LanesAside
<1>7. CASE \/ \E h \in Sub : Subscribe(h) \/ Unsubscribe(h)
           \/ \E p \in Publisher : PublishRefused(p)
           \/ \E d \in Dispatcher : HandlerReturns(d) \/ Start(d)
           \/ \E s \in Stopper : Stop(s) \/ StopNotRunning(s) \/ StopStep(s)
           \/ UNCHANGED vars
  <2>1. UNCHANGED <<queueVars, log>>
    BY <1>7 DEF Subscribe, Unsubscribe, PublishRefused, HandlerReturns, Start, Stop, StopNotRunning,
                StopStep, JoinReturns, StopReturns, StopFrame, vars, dispatchVars
  <2> QED
    BY <1>6, <2>1
<1> QED
  BY <1>1, <1>2, <1>3, <1>4, <1>5, <1>7 DEF Next, DispatcherStep

\* A bus whose queue is unbounded, which is the default, implements the lanes.
\* With a bound it need not: a put() that waited keeps the number it drew first,
\* so it goes ahead of entries of its priority that were queued while it waited.
THEOREM LanesCorrect == ASSUME MaxQueueSize = 0 PROVE Spec => ImplementsLanes
<1>1. Init => LaneInv /\ Lanes!Init
  BY LaneInit
<1>2. IInv /\ OnceInv /\ LaneInv /\ [Next]_vars => LaneInv' /\ [Lanes!Next]_<<lanes, delivered>>
  BY LaneNext
<1>3. IInv /\ OnceInv /\ LaneInv /\ [Next]_vars
        => [Lanes!Next]_<<[p \in Priority |-> Lane(p)], [i \in DOMAIN log |-> log[i].type]>>
  BY <1>2 DEF lanes, delivered
<1>4. Spec => []OnceInv
  <2>1. Init => OnceInv
    BY OnceInit
  <2>2. IInv /\ OnceInv /\ [Next]_vars => OnceInv'
    BY OnceNext
  <2> QED
    BY <2>1, <2>2, Inductive, PTL DEF Spec
<1> QED
  BY <1>1, <1>2, <1>3, <1>4, Inductive, PTL DEF Spec, ImplementsLanes, Lanes!Spec

-------------------------------------------------------------------------------
(* The simulated clock *)

\* Timers are numbered as they are scheduled.
Numbered ==
  /\ \A p \in pending : p.id <= scheduled
  /\ \A p, q \in pending : p.id = q.id => p = q
  /\ \A i \in DOMAIN fired : fired[i].id <= scheduled

\* Until the clock is moved back, what was fired lies behind it, and before
\* everything that is pending.
FiredIsPast ==
  turnedBack \/ \A i \in DOMAIN fired :
                  /\ fired[i].at <= now
                  /\ \A p \in pending : Before(fired[i], p)

ClockIInv == ClockTypeOK /\ NothingOverdue /\ Numbered /\ FiredOnce /\ FiredIsPast /\ FiresInOrder

-------------------------------------------------------------------------------
LEMMA FramesType ==
  ASSUME ClockTypeOK, NEW t \in Caller, frames[t] # <<>>
  PROVE  Front(frames[t]) \in Seq(Nat) /\ Last(frames[t]) \in Nat
<1>1. frames[t] \in Seq(Nat) BY DEF ClockTypeOK
<1>2. Len(frames[t]) \in Nat /\ Len(frames[t]) > 0 BY <1>1
<1>3. Last(frames[t]) \in Nat BY <1>1, <1>2 DEF Last
<1>4. Front(frames[t]) \in Seq(Nat) BY <1>1, <1>2 DEF Front
<1> QED BY <1>3, <1>4

LEMMA FiredType ==
  ASSUME ClockTypeOK, NEW i \in DOMAIN fired
  PROVE  fired[i] \in Timer /\ fired[i].at \in Nat /\ fired[i].id \in Nat
<1>1. fired \in Seq(Timer) BY DEF ClockTypeOK
<1>2. fired[i] \in Timer BY <1>1
<1> QED BY <1>2 DEF Timer

LEMMA ClockInvInit == ClockInit => ClockIInv
<1> SUFFICES ASSUME ClockInit PROVE ClockIInv OBVIOUS
<1>1. pending = {} /\ fired = <<>> /\ DOMAIN fired = {} BY DEF ClockInit
<1>2. ClockTypeOK
  <2>1. turnedBack \in BOOLEAN BY DEF ClockInit
  <2>2. <<>> \in Seq(Nat) /\ <<>> \in Seq(Timer) OBVIOUS
  <2>3. frames \in [Caller -> Seq(Nat)] BY <2>2 DEF ClockInit
  <2> QED BY <2>1, <2>2, <2>3, <1>1 DEF ClockInit, ClockTypeOK
<1>3. NothingOverdue /\ Numbered /\ FiredOnce BY <1>1 DEF NothingOverdue, Numbered, FiredOnce
<1>4. FiredIsPast /\ FiresInOrder BY <1>1 DEF FiredIsPast, FiresInOrder
<1> QED BY <1>2, <1>3, <1>4 DEF ClockIInv

\* A callback is entered: the earliest timer moves from pending to fired.
LEMMA FireKeeps ==
  ASSUME ClockIInv, NEW t \in Caller, NEW outer \in Seq(Nat), NEW target \in Nat,
         Fire(t, outer, target), UNCHANGED scheduled
  PROVE  ClockIInv' /\ (now' >= now)
<1> USE DEF Timer
<1>0. ClockTypeOK BY DEF ClockIInv
<1>1. PICK p \in pending :
        /\ \A q \in pending \ {p} : Before(p, q)
        /\ pending' = pending \ {p}
        /\ SetClock(p.at)
        /\ fired' = Append(fired, p)
        /\ frames' = [frames EXCEPT ![t] = Append(outer, target)]
  BY DEF Fire
<1>2. p \in Timer /\ p.at \in Nat /\ p.id \in Nat BY <1>0 DEF ClockTypeOK
<1>3. now <= p.at /\ now \in Nat BY <1>0 DEF ClockIInv, NothingOverdue, ClockTypeOK
<1>4. now' = p.at BY <1>1 DEF SetClock
<1>5. turnedBack' = turnedBack
  <2>1. ~(p.at < now) BY <1>2, <1>3
  <2>2. turnedBack \in BOOLEAN BY <1>0 DEF ClockTypeOK
  <2> QED BY <1>1, <2>1, <2>2, Zenon DEF SetClock
<1>6. /\ fired' \in Seq(Timer) /\ Len(fired') = Len(fired) + 1 /\ Len(fired) \in Nat
      /\ DOMAIN fired' = 1 .. Len(fired) + 1 /\ DOMAIN fired = 1 .. Len(fired)
      /\ fired'[Len(fired) + 1] = p
      /\ \A i \in DOMAIN fired : fired'[i] = fired[i] /\ fired[i] \in Timer
  <2>1. fired \in Seq(Timer) /\ p \in Timer BY <1>0, <1>2 DEF ClockTypeOK
  <2> HIDE DEF Timer
  <2> QED BY <2>1, <1>1
<1>7. \A q \in pending : q \in Timer /\ q.at \in Nat /\ q.id \in Nat BY <1>0 DEF ClockTypeOK
<1>8. ClockTypeOK'
  <2>1. turnedBack' \in BOOLEAN BY <1>0, <1>5 DEF ClockTypeOK
  <2>2. Append(outer, target) \in Seq(Nat) OBVIOUS
  <2>3. frames' \in [Caller -> Seq(Nat)] BY <1>0, <1>1, <2>2 DEF ClockTypeOK
  <2>4. now' \in Nat /\ scheduled' \in Nat /\ pending' \in SUBSET Timer
    BY <1>0, <1>1, <1>2, <1>4 DEF ClockTypeOK
  <2> QED BY <2>1, <2>3, <2>4, <1>6 DEF ClockTypeOK
<1>9. NothingOverdue'
  <2> SUFFICES ASSUME NEW q \in pending' PROVE p.at <= q.at BY <1>4 DEF NothingOverdue
  <2> QED BY <1>1, <1>2, <1>7 DEF Before
<1>10. Numbered'
  <2>1. scheduled \in Nat BY <1>0 DEF ClockTypeOK
  <2>2. \A q \in pending' : q \in pending BY <1>1
  <2>3. ASSUME NEW i \in DOMAIN fired' PROVE fired'[i].id <= scheduled
    <3>1. CASE i \in DOMAIN fired BY <3>1, <1>6 DEF ClockIInv, Numbered
    <3>2. CASE i = Len(fired) + 1 BY <3>2, <1>6 DEF ClockIInv, Numbered
    <3> QED BY <3>1, <3>2, <1>6
  <2> QED BY <2>2, <2>3 DEF ClockIInv, Numbered
<1>11. FiredOnce'
  <2>1. \A i \in DOMAIN fired : fired[i].id # p.id BY DEF ClockIInv, FiredOnce
  <2>2. ASSUME NEW i \in DOMAIN fired', NEW j \in DOMAIN fired', fired'[i].id = fired'[j].id
        PROVE  i = j
    <3>1. CASE i \in DOMAIN fired /\ j \in DOMAIN fired
      BY <3>1, <2>2, <1>6 DEF ClockIInv, FiredOnce
    <3>2. CASE i \in DOMAIN fired /\ j = Len(fired) + 1 BY <3>2, <2>1, <2>2, <1>6
    <3>3. CASE j \in DOMAIN fired /\ i = Len(fired) + 1 BY <3>3, <2>1, <2>2, <1>6
    <3>4. CASE i = Len(fired) + 1 /\ j = Len(fired) + 1 BY <3>4
    <3> QED BY <3>1, <3>2, <3>3, <3>4, <1>6
  <2>3. ASSUME NEW i \in DOMAIN fired', NEW q \in pending' PROVE fired'[i].id # q.id
    <3>1. q \in pending /\ q # p BY <1>1
    <3>2. CASE i \in DOMAIN fired BY <3>1, <3>2, <1>6 DEF ClockIInv, FiredOnce
    <3>3. CASE i = Len(fired) + 1 BY <3>1, <3>3, <1>6 DEF ClockIInv, Numbered
    <3> QED BY <3>2, <3>3, <1>6
  <2> QED BY <2>2, <2>3 DEF FiredOnce
<1>12. FiredIsPast'
  <2> SUFFICES ASSUME ~turnedBack, NEW i \in DOMAIN fired'
               PROVE  fired'[i].at <= p.at /\ \A q \in pending' : Before(fired'[i], q)
    BY <1>4, <1>5 DEF FiredIsPast, Before
  <2>1. CASE i \in DOMAIN fired
    <3>1. fired'[i] = fired[i] /\ fired[i].at \in Nat BY <2>1, <1>6
    <3>2. fired[i].at <= now /\ \A q \in pending : Before(fired[i], q)
      BY <2>1 DEF ClockIInv, FiredIsPast
    <3> QED BY <3>1, <3>2, <1>1, <1>2, <1>3
  <2>2. CASE i = Len(fired) + 1 BY <2>2, <1>1, <1>2, <1>6
  <2> QED BY <2>1, <2>2, <1>6
<1>13. FiresInOrder'
  <2> SUFFICES ASSUME ~turnedBack, NEW i \in DOMAIN fired', NEW j \in DOMAIN fired', i < j
               PROVE  Before(fired'[i], fired'[j])
    BY <1>5 DEF FiresInOrder, Before
  <2>1. CASE j \in DOMAIN fired
    <3>1. i \in DOMAIN fired BY <2>1, <1>6
    <3>2. fired'[i] = fired[i] /\ fired'[j] = fired[j] BY <2>1, <3>1, <1>6
    <3>3. Before(fired[i], fired[j]) BY <2>1, <3>1 DEF ClockIInv, FiresInOrder
    <3> QED BY <3>2, <3>3 DEF Before
  <2>2. CASE j = Len(fired) + 1
    <3>1. i \in DOMAIN fired BY <2>2, <1>6
    <3>2. fired'[i] = fired[i] /\ fired'[j] = p BY <2>2, <3>1, <1>6
    <3>3. Before(fired[i], p) BY <3>1 DEF ClockIInv, FiredIsPast
    <3> QED BY <3>2, <3>3 DEF Before
  <2> QED BY <2>1, <2>2, <1>6
<1> QED BY <1>2, <1>3, <1>4, <1>8, <1>9, <1>10, <1>11, <1>12, <1>13 DEF ClockIInv

\* An advance_to() ends: the clock shows its target.
LEMMA FinishKeeps ==
  ASSUME ClockIInv, NEW t \in Caller, NEW outer \in Seq(Nat), NEW target \in Nat,
         Finish(t, outer, target), UNCHANGED scheduled
  PROVE  ClockIInv'
<1> USE DEF Timer
<1>0. ClockTypeOK /\ now \in Nat BY DEF ClockIInv, ClockTypeOK
<1>1. now' = target /\ pending' = pending /\ fired' = fired /\ scheduled' = scheduled
  BY DEF Finish, SetClock
<1>2. \A p \in pending : p \in Timer /\ p.at > target BY <1>0 DEF Finish, ClockTypeOK
<1>3. turnedBack' \in BOOLEAN BY <1>0 DEF Finish, SetClock, ClockTypeOK
<1>4. ~turnedBack' => ~turnedBack /\ target >= now
  <2>1. ~turnedBack' => ~turnedBack /\ ~(target < now) BY Zenon DEF Finish, SetClock
  <2> QED BY <2>1, <1>0
<1>5. frames' \in [Caller -> Seq(Nat)] BY <1>0 DEF Finish, ClockTypeOK
<1>6. ClockTypeOK'
  <2>1. now' \in Nat /\ scheduled' \in Nat /\ pending' \in SUBSET Timer
        /\ fired' \in Seq(Timer)
    BY <1>0, <1>1 DEF ClockTypeOK
  <2> QED BY <2>1, <1>3, <1>5 DEF ClockTypeOK
<1>7. NothingOverdue' BY <1>1, <1>2 DEF NothingOverdue
<1>8. Numbered' BY <1>1 DEF ClockIInv, Numbered
<1>9. FiredOnce' BY <1>1 DEF ClockIInv, FiredOnce
<1>10. FiredIsPast'
  <2> SUFFICES ASSUME ~turnedBack', NEW i \in DOMAIN fired
               PROVE  fired[i].at <= target /\ \A p \in pending : Before(fired[i], p)
    BY <1>1 DEF FiredIsPast, Before
  <2>1. fired[i] \in Timer /\ fired[i].at \in Nat BY <1>0, FiredType
  <2>2. fired[i].at <= now /\ \A p \in pending : Before(fired[i], p)
    BY <1>4 DEF ClockIInv, FiredIsPast
  <2> QED BY <2>1, <2>2, <1>0, <1>4
<1>11. FiresInOrder'
  <2> SUFFICES ASSUME ~turnedBack', NEW i \in DOMAIN fired, NEW j \in DOMAIN fired, i < j
               PROVE  Before(fired[i], fired[j])
    BY <1>1 DEF FiresInOrder, Before
  <2> QED BY <1>4 DEF ClockIInv, FiresInOrder
<1> QED BY <1>6, <1>7, <1>8, <1>9, <1>10, <1>11 DEF ClockIInv

LEMMA ScheduleKeeps ==
  ASSUME ClockIInv, NEW delay \in Delay, Schedule(delay)
  PROVE  ClockIInv'
<1> USE DEF Timer
<1> DEFINE new == [at |-> now + delay, id |-> scheduled + 1]
<1>0. ClockTypeOK /\ now \in Nat /\ scheduled \in Nat /\ delay \in Nat
  BY DelayAssumption DEF ClockIInv, ClockTypeOK
<1>1. new \in Timer /\ new.at >= now /\ new.id = scheduled + 1 BY <1>0
<1>2. /\ pending' = pending \cup {new} /\ scheduled' = scheduled + 1 /\ now' = now
      /\ fired' = fired /\ turnedBack' = turnedBack /\ frames' = frames
  BY DEF Schedule
<1>3. \A p \in pending : p \in Timer /\ p.id \in Nat /\ p.id <= scheduled
  BY <1>0 DEF ClockIInv, Numbered, ClockTypeOK
<1>4. \A i \in DOMAIN fired : fired[i] \in Timer /\ fired[i].id <= scheduled
  BY <1>0, FiredType DEF ClockIInv, Numbered
<1> HIDE DEF new
<1>5. ClockTypeOK'
  <2>1. turnedBack' \in BOOLEAN BY <1>0, <1>2 DEF ClockTypeOK
  <2>2. pending' \in SUBSET Timer /\ scheduled' \in Nat BY <1>0, <1>1, <1>2 DEF ClockTypeOK
  <2> QED BY <2>1, <2>2, <1>0, <1>2 DEF ClockTypeOK
<1>6. NothingOverdue' BY <1>0, <1>1, <1>2 DEF ClockIInv, NothingOverdue
<1>7. Numbered'
  <2>1. \A p \in pending' : p.id <= scheduled' BY <1>0, <1>1, <1>2, <1>3
  <2>2. \A p, q \in pending' : p.id = q.id => p = q
    BY <1>0, <1>1, <1>2, <1>3 DEF ClockIInv, Numbered
  <2>3. \A i \in DOMAIN fired' : fired'[i].id <= scheduled' BY <1>0, <1>2, <1>4
  <2> QED BY <2>1, <2>2, <2>3 DEF Numbered
<1>8. FiredOnce'
  <2>1. \A i \in DOMAIN fired : fired[i].id # new.id BY <1>0, <1>1, <1>4
  <2> QED BY <2>1, <1>2 DEF ClockIInv, FiredOnce
<1>9. FiredIsPast'
  <2> SUFFICES ASSUME ~turnedBack, NEW i \in DOMAIN fired, NEW p \in pending'
               PROVE  fired[i].at <= now /\ Before(fired[i], p)
    BY <1>2 DEF ClockIInv, FiredIsPast, Before
  <2>1. fired[i].at <= now BY DEF ClockIInv, FiredIsPast
  <2>2. CASE p \in pending BY <2>1, <2>2 DEF ClockIInv, FiredIsPast
  <2>3. CASE p = new BY <2>1, <2>3, <1>0, <1>1, <1>4 DEF Before
  <2> QED BY <2>1, <2>2, <2>3, <1>2
<1>10. FiresInOrder'
  <2> SUFFICES ASSUME ~turnedBack, NEW i \in DOMAIN fired, NEW j \in DOMAIN fired, i < j
               PROVE  Before(fired[i], fired[j])
    BY <1>2 DEF FiresInOrder, Before
  <2> QED BY DEF ClockIInv, FiresInOrder
<1> QED BY <1>5, <1>6, <1>7, <1>8, <1>9, <1>10 DEF ClockIInv

\* What empties the list or the frames disturbs nothing.
LEMMA DropKeeps ==
  ASSUME ClockIInv, CancelAll \/ (\E t \in Caller : TaskCancelled(t)) \/ UNCHANGED clockVars
  PROVE  ClockIInv'
<1>1. /\ now' = now /\ scheduled' = scheduled /\ fired' = fired
      /\ turnedBack' = turnedBack
  BY DEF CancelAll, TaskCancelled, clockVars
<1>2. pending' \subseteq pending BY DEF CancelAll, TaskCancelled, clockVars
<1>3. frames' \in [Caller -> Seq(Nat)]
  <2>0. frames \in [Caller -> Seq(Nat)] BY DEF ClockIInv, ClockTypeOK
  <2>1. CASE \E t \in Caller : TaskCancelled(t)
    <3>1. PICK t \in Caller : frames' = [frames EXCEPT ![t] = <<>>] BY <2>1 DEF TaskCancelled
    <3>2. <<>> \in Seq(Nat) OBVIOUS
    <3> QED BY <2>0, <3>1, <3>2
  <2>2. CASE CancelAll \/ UNCHANGED clockVars BY <2>0, <2>2 DEF CancelAll, clockVars
  <2> QED BY <2>1, <2>2
<1>4. ClockTypeOK'
  <2>1. turnedBack' \in BOOLEAN BY <1>1 DEF ClockIInv, ClockTypeOK
  <2> QED BY <2>1, <1>1, <1>2, <1>3 DEF ClockIInv, ClockTypeOK
<1>5. NothingOverdue' BY <1>1, <1>2 DEF ClockIInv, NothingOverdue
<1>6. Numbered' BY <1>1, <1>2 DEF ClockIInv, Numbered
<1>7. FiredOnce' BY <1>1, <1>2 DEF ClockIInv, FiredOnce
<1>8. FiredIsPast'
  <2> SUFFICES ASSUME ~turnedBack, NEW i \in DOMAIN fired
               PROVE  fired[i].at <= now /\ \A p \in pending' : Before(fired[i], p)
    BY <1>1 DEF FiredIsPast, Before
  <2> QED BY <1>2 DEF ClockIInv, FiredIsPast
<1>9. FiresInOrder'
  <2> SUFFICES ASSUME ~turnedBack, NEW i \in DOMAIN fired, NEW j \in DOMAIN fired, i < j
               PROVE  Before(fired[i], fired[j])
    BY <1>1 DEF FiresInOrder, Before
  <2> QED BY DEF ClockIInv, FiresInOrder
<1> QED BY <1>4, <1>5, <1>6, <1>7, <1>8, <1>9 DEF ClockIInv

-------------------------------------------------------------------------------
LEMMA ClockInvNext == ClockIInv /\ [ClockNext]_clockVars => ClockIInv'
<1> SUFFICES ASSUME ClockIInv, [ClockNext]_clockVars PROVE ClockIInv' OBVIOUS
<1>1. ASSUME NEW delay \in Delay, Schedule(delay) PROVE ClockIInv' BY <1>1, ScheduleKeeps
<1>2. ASSUME NEW t \in Caller, NEW target \in 0 .. MaxTime, AdvanceTo(t, target) PROVE ClockIInv'
  <2>1. target \in Nat /\ frames[t] \in Seq(Nat) BY HorizonAssumption DEF ClockIInv, ClockTypeOK
  <2> QED BY <2>1, <1>2, FireKeeps, FinishKeeps DEF AdvanceTo
<1>3. ASSUME NEW t \in Caller, CallbackReturns(t) PROVE ClockIInv'
  <2>1. Front(frames[t]) \in Seq(Nat) /\ Last(frames[t]) \in Nat
    BY <1>3, FramesType DEF CallbackReturns, ClockIInv
  <2> QED BY <2>1, <1>3, FireKeeps, FinishKeeps DEF CallbackReturns
<1>4. ASSUME CancelAll \/ (\E t \in Caller : TaskCancelled(t)) \/ UNCHANGED clockVars PROVE ClockIInv'
  BY <1>4, DropKeeps
<1> QED BY <1>1, <1>2, <1>3, <1>4 DEF ClockNext

LEMMA ClockInductive == ClockSpec => []ClockIInv
BY ClockInvInit, ClockInvNext, PTL DEF ClockSpec

\* The variables of the clock keep their types.
THEOREM ClockTypeCorrect == ClockSpec => []ClockTypeOK
<1>1. ClockIInv => ClockTypeOK BY DEF ClockIInv
<1> QED BY <1>1, ClockInductive, PTL

\* Whatever the callbacks do to the clock that is firing them, it never passes a
\* timer that is still pending.
THEOREM NeverOverdue == ClockSpec => []NothingOverdue
<1>1. ClockIInv => NothingOverdue BY DEF ClockIInv
<1> QED BY <1>1, ClockInductive, PTL

\* Re-entrant and interleaved calls of advance_to() fire no timer twice.
THEOREM OnceOnly == ClockSpec => []FiredOnce
<1>1. ClockIInv => FiredOnce BY DEF ClockIInv
<1> QED BY <1>1, ClockInductive, PTL

\* Callbacks run in the order of their trigger times until the clock is moved back.
THEOREM OrderCorrect == ClockSpec => []FiresInOrder
<1>1. ClockIInv => FiresInOrder BY DEF ClockIInv
<1> QED BY <1>1, ClockInductive, PTL

\* Only the end of an overtaken advance_to() moves the clock back.
THEOREM BackCorrect == ClockSpec => BackOnlyIfOvertaken
<1>1. ClockIInv /\ [ClockNext]_clockVars => [now' < now => Overtaken]_clockVars
  <2> SUFFICES ASSUME ClockIInv, ClockNext, now' < now PROVE Overtaken OBVIOUS
  <2>0. now \in Nat BY DEF ClockIInv, ClockTypeOK
  <2>1. ASSUME NEW delay \in Delay, Schedule(delay) PROVE FALSE BY <2>0, <2>1 DEF Schedule
  <2>2. ASSUME NEW t \in Caller, NEW target \in 0 .. MaxTime, AdvanceTo(t, target) PROVE FALSE
    <3>1. target \in Nat /\ frames[t] \in Seq(Nat) BY HorizonAssumption DEF ClockIInv, ClockTypeOK
    <3>2. CASE Fire(t, frames[t], target)
      <4>1. now' >= now BY <2>2, <3>1, <3>2, FireKeeps DEF AdvanceTo
      <4>2. now' \in Nat BY <2>2, <3>1, <3>2, FireKeeps DEF AdvanceTo, ClockIInv, ClockTypeOK
      <4> QED BY <2>0, <4>1, <4>2
    <3>3. CASE Finish(t, frames[t], target)
      BY <2>0, <2>2, <3>1, <3>3 DEF AdvanceTo, Finish, SetClock
    <3> QED BY <2>2, <3>2, <3>3 DEF AdvanceTo
  <2>3. ASSUME NEW t \in Caller, CallbackReturns(t) PROVE Overtaken
    <3>1. /\ Front(frames[t]) \in Seq(Nat) /\ Last(frames[t]) \in Nat
          /\ frames[t] \in Seq(Nat) /\ frames[t] # <<>>
      BY <2>3, FramesType DEF CallbackReturns, ClockIInv, ClockTypeOK
    <3>2. CASE Fire(t, Front(frames[t]), Last(frames[t]))
      <4>1. now' >= now BY <2>3, <3>1, <3>2, FireKeeps DEF CallbackReturns
      <4>2. now' \in Nat
        BY <2>3, <3>1, <3>2, FireKeeps DEF CallbackReturns, ClockIInv, ClockTypeOK
      <4> QED BY <2>0, <4>1, <4>2
    <3>3. CASE Finish(t, Front(frames[t]), Last(frames[t]))
      <4>1. Last(frames[t]) < now BY <3>3 DEF Finish, SetClock
      <4>2. Len(frames[t]) \in DOMAIN frames[t] /\ frames[t][Len(frames[t])] < now
        BY <3>1, <4>1 DEF Last
      <4> QED BY <4>2 DEF Overtaken
    <3> QED BY <2>3, <3>2, <3>3 DEF CallbackReturns
  <2>4. ASSUME CancelAll \/ (\E t \in Caller : TaskCancelled(t)) PROVE FALSE
    BY <2>0, <2>4 DEF CancelAll, TaskCancelled
  <2> QED BY <2>1, <2>2, <2>3, <2>4 DEF ClockNext
<1> QED BY <1>1, ClockInductive, PTL DEF ClockSpec, BackOnlyIfOvertaken
===============================================================================
