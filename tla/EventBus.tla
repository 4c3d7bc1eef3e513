------------------------------- MODULE EventBus -------------------------------
(***************************************************************************)
(* The asynchronous event bus (sysls/core/bus.py): an asyncio              *)
(* PriorityQueue, the dispatcher task that drains it, publish() calls that *)
(* may block on a bounded queue, and start()/stop().                       *)
(*                                                                         *)
(* A step is what one task does between two suspension points.  A call of  *)
(* publish() is a member of Publisher, a call of stop() a member of        *)
(* Stopper, and the d-th call of start() that succeeds creates dispatcher  *)
(* task d.  Handlers are user code: between two of them the dispatcher may *)
(* be suspended.                                                           *)
(***************************************************************************)
EXTENDS Integers, FiniteSets, Sequences, SequencesExt

CONSTANTS EventType,     \* the event classes that are published
          Class,         \* those and their base classes
          MRO,           \* MRO[t]: t and its bases, most specific first
          Sub,           \* calls of subscribe(), one handler each
          SubClass,      \* the class a subscription names
          Reaction,      \* what the handler publishes, or NoEvent
          Publisher, Stopper,
          MaxStarts,     \* how often start() succeeds
          MaxQueueSize   \* 0 is unbounded

NoEvent == "NoEvent"
NoTask == 0
NoId == -1
Dispatcher == 1 .. MaxStarts
Task == Publisher \cup Dispatcher

ASSUME TypesAssumption ==
  /\ EventType \subseteq Class /\ NoEvent \notin Class
  /\ MRO \in [EventType -> Seq(Class)]
  /\ SubClass \in [Sub -> Class]
  /\ Reaction \in [Sub -> EventType \cup {NoEvent}]

ASSUME BoundsAssumption ==
  /\ MaxStarts \in Nat /\ MaxQueueSize \in Nat
  /\ Publisher \cap Dispatcher = {}

-------------------------------------------------------------------------------
CRITICAL == 0
HIGH == 10
NORMAL == 20
LOW == 30
Priority == {CRITICAL, HIGH, NORMAL, LOW}

\* _DEFAULT_PRIORITIES: the classes it lists, and their levels.
Listed == {"RiskEvent", "SystemEvent", "OrderEvent", "FillEvent", "MarketDataEvent"}

DefaultPriority(c) ==
  CASE c \in {"RiskEvent", "SystemEvent"} -> CRITICAL
    [] c \in {"OrderEvent", "FillEvent"}  -> HIGH
    [] c = "MarketDataEvent"              -> NORMAL
    [] OTHER                              -> LOW

\* The first class of the MRO that has a default priority decides.
ResolvePriority(type) ==
  LET listed == SelectSeq(MRO[type], LAMBDA c : c \in Listed)
  IN  IF listed = <<>> THEN LOW ELSE DefaultPriority(Head(listed))

Entry == [pri : Priority, seq : Nat, type : EventType]
NoEntry == [pri |-> LOW, seq |-> 0, type |-> NoEvent]

-------------------------------------------------------------------------------
VARIABLES
  queue,           \* _queue: the entries waiting
  unfinished,      \* _queue._unfinished_tasks, what join() waits for
  putters,         \* tasks suspended in put(), oldest first
  woken,           \* tasks whose put() will be retried
  putting,         \* the entry each of those tasks holds
  sequence,        \* _sequence
  running,         \* _running
  dispatcherTask,  \* _dispatcher_task
  subscribers,     \* _subscribers: the subscriptions in force
  nextSubId,       \* _next_sub_id
  subId,           \* the id each subscription got, NoId before subscribe()
  call,            \* progress of each publish() call
  dpc,             \* progress of each dispatcher task
  current,         \* the entry a dispatcher took and is handling
  todo,            \* the handlers it still has to finish
  spc,             \* progress of each stop() call
  awaited,         \* the task a stop() call cancelled and awaits
  log,             \* history: entries in the order they were taken
  calls,           \* history: per subscription, the events its handler was given
  owed             \* history: what was queued or in hand when stop() was called

queueVars == <<queue, unfinished, putters, woken, putting, sequence>>
subVars == <<subscribers, nextSubId, subId>>
dispatchVars == <<dpc, current, todo, log>>
stopVars == <<spc, awaited, owed>>
vars == <<queueVars, running, dispatcherTask, subVars, call, dispatchVars,
          stopVars, calls>>

Alive == {"new", "getting", "dispatching"}

QueueTypeOK ==
  /\ queue \in SUBSET Entry /\ IsFiniteSet(queue)
  /\ unfinished \in Int /\ sequence \in Nat
  /\ putters \in Seq(Task) /\ woken \in SUBSET Task
  /\ putting \in [Task -> Entry \cup {NoEntry}]

SubTypeOK == /\ subscribers \in SUBSET Sub /\ nextSubId \in Nat
             /\ subId \in [Sub -> Nat \cup {NoId}]

DispatchTypeOK ==
  /\ dpc \in [Dispatcher -> Alive \cup {"unborn", "cancelled", "exited"}]
  /\ current \in [Dispatcher -> Entry \cup {NoEntry}]
  /\ todo \in [Dispatcher -> SUBSET Sub]
  /\ log \in Seq(Entry)

StopTypeOK ==
  /\ spc \in [Stopper -> {"ready", "joining", "joined", "reaping", "done"}]
  /\ awaited \in [Stopper -> Dispatcher \cup {NoTask}]
  /\ owed \in [Stopper -> SUBSET Nat]

TypeOK ==
  /\ QueueTypeOK /\ SubTypeOK /\ DispatchTypeOK /\ StopTypeOK
  /\ running \in BOOLEAN
  /\ dispatcherTask \in Dispatcher \cup {NoTask}
  /\ call \in [Publisher -> {"ready", "putting", "done", "failed"}]
  /\ calls \in [Sub -> Seq(Nat)]

Init ==
  /\ queue = {} /\ unfinished = 0 /\ sequence = 0
  /\ putters = <<>> /\ woken = {} /\ putting = [t \in Task |-> NoEntry]
  /\ running = FALSE /\ dispatcherTask = NoTask
  /\ subscribers = {} /\ nextSubId = 0
  /\ subId = [h \in Sub |-> NoId]
  /\ call = [p \in Publisher |-> "ready"]
  /\ dpc = [d \in Dispatcher |-> "unborn"]
  /\ current = [d \in Dispatcher |-> NoEntry]
  /\ todo = [d \in Dispatcher |-> {}]
  /\ spc = [s \in Stopper |-> "ready"]
  /\ awaited = [s \in Stopper |-> NoTask]
  /\ log = <<>> /\ calls = [h \in Sub |-> <<>>]
  /\ owed = [s \in Stopper |-> {}]

-------------------------------------------------------------------------------
(* asyncio.PriorityQueue *)

Full == MaxQueueSize > 0 /\ Cardinality(queue) >= MaxQueueSize

\* What put_nowait() does.
PutNow(e) == /\ queue' = queue \cup {e}
             /\ unfinished' = unfinished + 1

\* Each entry taken out lets the putter that waits longest try again.
WakePutter ==
  IF putters = <<>>
  THEN UNCHANGED <<putters, woken>>
  ELSE /\ woken' = woken \cup {Head(putters)}
       /\ putters' = Tail(putters)

\* task_done(): at zero every join() in progress returns.
TaskDone ==
  /\ unfinished' = unfinished - 1
  /\ spc' = [s \in Stopper |-> IF unfinished' = 0 /\ spc[s] = "joining"
                               THEN "joined" ELSE spc[s]]

\* Mutant: the largest number is served first.
Precedes_LargestFirst(a, b) == a.pri > b.pri \/ (a.pri = b.pri /\ a.seq < b.seq)

\* Heap order: priority, then the sequence number.
Precedes(a, b) == a.pri < b.pri \/ (a.pri = b.pri /\ a.seq < b.seq)

-------------------------------------------------------------------------------
(* subscribe() and unsubscribe() *)

Subscribe(h) ==
  /\ subId[h] = NoId
  /\ subId' = [subId EXCEPT ![h] = nextSubId]
  /\ nextSubId' = nextSubId + 1
  /\ subscribers' = subscribers \cup {h}
  /\ UNCHANGED <<queueVars, running, dispatcherTask, call, dispatchVars,
                 stopVars, calls>>

Unsubscribe(h) ==
  /\ h \in subscribers
  /\ subscribers' = subscribers \ {h}
  /\ UNCHANGED <<queueVars, running, dispatcherTask, nextSubId, subId, call,
                 dispatchVars,
                 stopVars, calls>>

\* The handlers an event is fanned out to, collected when it is taken.
Handlers(type) ==
  {h \in subscribers : \E i \in DOMAIN MRO[type] : MRO[type][i] = SubClass[h]}

\* They run in the order of the MRO, those of one class as they subscribed.
RunsBefore(g, h, type) ==
  \E i, j \in DOMAIN MRO[type] :
    /\ MRO[type][i] = SubClass[g] /\ MRO[type][j] = SubClass[h]
    /\ i < j \/ (i = j /\ subId[g] < subId[h])

\* The handler whose turn it is: the only member, if any is left.
NextHandler(d) ==
  {h \in todo[d] : \A g \in todo[d] \ {h} : RunsBefore(h, g, current[d].type)}

-------------------------------------------------------------------------------
(* publish(), called by a task of its own or by a handler *)

\* The sequence number is drawn before put() finds out whether it must wait.
BeginPut(t, type) ==
  LET e == [pri |-> ResolvePriority(type), seq |-> sequence + 1, type |-> type]
  IN  /\ sequence' = sequence + 1
      /\ \/ /\ ~Full
            /\ PutNow(e)
            /\ UNCHANGED <<putting, putters>>
         \/ /\ Full
            /\ putting' = [putting EXCEPT ![t] = e]
            /\ putters' = Append(putters, t)
            /\ UNCHANGED <<queue, unfinished>>

Publish(p, type) ==
  /\ call[p] = "ready" /\ running
  /\ BeginPut(p, type)
  /\ call' = [call EXCEPT ![p] = IF Full THEN "putting" ELSE "done"]
  /\ UNCHANGED <<woken, running, dispatcherTask, subVars, dispatchVars, stopVars,
                 calls>>

\* RuntimeError: the bus is not running.
PublishRefused(p) ==
  /\ call[p] = "ready" /\ ~running
  /\ call' = [call EXCEPT ![p] = "failed"]
  /\ UNCHANGED <<queueVars, running, dispatcherTask, subVars, dispatchVars,
                 stopVars, calls>>

\* A woken put() finds the queue full again, or completes; a dispatcher that
\* has been cancelled meanwhile unwinds instead.
MayRetry(t) == t \in woken /\ (t \in Dispatcher => dpc[t] = "dispatching")

PutWaitsAgain(t) ==
  /\ MayRetry(t) /\ Full
  /\ woken' = woken \ {t}
  /\ putters' = Append(putters, t)
  /\ UNCHANGED <<queue, unfinished, putting, sequence, running, dispatcherTask,
                 subVars, call, dispatchVars, stopVars, calls>>

PutCompletes(t) ==
  /\ MayRetry(t) /\ ~Full
  /\ PutNow(putting[t])
  /\ woken' = woken \ {t}
  /\ putting' = [putting EXCEPT ![t] = NoEntry]
  /\ call' = [p \in Publisher |-> IF p = t THEN "done" ELSE call[p]]
  /\ todo' = [d \in Dispatcher |-> IF d = t THEN todo[d] \ NextHandler(d)
                                    ELSE todo[d]]
  /\ UNCHANGED <<putters, sequence, running, dispatcherTask, subVars, dpc,
                 current, log, stopVars, calls>>

-------------------------------------------------------------------------------
(* the dispatcher task: _dispatch_loop() and _dispatch_event() *)

\* get_nowait(), then the handlers are looked up.
Take(d) ==
  /\ \E e \in queue :
       /\ \A f \in queue \ {e} : Precedes(e, f)
       /\ queue' = queue \ {e}
       /\ current' = [current EXCEPT ![d] = e]
       /\ todo' = [todo EXCEPT ![d] = Handlers(e.type)]
       /\ log' = Append(log, e)
  /\ WakePutter
  /\ dpc' = [dpc EXCEPT ![d] = "dispatching"]

\* `while self._running', then get() on an empty queue suspends.
LoopHead(d) ==
  \/ running /\ Take(d)
  \/ /\ dpc' = [dpc EXCEPT ![d] = IF running THEN "getting" ELSE "exited"]
     /\ running => queue = {}
     /\ current' = [current EXCEPT ![d] = NoEntry]
     /\ UNCHANGED <<queue, putters, woken, todo, log>>

LoopFrame == UNCHANGED <<putting, sequence, running, dispatcherTask, subVars,
                         call, awaited, owed, calls>>

DispatcherStarts(d) ==
  /\ dpc[d] = "new"
  /\ LoopHead(d)
  /\ UNCHANGED <<unfinished, spc>> /\ LoopFrame

\* get() returns an entry that arrived while it was waiting.
GetReturns(d) ==
  /\ dpc[d] = "getting"
  /\ Take(d)
  /\ UNCHANGED <<unfinished, spc>> /\ LoopFrame

\* Mutant: a timeout ends the loop like a cancellation.
GetTimesOut_Breaks(d) ==
  /\ dpc[d] = "getting"
  /\ dpc' = [dpc EXCEPT ![d] = "exited"]
  /\ UNCHANGED <<queue, putters, woken, todo, log, current, unfinished, spc>>
  /\ LoopFrame

\* The 0.1 s time limit of wait_for(): the loop condition is tested again.
GetTimesOut(d) ==
  /\ dpc[d] = "getting"
  /\ LoopHead(d)
  /\ UNCHANGED <<unfinished, spc>> /\ LoopFrame

\* Mutant: a handler that raised is called again.
HandlerReturns_Retried(d) ==
  /\ dpc[d] = "dispatching" /\ putting[d] = NoEntry
  /\ \E h \in NextHandler(d) : calls' = [calls EXCEPT ![h] = Append(@, current[d].seq)]
  /\ UNCHANGED <<queueVars, running, dispatcherTask, subVars, call, dispatchVars,
                 stopVars>>

\* A handler runs to its end, or raises, which is logged and ignored: so is
\* the RuntimeError of its publish() on a bus that is stopping.
HandlerReturns(d) ==
  /\ dpc[d] = "dispatching" /\ putting[d] = NoEntry
  /\ \E h \in NextHandler(d) :
       /\ calls' = [calls EXCEPT ![h] = Append(@, current[d].seq)]
       /\ todo' = [todo EXCEPT ![d] = @ \ {h}]
  /\ UNCHANGED <<queueVars, running, dispatcherTask, subVars, call, dpc, current,
                 log, stopVars>>

\* A handler publishes an event of its own before it returns.
HandlerPublishes(d) ==
  /\ dpc[d] = "dispatching" /\ putting[d] = NoEntry /\ running
  /\ \E h \in NextHandler(d) :
       /\ Reaction[h] # NoEvent
       /\ BeginPut(d, Reaction[h])
       /\ calls' = [calls EXCEPT ![h] = Append(@, current[d].seq)]
       /\ todo' = [todo EXCEPT ![d] = IF Full THEN @ ELSE @ \ {h}]
  /\ UNCHANGED <<woken, running, dispatcherTask, subVars, call, dpc, current,
                 log, stopVars>>

\* Mutant: task_done() is forgotten.
EventDone_NotCounted(d) ==
  /\ dpc[d] = "dispatching" /\ putting[d] = NoEntry /\ todo[d] = {}
  /\ LoopHead(d)
  /\ UNCHANGED <<unfinished, spc>> /\ LoopFrame

\* Mutant: an `if' instead of the loop.
EventDone_NoLoop(d) ==
  /\ dpc[d] = "dispatching" /\ putting[d] = NoEntry /\ todo[d] = {}
  /\ TaskDone
  /\ dpc' = [dpc EXCEPT ![d] = "exited"]
  /\ current' = [current EXCEPT ![d] = NoEntry]
  /\ UNCHANGED <<queue, putters, woken, todo, log>> /\ LoopFrame

\* task_done(), and without suspending the next turn of the loop.
EventDone(d) ==
  /\ dpc[d] = "dispatching" /\ putting[d] = NoEntry /\ todo[d] = {}
  /\ TaskDone
  /\ LoopHead(d) /\ LoopFrame

\* A cancelled put() leaves the waiting line, or hands its wake-up on.
GiveUpPut(t) ==
  \/ /\ \E i \in DOMAIN putters : putters[i] = t /\ putters' = RemoveAt(putters, i)
     /\ UNCHANGED woken
  \/ /\ t \in woken
     /\ IF Full \/ putters = <<>>
        THEN woken' = woken \ {t} /\ UNCHANGED putters
        ELSE woken' = (woken \ {t}) \cup {Head(putters)} /\ putters' = Tail(putters)
  \/ /\ putting[t] = NoEntry
     /\ UNCHANGED <<putters, woken>>

\* CancelledError: in get() it ends the loop; in a handler it abandons the
\* handlers left and a put() in progress, and `finally' calls task_done().
Unwind(d) ==
  /\ dpc[d] = "cancelled"
  /\ dpc' = [dpc EXCEPT ![d] = "exited"]
  /\ current' = [current EXCEPT ![d] = NoEntry]
  /\ todo' = [todo EXCEPT ![d] = {}]
  /\ IF current[d] = NoEntry THEN UNCHANGED <<unfinished, spc>> ELSE TaskDone
  /\ GiveUpPut(d)
  /\ putting' = [putting EXCEPT ![d] = NoEntry]
  /\ UNCHANGED <<queue, sequence, running, dispatcherTask, subVars, call, log,
                 awaited, owed, calls>>

-------------------------------------------------------------------------------
(* start() and stop() *)

Start(d) ==
  /\ ~running
  /\ dpc[d] = "unborn" /\ \A c \in 1 .. d - 1 : dpc[c] # "unborn"
  /\ running' = TRUE
  /\ dispatcherTask' = d
  /\ dpc' = [dpc EXCEPT ![d] = "new"]
  /\ UNCHANGED <<queueVars, subVars, call, current, todo, log, stopVars, calls>>

\* After join(): the task that _dispatcher_task names now is cancelled and
\* awaited; one that has ended needs no waiting.
Ended(d) == d = NoTask \/ dpc[d] = "exited"

CancelDispatcher(s) ==
  IF Ended(dispatcherTask)
  THEN /\ spc' = [spc EXCEPT ![s] = "done"]
       /\ dispatcherTask' = NoTask
       /\ UNCHANGED <<dpc, awaited>>
  ELSE /\ dpc' = [dpc EXCEPT ![dispatcherTask] = "cancelled"]
       /\ awaited' = [awaited EXCEPT ![s] = dispatcherTask]
       /\ spc' = [spc EXCEPT ![s] = "reaping"]
       /\ UNCHANGED dispatcherTask

\* The dispatchers with an event in hand, and the events a stop() finds queued
\* or being handled.
Held == {d \in Dispatcher : current[d] # NoEntry}
Outstanding == {e.seq : e \in queue} \cup {current[d].seq : d \in Held}

StopFrame == UNCHANGED <<queueVars, subVars, call, current, todo, log, calls>>

\* Mutant: the dispatcher is cancelled without join().
Stop_NoJoin(s) ==
  /\ spc[s] = "ready" /\ running
  /\ running' = FALSE
  /\ owed' = [owed EXCEPT ![s] = Outstanding]
  /\ CancelDispatcher(s)
  /\ StopFrame

Stop(s) ==
  /\ spc[s] = "ready" /\ running
  /\ running' = FALSE
  /\ owed' = [owed EXCEPT ![s] = Outstanding]
  /\ \/ unfinished = 0 /\ CancelDispatcher(s)
     \/ /\ unfinished # 0
        /\ spc' = [spc EXCEPT ![s] = "joining"]
        /\ UNCHANGED <<dpc, awaited, dispatcherTask>>
  /\ StopFrame

StopNotRunning(s) ==
  /\ spc[s] = "ready" /\ ~running
  /\ spc' = [spc EXCEPT ![s] = "done"]
  /\ UNCHANGED <<running, owed, dpc, awaited, dispatcherTask>> /\ StopFrame

JoinReturns(s) ==
  /\ spc[s] = "joined"
  /\ CancelDispatcher(s)
  /\ UNCHANGED <<running, owed>> /\ StopFrame

StopReturns(s) ==
  /\ spc[s] = "reaping" /\ dpc[awaited[s]] = "exited"
  /\ dispatcherTask' = NoTask
  /\ spc' = [spc EXCEPT ![s] = "done"]
  /\ UNCHANGED <<running, owed, dpc, awaited>> /\ StopFrame

-------------------------------------------------------------------------------
DispatcherStep(d) ==
  \/ DispatcherStarts(d) \/ GetReturns(d) \/ GetTimesOut(d)
  \/ HandlerReturns(d) \/ HandlerPublishes(d) \/ EventDone(d) \/ Unwind(d)

PutStep(t) == PutWaitsAgain(t) \/ PutCompletes(t)

StopStep(s) == JoinReturns(s) \/ StopReturns(s)

Next ==
  \/ \E h \in Sub : Subscribe(h) \/ Unsubscribe(h)
  \/ \E p \in Publisher : PublishRefused(p) \/ \E t \in EventType : Publish(p, t)
  \/ \E t \in Task : PutStep(t)
  \/ \E d \in Dispatcher : DispatcherStep(d) \/ Start(d)
  \/ \E s \in Stopper : Stop(s) \/ StopNotRunning(s) \/ StopStep(s)

Spec == Init /\ [][Next]_vars

\* The event loop runs every task that can run; handlers end.  Nothing makes a
\* user call publish(), start() or stop().
Fairness == /\ \A d \in Dispatcher : WF_vars(DispatcherStep(d))
            /\ \A t \in Task : WF_vars(PutStep(t))
            /\ \A s \in Stopper : WF_vars(StopStep(s))

FairSpec == Spec /\ Fairness

-------------------------------------------------------------------------------
(* Properties *)

\* join() counts right: the counter stop() waits for is the number of entries
\* queued or in the hands of a dispatcher, whatever was cancelled or restarted.
UnfinishedIsOutstanding ==
  unfinished = Cardinality(queue) + Cardinality(Held)

\* Once a stop() is past join() nothing that was queued, or being handled, when
\* it was called is still queued or being handled: what stop() does finish to
\* wait for has been drained, even if the bus was started again meanwhile.
StopDrains ==
  \A s \in Stopper : spc[s] \in {"joined", "reaping", "done"} =>
                        owed[s] \cap Outstanding = {}

\* No handler is given an event twice, also when two dispatcher tasks overlap
\* after a restart.
HandledAtMostOnce == \A h \in Sub : IsInjective(calls[h])

\* A bus that is running has a dispatcher task that will take its events.
RunningBusDispatches ==
  running => \E d \in Dispatcher : dpc[d] \in Alive

\* The lanes of PriorityLanes, read off the heap: the entries of a priority by
\* their numbers, the i-th being the one that i - 1 others precede.
Nth(entries, i) ==
  CHOOSE e \in entries : Cardinality({f \in entries : f.seq < e.seq}) = i - 1

Lane(p) ==
  LET entries == {e \in queue : e.pri = p}
  IN  [i \in 1 .. Cardinality(entries) |-> Nth(entries, i).type]

Lanes == INSTANCE PriorityLanes
  WITH Level <- Priority, Message <- EventType,
       lanes <- [p \in Priority |-> Lane(p)],
       delivered <- [i \in DOMAIN log |-> log[i].type]

\* The heap implements one FIFO lane per priority.
ImplementsLanes == Lanes!Spec

\* A published event is taken by a dispatcher, unless the bus is stopped first.
PublishedIsDispatched ==
  \A p \in Priority :
    (\E e \in queue : e.pri = p) /\ running ~>
      (~ \E e \in queue : e.pri = p) \/ ~running

\* stop() returns when at its call no event is queued or blocked in a put(),
\* though one may be in the middle of being handled.
IdleStopReturns ==
  \A s \in Stopper :
    spc[s] = "joining" /\ queue = {} /\ putters = <<>> /\ woken = {} ~> spc[s] = "done"

\* stop() returns, every event queued at its call having been handled.
StopEventuallyDrains ==
  \A s \in Stopper : spc[s] = "joining" ~> spc[s] = "done"
===============================================================================
