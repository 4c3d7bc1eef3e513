-------------------------- MODULE PolygonConnector --------------------------
(***************************************************************************)
(* The market data connector (data/polygon.py).  A stream is an            *)
(* asynchronous generator: its first step starts a task that runs a        *)
(* websocket client in a thread of asyncio's default executor, and the     *)
(* client's messages reach the generator through a queue.  A historical    *)
(* request lists its rows in a thread of the same executor.  The websocket *)
(* client and the REST client are external: the client connects, delivers  *)
(* what was subscribed in the market it was made for, awaits the processor *)
(* it was given, and returns when the connection drops.  Its close() is a  *)
(* coroutine function, and the connector calls it without awaiting it: the *)
(* call does nothing, neither to a connection nor to one being made.       *)
(***************************************************************************)
EXTENDS Integers, FiniteSets, SequencesExt

CONSTANTS Stream,        \* generators returned by stream_quotes/trades/bars()
          Feed,          \* what each of them streams
          Wanted,        \* lists of instruments each may be asked for
          Request,       \* callers of get_historical_bars/trades/quotes()
          Workers,       \* threads of the executor
          MaxMessages,   \* bound: messages the socket of each delivers
          MaxBatch       \* bound: messages it delivers at once

\* An instrument is its asset class and its symbol, a sequence of parts.
ASSUME InputAssumption ==
  /\ Feed \in [Stream -> {"quotes", "trades", "minute bars", "second bars"}]
  /\ \A s \in Stream : \A list \in Wanted[s] : list \in Seq(ToSet(list)) /\ IsInjective(list)
  /\ Stream \cap Request = {}
  /\ MaxMessages \in [Stream -> Nat] /\ MaxBatch \in Nat \ {0} /\ Workers \in Nat \ {0}

VARIABLES
  connected,  \* _connected, and _rest_client is set
  gen,        \* where each generator stands
  wanted,     \* the instruments of the stream
  task,       \* ws_task
  pool,       \* jobs waiting for a thread, oldest first
  socket,     \* the websocket client: in no thread yet, connecting, open, gone
  arrived,    \* messages delivered to the stream so far
  batch,      \* those of them the processor has still to do
  queue,      \* events queued for the generator
  yielded,    \* events the consumer got
  request     \* progress of the historical requests

streamVars == <<gen, wanted, task, socket, arrived, batch, queue, yielded>>
vars == <<connected, streamVars, pool, request>>

Init ==
  /\ connected = FALSE
  /\ gen = [s \in Stream |-> "fresh"] /\ wanted = [s \in Stream |-> <<>>]
  /\ task = [s \in Stream |-> "none"] /\ pool = <<>>
  /\ socket = [s \in Stream |-> "none"]
  /\ arrived = [s \in Stream |-> <<>>] /\ batch = [s \in Stream |-> <<>>]
  /\ queue = [s \in Stream |-> <<>>] /\ yielded = [s \in Stream |-> <<>>]
  /\ request = [r \in Request |-> "idle"]

-----------------------------------------------------------------------------
(* Instruments, tickers and messages *)

IsCrypto(i) == i.class \in {"CRYPTO_SPOT", "CRYPTO_PERP", "CRYPTO_FUTURE"}

Supported(i) == i.class # "EVENT"

\* A pair's symbol without what separates its parts.
Letters(i) ==
  IF IsCrypto(i) THEN SelectSeq(i.symbol, LAMBDA part : part \notin {"-", "/", "_"})
  ELSE i.symbol

\* "BTC-USD", "BTC/USD" and "BTC_USD" are one ticker, X:BTCUSD.
Ticker(i) == IF IsCrypto(i) THEN <<"X:">> \o Letters(i) ELSE Letters(i)

Tickers(list) == {Ticker(i) : i \in ToSet(list)}

\* instrument_map: of instruments with one ticker the last one listed.
InstrumentMap(list) ==
  [t \in Tickers(list) |-> list[CHOOSE k \in DOMAIN list :
                             Ticker(list[k]) = t /\ \A l \in DOMAIN list :
                                                      Ticker(list[l]) = t => l <= k]]

\* The channel prefixes of Polygon: stocks, crypto.
Prefix(feed, crypto) ==
  CASE feed = "quotes"      -> IF crypto THEN "XQ" ELSE "Q"
    [] feed = "trades"      -> IF crypto THEN "XT" ELSE "T"
    [] feed = "minute bars" -> IF crypto THEN "XA" ELSE "AM"
    [] feed = "second bars" -> IF crypto THEN "XAS" ELSE "A"

Subscriptions(feed, list) ==
  {<<Prefix(feed, IsCrypto(i)), Ticker(i)>> : i \in ToSet(list)}

\* The socket is opened for the market of the first instrument.
Market(list) == IF IsCrypto(list[1]) THEN "crypto" ELSE "stocks"

\* External.  The socket serves the subscriptions of its market.  A message names
\* a stock by its ticker and a pair without "X:"; it may be unreadable, or about
\* no instrument at all.
Message(feed, list) ==
  [channel : {c \in Subscriptions(feed, list) : (c[2][1] = "X:") = (Market(list) = "crypto")},
   form : {"sound", "broken"}]
    \cup [channel : {<<>>}, form : {"status"}]

Named(msg) ==
  IF msg.form = "status" THEN <<>>
  ELSE IF msg.channel[2][1] = "X:" THEN Tail(msg.channel[2])
  ELSE msg.channel[2]

NoInstrument == [class |-> "None", symbol |-> <<>>]

\* Every symbol has letters, and no stock is named like a pair.
ASSUME SymbolAssumption ==
  \A s \in Stream : \A list \in Wanted[s] : \A i \in ToSet(list) :
    /\ i # NoInstrument
    /\ Letters(i) \in Seq(STRING) \ {<<>>} /\ Head(Letters(i)) # "X:"

\* Mutant: the name is looked for as a pair first.
Resolve_PairFirst(msg, map) ==
  IF Named(msg) = <<>> THEN NoInstrument
  ELSE IF <<"X:">> \o Named(msg) \in DOMAIN map THEN map[<<"X:">> \o Named(msg)]
  ELSE IF Named(msg) \in DOMAIN map THEN map[Named(msg)]
  ELSE NoInstrument

\* _resolve_instrument_from_ws(): as it is named, then as a pair.
Resolve(msg, map) ==
  IF Named(msg) = <<>> THEN NoInstrument
  ELSE IF Named(msg) \in DOMAIN map THEN map[Named(msg)]
  ELSE IF <<"X:">> \o Named(msg) \in DOMAIN map THEN map[<<"X:">> \o Named(msg)]
  ELSE NoInstrument

\* A quote, trade or bar event: its instrument, and which message it tells of.
EventOf(instrument, n) == [instrument |-> instrument, message |-> n]

-----------------------------------------------------------------------------
(* The connector and its historical requests *)

Connect ==
  /\ ~connected /\ connected' = TRUE
  /\ UNCHANGED <<streamVars, pool, request>>

\* Streams are not told, and requests in a thread go on.
Disconnect ==
  /\ connected /\ connected' = FALSE
  /\ UNCHANGED <<streamVars, pool, request>>

Outcome == {"rows", "no data", "error"}

Ask(r) ==
  /\ request[r] \in {"idle"} \cup Outcome
  /\ IF connected
     THEN /\ request' = [request EXCEPT ![r] = "queued"]
          /\ pool' = Append(pool, r)
     ELSE /\ request' = [request EXCEPT ![r] = "error"]
          /\ UNCHANGED pool
  /\ UNCHANGED <<connected, streamVars>>

\* Empty listings are DataNotFoundErrors, exceptions DataErrors.
ListingAnswers(r) ==
  /\ request[r] = "listing"
  /\ \E outcome \in Outcome : request' = [request EXCEPT ![r] = outcome]
  /\ UNCHANGED <<connected, streamVars, pool>>

-----------------------------------------------------------------------------
(* The threads of the executor *)

\* Clients that hold a thread, of open streams or of closed ones.
Sockets == {s \in Stream : socket[s] \in {"connecting", "open"}}
Idle == Cardinality(Sockets) + Cardinality({r \in Request : request[r] = "listing"}) < Workers

\* Mutant: the missing client is noticed where nobody sees the exception.
StartListing_Silent(r) ==
  /\ Idle /\ pool # <<>> /\ Head(pool) = r
  /\ request' = [request EXCEPT ![r] = IF connected THEN "listing" ELSE @]
  /\ pool' = Tail(pool)
  /\ UNCHANGED <<connected, streamVars>>

\* A listing finds the client gone when disconnect() came first.
StartListing(r) ==
  /\ Idle /\ pool # <<>> /\ Head(pool) = r
  /\ request' = [request EXCEPT ![r] = IF connected THEN "listing" ELSE "error"]
  /\ pool' = Tail(pool)
  /\ UNCHANGED <<connected, streamVars>>

\* A thread begins the client's run().
RunClient(s) ==
  /\ Idle /\ pool # <<>> /\ Head(pool) = s
  /\ socket' = [socket EXCEPT ![s] = "connecting"]
  /\ pool' = Tail(pool)
  /\ UNCHANGED <<connected, gen, wanted, task, arrived, batch, queue, yielded, request>>

\* External: the connection is made.
SocketOpens(s) ==
  /\ socket[s] = "connecting"
  /\ socket' = [socket EXCEPT ![s] = "open"]
  /\ UNCHANGED <<connected, gen, wanted, task, arrived, batch, queue, yielded, pool, request>>

\* External: messages arrive.
Receive(s) ==
  /\ socket[s] = "open" /\ batch[s] = <<>>
  /\ \E n \in 1 .. MaxBatch :
       /\ Len(arrived[s]) + n <= MaxMessages[s]
       /\ \E msgs \in [1 .. n -> Message(Feed[s], wanted[s])] :
            /\ arrived' = [arrived EXCEPT ![s] = @ \o msgs]
            /\ batch' = [batch EXCEPT ![s] = msgs]
  /\ UNCHANGED <<connected, gen, wanted, task, socket, queue, yielded, pool, request>>

\* External: the connection drops, or cannot be made, and run() returns.
SocketEnds(s) ==
  /\ s \in Sockets /\ batch[s] = <<>>
  /\ socket' = [socket EXCEPT ![s] = "gone"]
  /\ UNCHANGED <<connected, gen, wanted, task, arrived, batch, queue, yielded, pool, request>>

\* Mutant: the exception leaves the loop over the messages.
Process_StopsAtError(s) ==
  /\ batch[s] # <<>>
  /\ LET msg == Head(batch[s])
         instrument == Resolve(msg, InstrumentMap(wanted[s]))
         n == Len(arrived[s]) - Len(batch[s]) + 1
     IN /\ queue' = IF instrument # NoInstrument /\ msg.form # "broken"
                    THEN [queue EXCEPT ![s] = Append(@, EventOf(instrument, n))] ELSE queue
        /\ batch' = [batch EXCEPT ![s] = IF msg.form = "broken" THEN <<>> ELSE Tail(@)]
  /\ UNCHANGED <<connected, gen, wanted, task, socket, arrived, yielded, pool, request>>

\* _process_messages(), one message: an unreadable one is logged and left out.
Process(s) ==
  /\ batch[s] # <<>>
  /\ LET msg == Head(batch[s])
         instrument == Resolve(msg, InstrumentMap(wanted[s]))
         n == Len(arrived[s]) - Len(batch[s]) + 1
     IN queue' = IF instrument # NoInstrument /\ msg.form # "broken"
                 THEN [queue EXCEPT ![s] = Append(@, EventOf(instrument, n))] ELSE queue
  /\ batch' = [batch EXCEPT ![s] = Tail(@)]
  /\ UNCHANGED <<connected, gen, wanted, task, socket, arrived, yielded, pool, request>>

-----------------------------------------------------------------------------
(* A stream's task *)

\* Without instruments, or when the client cannot be made, the task fails.
RunWebsocket(s) ==
  /\ task[s] = "created"
  /\ \/ /\ wanted[s] # <<>>
        /\ task' = [task EXCEPT ![s] = "running"]
        /\ pool' = Append(pool, s)
     \/ /\ task' = [task EXCEPT ![s] = "over"]
        /\ UNCHANGED pool
  /\ UNCHANGED <<connected, gen, wanted, socket, arrived, batch, queue, yielded, request>>

\* The thread is done, with or without an exception.
WebsocketReturns(s) ==
  /\ task[s] = "running" /\ socket[s] = "gone"
  /\ task' = [task EXCEPT ![s] = "over"]
  /\ UNCHANGED <<connected, gen, wanted, socket, arrived, batch, queue, yielded, pool, request>>

\* Mutant: the task waits for its thread.
WebsocketCancelled_Joins(s) ==
  /\ task[s] = "cancelling" /\ s \notin Sockets
  /\ task' = [task EXCEPT ![s] = "over"]
  /\ pool' = RemoveFirst(pool, s)
  /\ UNCHANGED <<connected, gen, wanted, socket, arrived, batch, queue, yielded, request>>

\* The cancellation withdraws a job no thread has begun.  A thread goes on, and its
\* connection with it: close() is not awaited.
WebsocketCancelled(s) ==
  /\ task[s] = "cancelling"
  /\ task' = [task EXCEPT ![s] = "over"]
  /\ pool' = RemoveFirst(pool, s)
  /\ UNCHANGED <<connected, gen, wanted, socket, arrived, batch, queue, yielded, request>>

-----------------------------------------------------------------------------
(* A stream's generator *)

\* The first step of the generator.
Start(s) ==
  /\ gen[s] = "fresh"
  /\ \E list \in Wanted[s] :
       IF connected /\ \A i \in ToSet(list) : Supported(i)
       THEN /\ gen' = [gen EXCEPT ![s] = "waiting"]
            /\ wanted' = [wanted EXCEPT ![s] = list]
            /\ task' = [task EXCEPT ![s] = "created"]
       ELSE /\ gen' = [gen EXCEPT ![s] = "refused"]
            /\ UNCHANGED <<wanted, task>>
  /\ UNCHANGED <<connected, socket, arrived, batch, queue, yielded, pool, request>>

Get(s) ==
  /\ gen[s] = "waiting" /\ queue[s] # <<>>
  /\ gen' = [gen EXCEPT ![s] = "holding"]
  /\ yielded' = [yielded EXCEPT ![s] = Append(@, Head(queue[s]))]
  /\ queue' = [queue EXCEPT ![s] = Tail(@)]
  /\ UNCHANGED <<connected, wanted, task, socket, arrived, batch, pool, request>>

\* The consumer asks for the next event.
Resume(s) ==
  /\ gen[s] = "holding"
  /\ gen' = [gen EXCEPT ![s] = "waiting"]
  /\ UNCHANGED <<connected, wanted, task, socket, arrived, batch, queue, yielded, pool, request>>

\* The consumer closes the generator or is cancelled: ws_task.cancel(), which
\* ends a task that has not begun at once.
Close(s) ==
  /\ gen[s] \in {"waiting", "holding"}
  /\ gen' = [gen EXCEPT ![s] = "closing"]
  /\ task' = [task EXCEPT ![s] = CASE @ = "created" -> "over"
                                   [] @ = "running" -> "cancelling"
                                   [] @ = "over"    -> "over"]
  /\ UNCHANGED <<connected, wanted, socket, arrived, batch, queue, yielded, pool, request>>

\* await ws_task.
EndClose(s) ==
  /\ gen[s] = "closing" /\ task[s] = "over"
  /\ gen' = [gen EXCEPT ![s] = "ended"]
  /\ UNCHANGED <<connected, wanted, task, socket, arrived, batch, queue, yielded, pool, request>>

-----------------------------------------------------------------------------
\* What asyncio and the executor bring forward by themselves.
Works(s) == RunWebsocket(s) \/ WebsocketReturns(s) \/ WebsocketCancelled(s) \/ EndClose(s)

Next ==
  \/ Connect \/ Disconnect
  \/ \E r \in Request : Ask(r) \/ StartListing(r) \/ ListingAnswers(r)
  \/ \E s \in Stream : \/ Start(s) \/ Works(s) \/ RunClient(s)
                       \/ SocketOpens(s) \/ Receive(s) \/ Process(s) \/ SocketEnds(s)
                       \/ Get(s) \/ Resume(s) \/ Close(s)

Spec == Init /\ [][Next]_vars

\* The loop runs its tasks and the executor its jobs, a consumer that asked for an
\* event takes it and asks again, and the provider answers requests.  Nobody has to
\* close a stream; no connection has to be made or to drop, no message to come.
FairSpec ==
  /\ Spec
  /\ \A r \in Request : WF_vars(StartListing(r)) /\ WF_vars(ListingAnswers(r))
  /\ \A s \in Stream : /\ WF_vars(Works(s)) /\ WF_vars(RunClient(s)) /\ WF_vars(Process(s))
                       /\ WF_vars(Get(s) \/ Resume(s))

-----------------------------------------------------------------------------
(* Properties *)

Given(s) == yielded[s] \o queue[s]

\* The consumer gets the events of the messages it can use, each once and in the
\* order in which they arrived, also across an unreadable one in the same batch.
DeliveredInOrder ==
  \A s \in Stream :
    LET done == Len(arrived[s]) - Len(batch[s])
    IN /\ {Given(s)[k].message : k \in DOMAIN Given(s)}
            = {n \in 1 .. done : arrived[s][n].form = "sound"}
       /\ \A j, k \in DOMAIN Given(s) : j < k => Given(s)[j].message < Given(s)[k].message

\* An event is attributed to the instrument whose channel its message came on:
\* always in a stream that begins with a stock, in one that begins with a pair
\* unless another instrument of the stream has the same letters.
AttributedToChannel ==
  \A s \in Stream : \A n \in DOMAIN Given(s) :
    LET event == Given(s)[n]
        channel == arrived[s][event.message].channel
    IN \/ channel = <<Prefix(Feed[s], IsCrypto(event.instrument)), Ticker(event.instrument)>>
       \/ /\ Market(wanted[s]) = "crypto"
          /\ \E i \in ToSet(wanted[s]) \ {event.instrument} : Letters(i) = Letters(event.instrument)

\* A historical request is answered unless connections hold all threads, those of
\* streams that were closed long ago among them.
RequestAnswered ==
  \A r \in Request :
    request[r] = "queued" ~> request[r] \in Outcome \/ Cardinality(Sockets) = Workers

\* Closing a stream comes to its end in whatever state its thread is: none yet,
\* connecting, connected or done.  Once it has ended, no thread begins the stream's
\* client.  A client that was begun keeps its connection and its thread until the
\* connection drops: nothing here promises that they are given back.
CloseCompletes ==
  \A s \in Stream : /\ gen[s] = "closing" ~> gen[s] = "ended"
                    /\ [](gen[s] = "ended" => s \notin ToSet(pool))
=============================================================================
