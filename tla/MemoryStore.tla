------------------------------ MODULE MemoryStore ------------------------------
(***************************************************************************)
(* The time-series store (data/store.py) as the in-memory implementation   *)
(* has it (data/store_memory.py): no method awaits anything, so a call is  *)
(* one step.  A data frame is the sequence of the times of its rows; its   *)
(* columns and the metadata of a symbol are left out.                      *)
(***************************************************************************)
EXTENDS Naturals, Sequences, SequencesExt

CONSTANTS Client,   \* tasks that use the store, each for one call at a time
          Symbol,   \* storage keys
          Frame,    \* data frames that are written and appended
          Period    \* sets of times: what start and end of a read() admit

VARIABLES data,     \* _data
          call,     \* the call a client has begun
          answer    \* what its last call returned or raised

memoryVars == <<data, call, answer>>

NoCall == [op |-> "none"]
Call ==
  [op : {"write", "append"}, symbol : Symbol, frame : Frame]
    \cup [op : {"read"}, symbol : Symbol, period : Period]
    \cup [op : {"has_symbol", "delete"}, symbol : Symbol]
    \cup [op : {"list_symbols"}]

Done == <<"done">>
NotFound == <<"DataNotFoundError">>
Rows(rows) == <<"rows", rows>>
Is(truth) == <<"is", truth>>
Symbols(symbols) == <<"symbols", symbols>>

MemoryInit ==
  /\ data = [s \in {} |-> <<>>]
  /\ call = [c \in Client |-> NoCall] /\ answer = [c \in Client |-> Done]

Has(store, s) == s \in DOMAIN store
With(store, s, rows) == [x \in DOMAIN store \cup {s} |-> IF x = s THEN rows ELSE store[x]]
Without(store, s) == [x \in DOMAIN store \ {s} |-> store[x]]

InOrder(rows) == \A i \in 1 .. Len(rows) - 1 : rows[i] <= rows[i + 1]

\* sort_index(): rows in order are left as they are.
SortIndex(rows) == IF InOrder(rows) THEN rows ELSE SortSeq(rows, <)

\* start and end are both inclusive.
Within(rows, period) == SelectSeq(rows, LAMBDA t : t \in period)

Begin(c, cl) ==
  /\ call[c] = NoCall
  /\ call' = [call EXCEPT ![c] = cl]
  /\ UNCHANGED <<data, answer>>

Answers(c, value) ==
  /\ call' = [call EXCEPT ![c] = NoCall]
  /\ answer' = [answer EXCEPT ![c] = value]

Write(c) ==
  /\ call[c].op = "write"
  /\ data' = With(data, call[c].symbol, call[c].frame)
  /\ Answers(c, Done)

Read(c) ==
  /\ call[c].op = "read"
  /\ Answers(c, IF Has(data, call[c].symbol)
                THEN Rows(Within(data[call[c].symbol], call[c].period)) ELSE NotFound)
  /\ UNCHANGED data

AppendRows(c) ==
  /\ call[c].op = "append"
  /\ LET s == call[c].symbol
     IN IF Has(data, s)
        THEN /\ data' = With(data, s, SortIndex(data[s] \o call[c].frame))
             /\ Answers(c, Done)
        ELSE /\ Answers(c, NotFound)
             /\ UNCHANGED data

ListSymbols(c) ==
  /\ call[c].op = "list_symbols"
  /\ Answers(c, Symbols(DOMAIN data))
  /\ UNCHANGED data

HasSymbol(c) ==
  /\ call[c].op = "has_symbol"
  /\ Answers(c, Is(Has(data, call[c].symbol)))
  /\ UNCHANGED data

Delete(c) ==
  /\ call[c].op = "delete"
  /\ data' = Without(data, call[c].symbol)
  /\ Answers(c, Done)

MemoryStep(c) ==
  \/ \E cl \in Call : Begin(c, cl)
  \/ Write(c) \/ Read(c) \/ AppendRows(c) \/ ListSymbols(c) \/ HasSymbol(c) \/ Delete(c)

MemorySpec == MemoryInit /\ [][\E c \in Client : MemoryStep(c)]_memoryVars
================================================================================
