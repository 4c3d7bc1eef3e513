------------------------------ MODULE ArcticStore ------------------------------
(***************************************************************************)
(* The ArcticDB store (data/store_arctic.py).  Every call of the library   *)
(* runs in a thread of its own turn (asyncio.to_thread): a read, an append *)
(* and a deletion first ask whether the symbol exists and then act, and    *)
(* other clients come in between.  The library is external: each call of   *)
(* it takes effect at once or fails without effect.                        *)
(***************************************************************************)
EXTENDS Naturals, Sequences, FiniteSets

CONSTANTS Client, Symbol, Frame, Period,   \* as in MemoryStore
          MaxCalls                         \* bound on the calls of all clients

ASSUME StoreAssumption == Frame \subseteq Seq(Nat) /\ MaxCalls \in Nat

VARIABLES lib,        \* the library: rows of the symbols that exist
          call,       \* the call a client has begun
          answer,     \* what its last call returned or raised
          checked,    \* clients that found their symbol and have yet to act
          overtaken,  \* history: those of them whose symbol was deleted since
          begun       \* number of calls so far

storeVars == <<lib, call, answer, checked, overtaken, begun>>

Memory == INSTANCE MemoryStore WITH data <- lib

DataError == <<"DataError">>

StoreInit == /\ Memory!MemoryInit
        /\ checked = {} /\ overtaken = {} /\ begun = 0

StoreTypeOK == /\ DOMAIN lib \subseteq Symbol
          /\ call \in [Client -> Memory!Call \cup {Memory!NoCall}]
          /\ DOMAIN answer = Client
          /\ checked \subseteq Client /\ overtaken \subseteq checked
          /\ begun \in 0 .. MaxCalls

--------------------------------------------------------------------------------
Begin(c) ==
  /\ begun < MaxCalls /\ begun' = begun + 1
  /\ \E cl \in Memory!Call : Memory!Begin(c, cl)
  /\ UNCHANGED <<checked, overtaken>>

\* The call is over.
Answers(c, value) ==
  /\ Memory!Answers(c, value)
  /\ checked' = checked \ {c} /\ overtaken' = overtaken \ {c}
  /\ UNCHANGED begun

\* Mutant: append() leaves it to the library to find the symbol.
Check_AppendGoesOn(c) ==
  /\ call[c].op \in {"read", "append", "delete", "has_symbol"} /\ c \notin checked
  /\ UNCHANGED lib
  /\ LET exists == Memory!Has(lib, call[c].symbol) \/ call[c].op = "append"
     IN CASE call[c].op = "has_symbol" -> Answers(c, Memory!Is(exists))
          [] call[c].op # "has_symbol" /\ exists ->
               /\ checked' = checked \cup {c}
               /\ UNCHANGED <<call, answer, overtaken, begun>>
          [] call[c].op = "delete" /\ ~exists -> Answers(c, Memory!Done)
          [] OTHER -> Answers(c, Memory!NotFound)

\* has_symbol(), called for itself or at the head of another method.
Check(c) ==
  /\ call[c].op \in {"read", "append", "delete", "has_symbol"} /\ c \notin checked
  /\ UNCHANGED lib
  /\ LET exists == Memory!Has(lib, call[c].symbol)
     IN CASE call[c].op = "has_symbol" -> Answers(c, Memory!Is(exists))
          [] call[c].op # "has_symbol" /\ exists ->
               /\ checked' = checked \cup {c}
               /\ UNCHANGED <<call, answer, overtaken, begun>>
          [] call[c].op = "delete" /\ ~exists -> Answers(c, Memory!Done)
          [] OTHER -> Answers(c, Memory!NotFound)

\* lib.write
Write(c) ==
  /\ call[c].op = "write"
  /\ lib' = Memory!With(lib, call[c].symbol, call[c].frame)
  /\ Answers(c, Memory!Done)

\* lib.read; of a symbol that is gone it raises.
Read(c) ==
  /\ c \in checked /\ call[c].op = "read"
  /\ Answers(c, IF Memory!Has(lib, call[c].symbol)
                THEN Memory!Rows(Memory!Within(lib[call[c].symbol], call[c].period))
                ELSE DataError)
  /\ UNCHANGED lib

\* lib.append takes rows that do not begin before the last one; a symbol that is
\* gone is made anew.
AppendRows(c) ==
  /\ c \in checked /\ call[c].op = "append"
  /\ LET s == call[c].symbol
         rows == (IF Memory!Has(lib, s) THEN lib[s] ELSE <<>>) \o call[c].frame
     IN /\ Memory!InOrder(rows)
        /\ lib' = Memory!With(lib, s, rows)
  /\ Answers(c, Memory!Done)

\* lib.delete; of a symbol that is gone it does nothing.
Delete(c) ==
  /\ c \in checked /\ call[c].op = "delete"
  /\ lib' = Memory!Without(lib, call[c].symbol)
  /\ Memory!Answers(c, Memory!Done)
  /\ checked' = checked \ {c}
  /\ overtaken' = (overtaken \cup {d \in checked : call[d].symbol = call[c].symbol}) \ {c}
  /\ UNCHANGED begun

\* lib.list_symbols
ListSymbols(c) ==
  /\ call[c].op = "list_symbols"
  /\ Answers(c, Memory!Symbols(DOMAIN lib))
  /\ UNCHANGED lib

\* A call of the library raises: what a method wraps and has_symbol() and
\* list_symbols() let through is one error here.
Fails(c) ==
  /\ call[c] # Memory!NoCall
  /\ Answers(c, DataError)
  /\ UNCHANGED lib

StoreNext == \E c \in Client : Begin(c) \/ Check(c) \/ Write(c) \/ Read(c) \/ AppendRows(c)
                            \/ Delete(c) \/ ListSymbols(c) \/ Fails(c)

StoreSpec == StoreInit /\ [][StoreNext]_storeVars

--------------------------------------------------------------------------------
(* Properties *)

\* What a client sees of a failed call.
Failure(c) ==
  UNCHANGED lib /\ call' = [call EXCEPT ![c] = Memory!NoCall]
    /\ answer' = [answer EXCEPT ![c] = DataError]

\* An append that a deletion overtook brings the symbol back, with its rows only.
Revival(c) ==
  /\ c \in overtaken /\ call[c].op = "append"
  /\ lib' = Memory!With(lib, call[c].symbol, call[c].frame)
  /\ Memory!Answers(c, Memory!Done)

\* Check and act in separate threads are as good as the one step of the in-memory
\* store, for any clients: but for calls that fail and then changed nothing, and
\* for the one race that shows, an append that a deletion overtakes.
ImplementsMemory ==
  [][\E c \in Client : Memory!MemoryStep(c) \/ Failure(c) \/ Revival(c)]_<<lib, call, answer>>
================================================================================
