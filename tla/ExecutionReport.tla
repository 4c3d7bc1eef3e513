---------------------------- MODULE ExecutionReport ----------------------------
(***************************************************************************)
(* What trading code relies on when it asks the OMS what was executed: the *)
(* OMS lags behind the venue but never runs ahead of it, never forgets an  *)
(* execution and never counts one twice, order by order and in the net     *)
(* position.                                                               *)
(***************************************************************************)
EXTENDS Integers

CONSTANTS Order, Size   \* Size[o]: the quantity ordered

VARIABLES executed,     \* what the venue has executed of each order
          reported      \* what the OMS knows to be executed

Init == /\ executed = [o \in Order |-> 0]
        /\ reported = [o \in Order |-> 0]

Execute(o, q) == /\ q > 0 /\ executed[o] + q <= Size[o]
                 /\ executed' = [executed EXCEPT ![o] = @ + q]
                 /\ UNCHANGED reported

Report(o, q) == /\ q > 0 /\ reported[o] + q <= executed[o]
                /\ reported' = [reported EXCEPT ![o] = @ + q]
                /\ UNCHANGED executed

Next == \E o \in Order : \E q \in 1 .. Size[o] : Execute(o, q) \/ Report(o, q)

Spec == Init /\ [][Next]_<<executed, reported>>
===============================================================================
