---------------------------- MODULE PriorityLanes ----------------------------
(***************************************************************************)
(* What publishers and subscribers rely on when they use the event bus:    *)
(* one FIFO lane per priority level, served most urgent lane first, each   *)
(* accepted message delivered at most once.  The heap ordered by           *)
(* (priority, sequence) of sysls.core.bus is shown to implement it.        *)
(***************************************************************************)
EXTENDS Naturals, Sequences

CONSTANTS Level,      \* the priority levels, numbers: smaller is more urgent
          Message     \* what travels on the bus

VARIABLES lanes,      \* lanes[p]: messages accepted at level p, oldest first
          delivered   \* messages handed to the subscribers, in order

TypeOK == /\ lanes \in [Level -> Seq(Message)]
          /\ delivered \in Seq(Message)

Init == /\ lanes = [p \in Level |-> <<>>]
        /\ delivered = <<>>

Accept(p, m) == /\ lanes' = [lanes EXCEPT ![p] = Append(@, m)]
                /\ UNCHANGED delivered

Deliver(p) == /\ lanes[p] # <<>>
              /\ \A q \in Level : q < p => lanes[q] = <<>>
              /\ delivered' = Append(delivered, Head(lanes[p]))
              /\ lanes' = [lanes EXCEPT ![p] = Tail(@)]

Next == \E p \in Level : Deliver(p) \/ \E m \in Message : Accept(p, m)

Spec == Init /\ [][Next]_<<lanes, delivered>>
==============================================================================
