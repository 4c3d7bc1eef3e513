------------------------------ MODULE MCEventBus ------------------------------
(* EventBus with the order events the execution layer publishes.           *)
EXTENDS EventBus

MCEventType == {"OrderAccepted", "FillEvent", "PositionEvent"}
MCClass == MCEventType \cup {"OrderEvent", "Event"}
MCMRO == [t \in MCEventType |->
            IF t = "OrderAccepted" THEN <<t, "OrderEvent", "Event">> ELSE <<t, "Event">>]

\* A fill handler that publishes, and one subscribed to everything.
MCSub == {"onFill", "onAny"}
MCSubClass == [h \in MCSub |-> IF h = "onFill" THEN "FillEvent" ELSE "Event"]
MCReaction == [h \in MCSub |-> IF h = "onFill" THEN "PositionEvent" ELSE NoEvent]

\* The fill handler alone, and the events it is about.
MCFillEventType == {"FillEvent", "PositionEvent"}
MCFillMRO == [t \in MCFillEventType |-> MCMRO[t]]
MCFillSub == {"onFill"}
MCFillSubClass == [h \in MCFillSub |-> MCSubClass[h]]
MCFillReaction == [h \in MCFillSub |-> MCReaction[h]]

\* The publish() calls are interchangeable.
PublisherSymmetry == Permutations(Publisher)
===============================================================================
