---------------------------- MODULE OrderLifecycle ----------------------------
(***************************************************************************)
(* The order state machine of the order management system (oms.py): the    *)
(* transition table and what each order event does to an OrderState.       *)
(* Quantities are integers; time stamps and the average fill price, which  *)
(* no other state depends on, are left out.                                *)
(***************************************************************************)
EXTENDS Integers

OrderStatus == {"PENDING", "SUBMITTED", "ACCEPTED", "PARTIALLY_FILLED",
                "FILLED", "CANCELLED", "REJECTED", "EXPIRED"}

\* Mutant: an order must be acknowledged before it can be filled.
ValidTransitions_AcceptFirst ==
  {<<"PENDING", t>> : t \in {"SUBMITTED", "REJECTED"}} \cup
  {<<"SUBMITTED", t>> : t \in {"ACCEPTED", "REJECTED", "CANCELLED"}} \cup
  {<<"ACCEPTED", t>> : t \in {"PARTIALLY_FILLED", "FILLED", "CANCELLED", "REJECTED"}} \cup
  {<<"PARTIALLY_FILLED", t>> : t \in {"PARTIALLY_FILLED", "FILLED", "CANCELLED"}}

\* _VALID_TRANSITIONS, as a relation.
ValidTransitions ==
  {<<"PENDING", t>> : t \in {"SUBMITTED", "REJECTED"}} \cup
  {<<"SUBMITTED", t>> : t \in {"ACCEPTED", "REJECTED", "CANCELLED",
                               "PARTIALLY_FILLED", "FILLED"}} \cup
  {<<"ACCEPTED", t>> : t \in {"PARTIALLY_FILLED", "FILLED", "CANCELLED", "REJECTED"}} \cup
  {<<"PARTIALLY_FILLED", t>> : t \in {"PARTIALLY_FILLED", "FILLED", "CANCELLED"}}

IsValidTransition(s, t) == <<s, t>> \in ValidTransitions

Terminal == {s \in OrderStatus : \A t \in OrderStatus : ~ IsValidTransition(s, t)}

Cancellable == {"SUBMITTED", "ACCEPTED", "PARTIALLY_FILLED"}

OrderState == [status : OrderStatus, venueIdKnown : BOOLEAN, filled : Nat]

NewOrder == [status |-> "PENDING", venueIdKnown |-> FALSE, filled |-> 0]

\* An event whose status is not a legal successor leaves the status alone.
Transition(state, t) ==
  [state EXCEPT !.status = IF IsValidTransition(@, t) THEN t ELSE @]

\* The filled quantity grows whatever the status is.
AfterFill(state, qty, t) == Transition([state EXCEPT !.filled = @ + qty], t)

AfterAccepted(state) == [Transition(state, "ACCEPTED") EXCEPT !.venueIdKnown = TRUE]

AfterRejected(state) == Transition(state, "REJECTED")

AfterCancelled(state) == Transition(state, "CANCELLED")

\* Mutant: an answered request counts as acknowledged.
AfterSubmit_Accepted(state) == [state EXCEPT !.status = "ACCEPTED", !.venueIdKnown = TRUE]

\* The call of the venue returned: no look at the status it has by then.
AfterSubmit(state) == [state EXCEPT !.status = "SUBMITTED", !.venueIdKnown = TRUE]

\* Mutant: an exception that may be temporary leaves the order working.
AfterFailedSubmit_Hopes(state) == [state EXCEPT !.status = "SUBMITTED"]

AfterFailedSubmit(state) == [state EXCEPT !.status = "REJECTED"]
===============================================================================
