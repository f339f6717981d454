---------------------------- MODULE EventDelivery ----------------------------
(***************************************************************************)
(* What the event registry promises, whatever its marks, ids and maps do:  *)
(* each aggregate has a box of owed events.  Raised events go to the end   *)
(* of it; a delivery takes the whole box of one aggregate, in one step, to *)
(* the callbacks that hear each class; a box is emptied undelivered only   *)
(* together with every other, when the process ends.                       *)
(***************************************************************************)
EXTENDS Integers, Sequences

CONSTANTS Aggregates, Classes, Handlers, MaxEvents

VARIABLES
  owed,    \* the events of each aggregate still to be delivered, oldest first
  raised,  \* how many events each aggregate has raised
  called   \* the <<handler, event>> calls made

vars == <<owed, raised, called>>

Init ==
  /\ owed = [a \in Aggregates |-> <<>>]
  /\ raised = [a \in Aggregates |-> 0]
  /\ called = {}

Raise(a) ==
  \E n \in 1..(MaxEvents - raised[a]) : \E classes \in [1..n -> Classes] :
    /\ owed' = [owed EXCEPT ![a] = @ \o
                  [k \in 1..n |-> [from |-> a, class |-> classes[k], n |-> raised[a] + k]]]
    /\ raised' = [raised EXCEPT ![a] = @ + n]
    /\ UNCHANGED called

\* One event for all of its class's callbacks or for none: heard says whose.
Deliver(a) ==
  \E heard \in [Classes -> SUBSET Handlers] :
    /\ owed[a] # <<>>
    /\ owed' = [owed EXCEPT ![a] = <<>>]
    /\ called' = called \cup
         {call \in Handlers \X {owed[a][k] : k \in DOMAIN owed[a]} :
            call[1] \in heard[call[2].class]}
    /\ UNCHANGED raised

Lose ==
  /\ owed' = [a \in Aggregates |-> <<>>]
  /\ UNCHANGED <<raised, called>>

Next ==
  \/ \E a \in Aggregates : Raise(a) \/ Deliver(a)
  \/ Lose

Spec == Init /\ [][Next]_vars

=============================================================================
