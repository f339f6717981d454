---------------------------- MODULE DomainEvents ----------------------------
(***************************************************************************)
(* The domain event registry: the static class DomainEvents together with  *)
(* the event list every AggregateRoot keeps.  An aggregate is an object in *)
(* memory; two objects loaded from one row are two aggregates with one id. *)
(* Everything here is synchronous JavaScript, so each public call is one   *)
(* action.  addDomainEvent calls made with no await in between are one     *)
(* AddDomainEvents with several classes.                                   *)
(***************************************************************************)
EXTENDS Integers, Sequences, SequencesExt

CONSTANTS
  Aggregates,   \* AggregateRoot objects
  Ids,          \* values of UniqueEntityID
  IdOf,         \* the id of each aggregate
  Classes,      \* event class names
  Handlers,     \* subscriber callbacks
  MaxEvents     \* bound: events one aggregate raises

ASSUME IdOfAssumption == IdOf \in [Aggregates -> Ids]
ASSUME MaxEventsAssumption == MaxEvents \in Nat

VARIABLES
  markedAggregates,  \* aggregates waiting for a dispatch, oldest first
  domainEvents,      \* each aggregate's events, oldest first
  handlersMap,       \* the callbacks registered for each class
  raised,            \* history: how many events each aggregate has raised
  called             \* history: the <<handler, event>> calls made

vars == <<markedAggregates, domainEvents, handlersMap, raised, called>>

Events == [from : Aggregates, class : Classes, n : 1..MaxEvents]

TypeOK ==
  /\ markedAggregates \in Seq(Aggregates)
  /\ domainEvents \in [Aggregates -> Seq(Events)]
  /\ handlersMap \in [Classes -> SUBSET Handlers]
  /\ raised \in [Aggregates -> 0..MaxEvents]
  /\ called \subseteq Handlers \X Events

Init ==
  /\ markedAggregates = <<>>
  /\ domainEvents = [a \in Aggregates |-> <<>>]
  /\ handlersMap = [c \in Classes |-> {}]
  /\ raised = [a \in Aggregates |-> 0]
  /\ called = {}

-----------------------------------------------------------------------------

\* The positions of markedAggregates that hold an aggregate with this id.
MarkedAt(id) == {i \in DOMAIN markedAggregates : IdOf[markedAggregates[i]] = id}

\* findMarkedAggregateByID: where Array.find stops, when MarkedAt(id) # {}.
FirstMarked(id) == CHOOSE i \in MarkedAt(id) : \A j \in MarkedAt(id) : i <= j

\* A mistaken markAggregateForDispatch that skips only the same object.
MarkByObject(a) ==
  IF \E i \in DOMAIN markedAggregates : markedAggregates[i] = a
  THEN markedAggregates
  ELSE Append(markedAggregates, a)

\* markAggregateForDispatch: nothing happens when ANY aggregate with the same
\* id is marked, this one or another copy.
Mark(a) ==
  IF MarkedAt(IdOf[a]) # {}
  THEN markedAggregates
  ELSE Append(markedAggregates, a)

\* An addDomainEvent that numbers its events from zero.
NewEventsFromZero(a, cs) ==
  [k \in DOMAIN cs |-> [from |-> a, class |-> cs[k], n |-> raised[a] + k - 1]]

\* The events a raises when it calls addDomainEvent once for each class of cs.
NewEvents(a, cs) ==
  [k \in DOMAIN cs |-> [from |-> a, class |-> cs[k], n |-> raised[a] + k]]

AddDomainEvents(a, cs) ==
  /\ cs # <<>>
  /\ raised[a] + Len(cs) <= MaxEvents
  /\ domainEvents' = [domainEvents EXCEPT ![a] = @ \o NewEvents(a, cs)]
  /\ markedAggregates' = Mark(a)
  /\ raised' = [raised EXCEPT ![a] = @ + Len(cs)]
  /\ UNCHANGED <<handlersMap, called>>

\* The calls that dispatching the events of a makes: an event whose class has
\* no callback is dropped.
CallsFor(a) ==
  {call \in Handlers \X Range(domainEvents[a]) :
     call[1] \in handlersMap[call[2].class]}

\* A mistaken dispatch that forgets clearEvents.
DispatchKeepingEvents(id) ==
  IF MarkedAt(id) = {} THEN UNCHANGED vars
  ELSE LET a == markedAggregates[FirstMarked(id)] IN
       /\ called' = called \cup CallsFor(a)
       /\ markedAggregates' = RemoveAt(markedAggregates, FirstMarked(id))
       /\ UNCHANGED <<domainEvents, handlersMap, raised>>

\* A mistaken dispatch that leaves the aggregate on the list.
DispatchKeepingMark(id) ==
  IF MarkedAt(id) = {} THEN UNCHANGED vars
  ELSE LET a == markedAggregates[FirstMarked(id)] IN
       /\ called' = called \cup CallsFor(a)
       /\ domainEvents' = [domainEvents EXCEPT ![a] = <<>>]
       /\ UNCHANGED <<markedAggregates, handlersMap, raised>>

\* dispatchEventsForAggregate: the callbacks are started, not awaited, so
\* nothing they do later belongs to this step.
DispatchEventsForAggregate(id) ==
  IF MarkedAt(id) = {} THEN UNCHANGED vars
  ELSE LET a == markedAggregates[FirstMarked(id)] IN
       /\ called' = called \cup CallsFor(a)
       /\ domainEvents' = [domainEvents EXCEPT ![a] = <<>>]
       /\ markedAggregates' = RemoveAt(markedAggregates, FirstMarked(id))
       /\ UNCHANGED <<handlersMap, raised>>

\* register.  Each subscriber is built once per process, so no callback is
\* pushed twice and the order of callbacks does not matter.
Register(h, c) ==
  /\ h \notin handlersMap[c]
  /\ handlersMap' = [handlersMap EXCEPT ![c] = @ \cup {h}]
  /\ UNCHANGED <<markedAggregates, domainEvents, raised, called>>

ClearHandlers ==
  /\ handlersMap' = [c \in Classes |-> {}]
  /\ UNCHANGED <<markedAggregates, domainEvents, raised, called>>

ClearMarkedAggregates ==
  /\ markedAggregates' = <<>>
  /\ UNCHANGED <<domainEvents, handlersMap, raised, called>>

\* The process restarts: the class is loaded afresh and every object is gone.
Restart ==
  /\ markedAggregates' = <<>>
  /\ domainEvents' = [a \in Aggregates |-> <<>>]
  /\ handlersMap' = [c \in Classes |-> {}]
  /\ UNCHANGED <<raised, called>>

Next ==
  \/ \E a \in Aggregates, c \in Classes : AddDomainEvents(a, <<c>>)
  \/ \E a \in Aggregates, c, d \in Classes : AddDomainEvents(a, <<c, d>>)
  \/ \E id \in Ids : DispatchEventsForAggregate(id)
  \/ \E h \in Handlers, c \in Classes : Register(h, c)
  \/ ClearHandlers
  \/ ClearMarkedAggregates
  \/ Restart

Spec == Init /\ [][Next]_vars

-----------------------------------------------------------------------------

\* At most one marked aggregate per id, so that the search by id of a dispatch
\* has one possible answer and one dispatch empties the list of that id.
OneMarkPerId ==
  \A i, j \in DOMAIN markedAggregates :
    IdOf[markedAggregates[i]] = IdOf[markedAggregates[j]] => i = j

\* No aggregate sits on the list with nothing to dispatch: a mark always means
\* events are owed.
MarkedOwesEvents ==
  \A i \in DOMAIN markedAggregates : domainEvents[markedAggregates[i]] # <<>>

\* An aggregate's list is always its latest events, in the order raised.
BacklogIsLatest ==
  \A a \in Aggregates :
    LET backlog == domainEvents[a] IN
    /\ Len(backlog) <= raised[a]
    /\ \A k \in DOMAIN backlog :
         /\ backlog[k].from = a
         /\ backlog[k].n = raised[a] - Len(backlog) + k

\* A callback has been called for an event only if that event, and every older
\* one of the aggregate, is off the list: no event reaches a callback twice
\* and none is overtaken by a later one of its aggregate.
NoRedelivery ==
  \A call \in called :
    LET e == call[2] IN e.n <= raised[e.from] - Len(domainEvents[e.from])

\* A dispatch leaves no aggregate of that id marked, whichever copy's save
\* asked for it.
DispatchUnmarks ==
  [][\A id \in Ids :
       DispatchEventsForAggregate(id) =>
         \A i \in DOMAIN markedAggregates' : IdOf[markedAggregates'[i]] # id]_vars

Delivery == INSTANCE EventDelivery WITH owed <- domainEvents

\* The registry keeps the promise of EventDelivery: marks, ids and copies of
\* one row notwithstanding, a dispatch that takes a mark off the list delivers
\* the whole box of exactly one aggregate, and no other step but a restart
\* empties one.
DeliverySpec == Delivery!Spec

=============================================================================
