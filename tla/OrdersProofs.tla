---------------------------- MODULE OrdersProofs ----------------------------
(***************************************************************************)
(* Proofs about Orders, for any requests, orders, users, photos and calls. *)
(***************************************************************************)
EXTENDS Orders, TLAPS

\* The proofs about the registry, with the parameters Orders gives it.
RegistryProofs == INSTANCE DomainEventsProofs WITH
  Aggregates <- Objects,
  Ids <- OrderIds \cup Users,
  IdOf <- [object \in Objects |-> object[2]],
  Classes <- EventClasses,
  Handlers <- {"notify"},
  MaxEvents <- 2

-----------------------------------------------------------------------------

(* The inductive invariant, part by part. *)

\* TypeOK without the registry's and the history.
TableTypes ==
  /\ orders \in [OrderIds -> Rows \cup {NoRow}]
  /\ photoOf \in [Photos -> OrderIds \cup {NoOrder}]
  /\ users \subseteq Users
  /\ notifications \subseteq NotificationType
  /\ cache \in [OrderIds -> Rows \cup {NoRow}]
  /\ inserting \subseteq NotificationType
  /\ restarts \in 0..MaxRestarts

RequestTypes ==
  /\ call \in [Requests -> CallType \cup {NoCall}]
  /\ pc \in [Requests -> {"idle", "done"} \cup Waits]
  /\ order \in [Requests -> Rows \cup {NoRow}]
  /\ attachments \in [Requests -> [new : SUBSET Photos, removed : SUBSET Photos]]
  /\ result \in [Requests -> Results]

\* Which operation can be at which place, and what it holds there.
Fits(place, c) ==
  /\ place \in {"get", "find", "fill", "loaded"} =>
       c.op \in {"status", "edit", "delete", "get"}
  /\ place \in {"attach", "check", "raise"} => c.op = "status" /\ c.status = "DELIVERED"
  /\ place \in {"new", "removed"} => c.op = "edit"
  /\ place \in {"row", "saved"} => c.op \in {"status", "edit"}
  /\ place \in {"recipient", "courier", "insert"} => c.op = "create"
  /\ place \in {"user", "remove"} => c.op = "deleteUser"

Loaded == {"fill", "loaded", "attach", "check", "raise", "new", "removed", "row", "saved"}

ControlOf(r) ==
  /\ pc[r] = "idle" <=> call[r] = NoCall
  /\ pc[r] # "done" => result[r] = "none"
  /\ pc[r] \in Loaded => order[r] \in Rows
  /\ Fits(pc[r], call[r])

\* The copy a delivery was checked against is the copy it writes.
DeliveryOf(r) ==
  /\ pc[r] \in {"attach", "check", "raise", "row"}
  /\ call[r].op = "status" /\ call[r].status = "DELIVERED"
  /\ call[r].courier # NoUser
  => order[r].courier = call[r].courier

\* The id of a pending creation names no row and no other creation.
FreshIds ==
  /\ \A r \in Requests :
       pc[r] \in Waits /\ call[r].op = "create" => orders[call[r].order] = NoRow
  /\ \A r, q \in Requests :
       /\ call[r] # NoCall /\ call[q] # NoCall /\ r # q
       /\ call[r].op = "create" /\ call[q].op = "create"
       => call[r].order # call[q].order

\* Only a status change raises the events of an order object, as its last act
\* before the row is saved.
RaisedBySetStatus ==
  \A r \in Requests, o \in OrderIds :
    raised[<<r, o>>] > 0 =>
      /\ call[r] # NoCall
      /\ call[r].op = "status" /\ call[r].order = o
      /\ pc[r] \in {"row", "saved", "done"}
      /\ order[r] \in Rows

\* The subscriber hears of status changes alone, and those are events of orders.
OnlyOrdersAreHeard ==
  /\ \A c \in EventClasses \ {"OrderStatusChanged"} : handlersMap[c] = {}
  /\ \A object \in Objects : \A k \in DOMAIN domainEvents[object] :
       domainEvents[object][k].class = "OrderStatusChanged" => object[2] \in OrderIds

\* An order object with events is marked, or was shadowed by another copy.
BacklogMarkedOrShadowed ==
  \A r \in Requests, o \in OrderIds :
    domainEvents[<<r, o>>] # <<>> =>
      \/ RegistryProofs!IsMarked(<<r, o>>)
      \/ \E q \in Requests \ {r} : raised[<<q, o>>] > 0

\* A request answered with success leaves its own object of the order unmarked.
OwnUnmarked ==
  \A r \in Requests : result[r] = "ok" =>
    \A i \in DOMAIN markedAggregates : markedAggregates[i] # OrderOf(r)

OrdersInv ==
  /\ TableTypes
  /\ RequestTypes
  /\ RegistryProofs!IInv
  /\ \A r \in Requests : ControlOf(r)
  /\ \A r \in Requests : DeliveryOf(r)
  /\ FreshIds
  /\ RaisedBySetStatus
  /\ OnlyOrdersAreHeard
  /\ BacklogMarkedOrShadowed
  /\ OwnUnmarked
  /\ NotifiedAfterSave

-----------------------------------------------------------------------------

(* The registry as Orders uses it. *)

LEMMA RegistryAssumptions ==
  RegistryProofs!IdOfAssumption /\ RegistryProofs!MaxEventsAssumption
  BY DEF RegistryProofs!IdOfAssumption, RegistryProofs!MaxEventsAssumption, Objects

\* An operation on Orders' instance is that operation of the proved module.
LEMMA SameRegistry ==
  /\ Registry!Init => RegistryProofs!Init
  /\ \A a, cs : Registry!AddDomainEvents(a, cs) => RegistryProofs!AddDomainEvents(a, cs)
  /\ \A id : Registry!DispatchEventsForAggregate(id) =>
             RegistryProofs!DispatchEventsForAggregate(id)
  /\ \A h, c : Registry!Register(h, c) => RegistryProofs!Register(h, c)
  /\ Registry!Restart => RegistryProofs!Restart
  /\ Registry!TypeOK <=> RegistryProofs!TypeOK
  <1>1. \A id : Registry!MarkedAt(id) = RegistryProofs!MarkedAt(id)
    BY DEF Registry!MarkedAt, RegistryProofs!MarkedAt
  <1>2. \A id : Registry!FirstMarked(id) = RegistryProofs!FirstMarked(id)
    BY DEF Registry!MarkedAt, RegistryProofs!MarkedAt, Registry!FirstMarked, RegistryProofs!FirstMarked
  <1>3. \A a, cs : Registry!AddDomainEvents(a, cs) => RegistryProofs!AddDomainEvents(a, cs)
    BY DEF Registry!AddDomainEvents, RegistryProofs!AddDomainEvents,
       Registry!NewEvents, RegistryProofs!NewEvents, Registry!Mark,
       RegistryProofs!Mark, Registry!MarkedAt, RegistryProofs!MarkedAt
  <1>4. \A id : Registry!DispatchEventsForAggregate(id) =>
                RegistryProofs!DispatchEventsForAggregate(id)
    <2>1. \A a : Registry!CallsFor(a) = RegistryProofs!CallsFor(a)
      BY DEF Registry!CallsFor, RegistryProofs!CallsFor, Registry!Range, RegistryProofs!Range
    <2>2. \A f, i : Registry!RemoveAt(f, i) = RegistryProofs!RemoveAt(f, i)
      BY DEF Registry!RemoveAt, RegistryProofs!RemoveAt
    <2> QED
      BY <1>1, <1>2, <2>1, <2>2 DEF Registry!vars, RegistryProofs!vars,
         Registry!DispatchEventsForAggregate, RegistryProofs!DispatchEventsForAggregate
  <1>5. \A h, c : Registry!Register(h, c) => RegistryProofs!Register(h, c)
    BY DEF Registry!Register, RegistryProofs!Register
  <1>6. (Registry!Restart => RegistryProofs!Restart) /\ (Registry!Init => RegistryProofs!Init)
    BY DEF Registry!Restart, RegistryProofs!Restart, Registry!Init, RegistryProofs!Init
  <1>7. Registry!TypeOK <=> RegistryProofs!TypeOK
    BY DEF Registry!TypeOK, RegistryProofs!TypeOK, Registry!Events, RegistryProofs!Events
  <1> QED
    BY <1>3, <1>4, <1>5, <1>6, <1>7

-----------------------------------------------------------------------------

(* Steps of one request that leave the registry alone. *)

\* The request moves to another place, and touches no other request.
Moves(r) ==
  /\ pc[r] \in Waits
  /\ call' = call
  /\ \A q \in Requests \ {r} :
       pc'[q] = pc[q] /\ order'[q] = order[q] /\ result'[q] = result[q]

\* It raises and dispatches nothing, makes no order but the one it creates,
\* and has nothing to dispatch when it answers with success.
Quiet(r) ==
  /\ Moves(r)
  /\ UNCHANGED <<eventVars, inserting, notifications>>
  /\ result'[r] = "ok" => call[r].op # "status"
  /\ pc[r] \in {"row", "saved"} => pc'[r] \in {"saved", "done"} /\ order'[r] = order[r]
  /\ \A o \in OrderIds :
       orders[o] = NoRow /\ orders'[o] # NoRow =>
         call[r].op = "create" /\ call[r].order = o /\ pc'[r] = "done"

LEMMA Going ==
  ASSUME RequestTypes, NEW r \in Requests, NEW place \in Waits, Goto(r, place)
  PROVE  /\ pc' \in [Requests -> {"idle", "done"} \cup Waits]
         /\ pc'[r] = place
         /\ \A q \in Requests \ {r} : pc'[q] = pc[q]
         /\ result' = result
         /\ result' \in [Requests -> Results]
  BY DEF RequestTypes, Goto

LEMMA Finishing ==
  ASSUME RequestTypes, NEW r \in Requests, NEW answer \in Results, Finish(r, answer)
  PROVE  /\ pc' \in [Requests -> {"idle", "done"} \cup Waits]
         /\ pc'[r] = "done"
         /\ \A q \in Requests \ {r} : pc'[q] = pc[q]
         /\ result' \in [Requests -> Results]
         /\ result'[r] = answer
         /\ \A q \in Requests \ {r} : result'[q] = result[q]
  BY DEF RequestTypes, Finish

LEMMA CallParts ==
  ASSUME RequestTypes, NEW r \in Requests, call[r] # NoCall
  PROVE  /\ call[r] \in CallType
         /\ call[r].order \in OrderIds
         /\ call[r].status \in Statuses
         /\ call[r].courier \in Users \cup {NoUser}
         /\ call[r].recipient \in Users
         /\ call[r].slug \in Slugs
         /\ call[r].photos \subseteq Photos
  BY DEF RequestTypes, CallType

\* An object that never raised is neither marked nor owes events.
LEMMA UnraisedIsUnmarked ==
  ASSUME RegistryProofs!IInv, NEW object \in Objects, ~(raised[object] > 0)
  PROVE  ~RegistryProofs!IsMarked(object) /\ domainEvents[object] = <<>>
  <1> USE DEF RegistryProofs!IInv
  <1>1. /\ domainEvents[object] \in Seq(RegistryProofs!Events)
        /\ raised[object] \in 0..2
    BY DEF RegistryProofs!TypeOK
  <1>2. Len(domainEvents[object]) <= raised[object]
    BY DEF RegistryProofs!BacklogIsLatest
  <1>3. domainEvents[object] = <<>>
    BY <1>1, <1>2
  <1>4. ~RegistryProofs!IsMarked(object)
    BY <1>3 DEF RegistryProofs!IsMarked, RegistryProofs!MarkedOwesEvents
  <1> QED
    BY <1>3, <1>4

LEMMA QuietPreserves ==
  ASSUME OrdersInv, NEW r \in Requests, Quiet(r), TableTypes', RequestTypes',
         ControlOf(r)', DeliveryOf(r)'
  PROVE  OrdersInv'
  <1> USE DEF OrdersInv
  <1>1. /\ call' = call
        /\ \A q \in Requests \ {r} :
             pc'[q] = pc[q] /\ order'[q] = order[q] /\ result'[q] = result[q]
        /\ pc[r] \in Waits
    BY DEF Quiet, Moves
  <1>2. UNCHANGED eventVars
    BY DEF Quiet
  <1>3. RegistryProofs!IInv'
    BY <1>2, RegistryAssumptions, RegistryProofs!StepPreserves
       DEF eventVars, RegistryProofs!vars
  <1>4. \A q \in Requests : ControlOf(q)'
    BY <1>1 DEF ControlOf
  <1>5. \A q \in Requests : DeliveryOf(q)'
    BY <1>1 DEF DeliveryOf
  <1>6. FreshIds'
    <2>1. ASSUME NEW q \in Requests, pc'[q] \in Waits, call[q].op = "create"
          PROVE  orders'[call[q].order] = NoRow
      <3>1. pc[q] \in Waits /\ orders[call[q].order] = NoRow
        BY <2>1, <1>1 DEF FreshIds
      <3>2. call[q].order \in OrderIds /\ call[q] # NoCall /\ call[r] # NoCall
        BY <3>1, <1>1, CallParts DEF ControlOf, Waits
      <3>3. SUFFICES ASSUME orders'[call[q].order] # NoRow PROVE FALSE
        OBVIOUS
      <3>4. call[r].op = "create" /\ call[r].order = call[q].order /\ pc'[r] = "done"
        BY <3>1, <3>2, <3>3 DEF Quiet
      <3>5. q # r
        BY <2>1, <3>4 DEF Waits
      <3> QED
        BY <2>1, <3>2, <3>4, <3>5 DEF FreshIds
    <2> QED
      BY <2>1, <1>1 DEF FreshIds
  <1>7. RaisedBySetStatus'
    BY <1>1, <1>2 DEF RaisedBySetStatus, Quiet, eventVars, Waits
  <1>8. OnlyOrdersAreHeard' /\ BacklogMarkedOrShadowed'
    BY <1>2 DEF eventVars, OnlyOrdersAreHeard, BacklogMarkedOrShadowed,
       RegistryProofs!IsMarked
  <1>9. OwnUnmarked'
    <2>1. ASSUME NEW q \in Requests, result'[q] = "ok"
          PROVE  ~RegistryProofs!IsMarked(OrderOf(q))
      <3>1. CASE q # r
        BY <2>1, <3>1, <1>1 DEF OwnUnmarked, RegistryProofs!IsMarked
      <3>2. CASE q = r
        <4>1. call[r].op # "status" /\ call[r].order \in OrderIds
          BY <2>1, <3>2, <1>1, CallParts DEF Quiet, ControlOf, Waits
        <4>2. ~(raised[<<r, call[r].order>>] > 0)
          BY <4>1 DEF RaisedBySetStatus
        <4> QED
          BY <4>1, <4>2, <3>2, UnraisedIsUnmarked DEF Objects, OrderOf
      <3> QED
        BY <3>1, <3>2
    <2> QED
      BY <2>1, <1>1, <1>2 DEF OwnUnmarked, OrderOf, eventVars, RegistryProofs!IsMarked
  <1>10. NotifiedAfterSave'
    BY <1>1 DEF NotifiedAfterSave, Quiet, ControlOf, Waits
  <1> QED
    BY <1>3, <1>4, <1>5, <1>6, <1>7, <1>8, <1>9, <1>10

\* A quiet step to another place.
LEMMA Advance ==
  ASSUME OrdersInv, NEW r \in Requests, NEW place \in Waits,
         pc[r] \in Waits, Goto(r, place), Fits(place, call[r]),
         UNCHANGED <<call, inserting, notifications, eventVars>>,
         TableTypes',
         order' \in [Requests -> Rows \cup {NoRow}],
         \A q \in Requests \ {r} : order'[q] = order[q],
         attachments' \in [Requests -> [new : SUBSET Photos, removed : SUBSET Photos]],
         place \in Loaded => order'[r] \in Rows,
         pc[r] \in {"row", "saved"} => place = "saved" /\ order'[r] = order[r],
         place \in {"attach", "check", "raise", "row"} =>
           \/ pc[r] \in {"attach", "check", "raise"} /\ order'[r] = order[r]
           \/ call[r].op # "status" \/ call[r].status # "DELIVERED"
           \/ call[r].courier = NoUser \/ order'[r].courier = call[r].courier,
         \A o \in OrderIds : orders[o] = NoRow => orders'[o] = NoRow
  PROVE  OrdersInv'
  <1> USE DEF OrdersInv
  <1>1. /\ pc' \in [Requests -> {"idle", "done"} \cup Waits]
        /\ pc'[r] = place
        /\ \A q \in Requests \ {r} : pc'[q] = pc[q]
        /\ result' = result
    BY Going
  <1>2. RequestTypes'
    BY <1>1 DEF RequestTypes
  <1>3. ControlOf(r)'
    BY <1>1 DEF ControlOf, Waits, Fits
  <1>4. DeliveryOf(r)'
    BY <1>1 DEF DeliveryOf
  <1>5. Quiet(r)
    <2>1. result'[r] # "ok"
      BY <1>1 DEF ControlOf, Waits
    <2> QED
      BY <2>1, <1>1 DEF Quiet, Moves
  <1> QED
    BY <1>2, <1>3, <1>4, <1>5, QuietPreserves

\* A quiet step that answers the request.
LEMMA Answer ==
  ASSUME OrdersInv, NEW r \in Requests, NEW answer \in Results,
         pc[r] \in Waits, Finish(r, answer),
         UNCHANGED <<call, order, attachments, inserting, notifications, eventVars>>,
         TableTypes',
         answer = "ok" => call[r].op # "status",
         \A o \in OrderIds : orders[o] = NoRow /\ orders'[o] # NoRow =>
           call[r].op = "create" /\ call[r].order = o
  PROVE  OrdersInv'
  <1> USE DEF OrdersInv
  <1>1. /\ pc' \in [Requests -> {"idle", "done"} \cup Waits]
        /\ pc'[r] = "done"
        /\ \A q \in Requests \ {r} : pc'[q] = pc[q]
        /\ result' \in [Requests -> Results]
        /\ result'[r] = answer
        /\ \A q \in Requests \ {r} : result'[q] = result[q]
    BY Finishing
  <1>2. RequestTypes'
    BY <1>1 DEF RequestTypes
  <1>3. ControlOf(r)'
    BY <1>1 DEF ControlOf, Waits, Fits, Loaded
  <1>4. DeliveryOf(r)'
    BY <1>1 DEF DeliveryOf
  <1>5. Quiet(r)
    BY <1>1 DEF Quiet, Moves
  <1> QED
    BY <1>2, <1>3, <1>4, <1>5, QuietPreserves

-----------------------------------------------------------------------------

(* The quiet actions. *)

LEMMA VerifyRolePreserves ==
  ASSUME OrdersInv, NEW r \in Requests, VerifyRole(r)
  PROVE  OrdersInv'
  <1> USE DEF OrdersInv
  <1>1. /\ pc[r] = "auth" /\ pc[r] \in Waits
        /\ UNCHANGED <<dbVars, cache, call, order, attachments, inserting, restarts, eventVars>>
    BY DEF VerifyRole, Waits
  <1>2. TableTypes'
    BY <1>1 DEF TableTypes, dbVars
  <1>3. UNCHANGED <<orders, notifications>>
    BY <1>1 DEF dbVars
  <1>4. call[r] \in CallType /\ call[r].op \in Ops
    BY <1>1, CallParts DEF ControlOf, Waits, CallType
  <1>5. CASE Finish(r, "unauthorized")
    BY <1>1, <1>2, <1>3, <1>5, Answer DEF Results
  <1>6. ASSUME NEW place \in {"recipient", "user", "get"}, Goto(r, place), Fits(place, call[r])
        PROVE  OrdersInv'
    BY <1>1, <1>2, <1>3, <1>6, Advance DEF Waits, Loaded, RequestTypes
  <1>7. CASE call[r].op = "create" /\ Goto(r, "recipient")
    BY <1>6, <1>7 DEF Fits
  <1>8. CASE call[r].op = "deleteUser" /\ Goto(r, "user")
    BY <1>6, <1>8 DEF Fits
  <1>9. CASE call[r].op \notin {"create", "deleteUser"} /\ Goto(r, "get")
    BY <1>4, <1>6, <1>9 DEF Fits, Ops
  <1> QED
    BY <1>4, <1>5, <1>7, <1>8, <1>9 DEF VerifyRole, Ops

\* findById keeps what it finds: a row of the table or of the cache.
LEMMA ToDomainIsRow ==
  ASSUME NEW row \in Rows
  PROVE  ToDomain(row) \in Rows
  BY DEF ToDomain, Rows, Statuses

LEMMA CacheGetPreserves ==
  ASSUME OrdersInv, NEW r \in Requests, CacheGet(r)
  PROVE  OrdersInv'
  <1> USE DEF OrdersInv
  <1> DEFINE entry == cache[call[r].order]
  <1>1. /\ pc[r] = "get" /\ pc[r] \in Waits
        /\ UNCHANGED <<dbVars, cache, call, attachments, inserting, restarts, eventVars>>
    BY DEF CacheGet, Waits
  <1>2. TableTypes' /\ UNCHANGED <<orders, notifications>>
    BY <1>1 DEF TableTypes, dbVars
  <1>3. entry \in Rows \cup {NoRow} /\ Fits("find", call[r]) /\ Fits("loaded", call[r])
    BY <1>1, CallParts DEF ControlOf, Fits, TableTypes
  <1>4. CASE entry = NoRow
    <2>1. Goto(r, "find") /\ order' = order
      BY <1>4 DEF CacheGet
    <2> QED
      BY <1>1, <1>2, <1>3, <2>1, Advance DEF Waits, Loaded, RequestTypes
  <1>5. CASE entry # NoRow
    <2>1. Goto(r, "loaded") /\ order' = [order EXCEPT ![r] = ToDomain(entry)]
      BY <1>5 DEF CacheGet
    <2>2. ToDomain(entry) \in Rows
      BY <1>3, <1>5, ToDomainIsRow
    <2> QED
      BY <1>1, <1>2, <1>3, <2>1, <2>2, Advance DEF Waits, Loaded, RequestTypes
  <1> QED
    BY <1>4, <1>5

LEMMA FindRowPreserves ==
  ASSUME OrdersInv, NEW r \in Requests, FindRow(r)
  PROVE  OrdersInv'
  <1> USE DEF OrdersInv
  <1> DEFINE row == orders[call[r].order]
  <1>1. /\ pc[r] = "find" /\ pc[r] \in Waits
        /\ UNCHANGED <<dbVars, cache, call, attachments, inserting, restarts, eventVars>>
    BY DEF FindRow, Waits
  <1>2. TableTypes' /\ UNCHANGED <<orders, notifications>>
    BY <1>1 DEF TableTypes, dbVars
  <1>3. row \in Rows \cup {NoRow} /\ Fits("fill", call[r])
    BY <1>1, CallParts DEF ControlOf, Fits, TableTypes
  <1>4. CASE row = NoRow
    <2>1. Finish(r, "notFound") /\ order' = order
      BY <1>4 DEF FindRow
    <2> QED
      BY <1>1, <1>2, <2>1, Answer DEF Results
  <1>5. CASE row # NoRow
    <2>1. Goto(r, "fill") /\ order' = [order EXCEPT ![r] = row]
      BY <1>5 DEF FindRow
    <2> QED
      BY <1>1, <1>2, <1>3, <1>5, <2>1, Advance DEF Waits, Loaded, RequestTypes
  <1> QED
    BY <1>4, <1>5

LEMMA CacheSetPreserves ==
  ASSUME OrdersInv, NEW r \in Requests, CacheSet(r)
  PROVE  OrdersInv'
  <1> USE DEF OrdersInv
  <1>1. /\ pc[r] = "fill" /\ pc[r] \in Waits
        /\ cache' = [cache EXCEPT ![call[r].order] = order[r]]
        /\ order' = [order EXCEPT ![r] = ToDomain(order[r])]
        /\ Goto(r, "loaded")
        /\ UNCHANGED <<dbVars, call, attachments, inserting, restarts, eventVars>>
    BY DEF CacheSet, Waits, RequestTypes
  <1>2. order[r] \in Rows /\ ToDomain(order[r]) \in Rows /\ Fits("loaded", call[r])
    BY <1>1, ToDomainIsRow DEF ControlOf, Fits, Loaded
  <1>3. TableTypes' /\ UNCHANGED <<orders, notifications>>
    BY <1>1, <1>2 DEF TableTypes, dbVars
  <1> QED
    BY <1>1, <1>2, <1>3, Advance DEF Waits, Loaded, RequestTypes

LEMMA StartDeliveryPreserves ==
  ASSUME OrdersInv, NEW r \in Requests, StartDelivery(r)
  PROVE  OrdersInv'
  <1> USE DEF OrdersInv
  <1>1. /\ pc[r] = "loaded" /\ pc[r] \in Waits
        /\ call[r].op = "status" /\ call[r].status = "DELIVERED"
        /\ UNCHANGED <<dbVars, cache, call, order, attachments, inserting, restarts, eventVars>>
    BY DEF StartDelivery, Waits
  <1>2. TableTypes' /\ UNCHANGED <<orders, notifications>>
    BY <1>1 DEF TableTypes, dbVars
  <1>3. order[r] \in Rows /\ Fits("attach", call[r])
    BY <1>1 DEF ControlOf, Fits, Loaded
  <1>4. CASE call[r].courier # NoUser /\ order[r].courier # call[r].courier
    <2>1. Finish(r, "notAllowed")
      BY <1>4 DEF StartDelivery
    <2> QED
      BY <1>1, <1>2, <2>1, Answer DEF Results
  <1>5. CASE call[r].courier = NoUser \/ order[r].courier = call[r].courier
    <2>1. Goto(r, "attach")
      BY <1>5 DEF StartDelivery
    <2> QED
      BY <1>1, <1>2, <1>3, <1>5, <2>1, Advance DEF Waits, RequestTypes
  <1> QED
    BY <1>4, <1>5

\* createMany on behalf of any request, wherever the use case goes next.
LEMMA AttachPreserves ==
  ASSUME OrdersInv, NEW r \in Requests, NEW items \in SUBSET Photos,
         NEW next \in Waits, Attach(r, items, next), Fits(next, call[r]),
         pc[r] \in Loaded, pc[r] \notin {"row", "saved"},
         \/ pc[r] \in {"attach", "check", "raise"}
         \/ call[r].op # "status"
  PROVE  OrdersInv'
  <1> USE DEF OrdersInv
  <1>1. /\ pc[r] \in Waits
        /\ order[r] \in Rows
        /\ call[r] # NoCall
        /\ UNCHANGED <<orders, users, notifications, cache, call, order, attachments,
                       inserting, restarts, eventVars>>
    BY DEF Attach, Waits, Loaded, ControlOf
  <1>2. call[r].order \in OrderIds
    BY <1>1, CallParts
  <1>3. CASE items # {} /\ orders[call[r].order] = NoRow
    <2>1. Finish(r, "error") /\ photoOf' = photoOf
      BY <1>3 DEF Attach
    <2>2. TableTypes'
      BY <1>1, <2>1 DEF TableTypes
    <2> QED
      BY <1>1, <2>1, <2>2, Answer DEF Results
  <1>4. CASE ~(items # {} /\ orders[call[r].order] = NoRow)
    <2>1. /\ Goto(r, next)
          /\ photoOf' = [p \in Photos |-> IF p \in items THEN call[r].order ELSE photoOf[p]]
      BY <1>4 DEF Attach
    <2>2. TableTypes'
      BY <1>1, <1>2, <2>1 DEF TableTypes
    <2> QED
      BY <1>1, <2>1, <2>2, Advance DEF RequestTypes
  <1> QED
    BY <1>3, <1>4

LEMMA AttachProofPreserves ==
  ASSUME OrdersInv, NEW r \in Requests, AttachProof(r)
  PROVE  OrdersInv'
  <1>1. pc[r] = "attach" /\ Attach(r, call[r].photos, "check") /\ call[r] # NoCall
    BY DEF AttachProof, OrdersInv, ControlOf
  <1>2. call[r].photos \in SUBSET Photos /\ Fits("check", call[r])
    BY <1>1, CallParts DEF OrdersInv, ControlOf, Fits
  <1> QED
    BY <1>1, <1>2, AttachPreserves DEF Waits, Loaded

LEMMA AttachNewPreserves ==
  ASSUME OrdersInv, NEW r \in Requests, AttachNew(r)
  PROVE  OrdersInv'
  <1>1. pc[r] = "new" /\ Attach(r, attachments[r].new, "removed")
    BY DEF AttachNew
  <1>2. /\ attachments[r].new \in SUBSET Photos
        /\ Fits("removed", call[r]) /\ call[r].op # "status"
    BY <1>1 DEF OrdersInv, RequestTypes, ControlOf, Fits
  <1> QED
    BY <1>1, <1>2, AttachPreserves DEF Waits, Loaded

LEMMA AttachRemovedPreserves ==
  ASSUME OrdersInv, NEW r \in Requests, AttachRemoved(r)
  PROVE  OrdersInv'
  <1>1. pc[r] = "removed" /\ Attach(r, attachments[r].removed, "row")
    BY DEF AttachRemoved
  <1>2. /\ attachments[r].removed \in SUBSET Photos
        /\ Fits("row", call[r]) /\ call[r].op # "status"
    BY <1>1 DEF OrdersInv, RequestTypes, ControlOf, Fits
  <1> QED
    BY <1>1, <1>2, AttachPreserves DEF Waits, Loaded

LEMMA CheckPhotosPreserves ==
  ASSUME OrdersInv, NEW r \in Requests, CheckPhotos(r)
  PROVE  OrdersInv'
  <1> USE DEF OrdersInv
  <1>1. /\ pc[r] = "check" /\ pc[r] \in Waits
        /\ UNCHANGED <<dbVars, cache, call, order, attachments, inserting, restarts, eventVars>>
    BY DEF CheckPhotos, Waits
  <1>2. TableTypes' /\ UNCHANGED <<orders, notifications>>
    BY <1>1 DEF TableTypes, dbVars
  <1>3. order[r] \in Rows /\ Fits("raise", call[r])
    BY <1>1 DEF ControlOf, Fits, Loaded
  <1>4. CASE Finish(r, "notAllowed")
    BY <1>1, <1>2, <1>4, Answer DEF Results
  <1>5. CASE Goto(r, "raise")
    BY <1>1, <1>2, <1>3, <1>5, Advance DEF Waits, RequestTypes
  <1> QED
    BY <1>4, <1>5 DEF CheckPhotos

LEMMA EditFieldsPreserves ==
  ASSUME OrdersInv, NEW r \in Requests, EditFields(r)
  PROVE  OrdersInv'
  <1> USE DEF OrdersInv
  <1> DEFINE list == Update(Constructed(PhotosOf(call[r].order)), call[r].photos)
             edited == [order[r] EXCEPT !.recipient = call[r].recipient,
                                        !.slug = call[r].slug]
  <1>1. /\ pc[r] = "loaded" /\ pc[r] \in Waits /\ call[r].op = "edit"
        /\ attachments' = [attachments EXCEPT ![r] = [new |-> list.new, removed |-> list.removed]]
        /\ Goto(r, IF call[r].photos = {} THEN "row" ELSE "new")
        /\ UNCHANGED <<dbVars, cache, call, inserting, restarts, eventVars>>
    BY DEF EditFields, Waits
  <1>2. order' = [order EXCEPT ![r] = edited]
    BY DEF EditFields, RequestTypes
  <1>3. TableTypes' /\ UNCHANGED <<orders, notifications>>
    BY <1>1 DEF TableTypes, dbVars
  <1>4. order[r] \in Rows /\ call[r] # NoCall
    BY <1>1 DEF ControlOf, Loaded
  <1>5. edited \in Rows
    BY <1>4, CallParts DEF Rows
  <1>6. list.new \subseteq Photos /\ list.removed \subseteq Photos
    BY <1>4, CallParts DEF Update, Constructed, PhotosOf
  <1>7. /\ order' \in [Requests -> Rows \cup {NoRow}]
        /\ order'[r] \in Rows
        /\ \A q \in Requests \ {r} : order'[q] = order[q]
        /\ attachments' \in [Requests -> [new : SUBSET Photos, removed : SUBSET Photos]]
    <2> HIDE DEF edited, list
    <2> QED
      BY <1>1, <1>2, <1>5, <1>6 DEF RequestTypes
  <1>8. ASSUME NEW place \in {"row", "new"}, Goto(r, place)
        PROVE  OrdersInv'
    <2>1. Fits(place, call[r])
      BY <1>1, <1>8 DEF Fits
    <2> HIDE DEF edited, list
    <2> QED
      BY <1>1, <1>3, <1>7, <1>8, <2>1, Advance DEF Waits
  <1> QED
    BY <1>1, <1>8

\* toPrisma of a loaded order, over the row that is there.
LEMMA WrittenIsRow ==
  ASSUME NEW r, order[r] \in Rows, NEW old \in Rows
  PROVE  /\ Written(r, old) \in Rows
         /\ order[r].courier # NoUser => Written(r, old).courier = order[r].courier
         /\ old.courier # NoUser => Written(r, old).courier # NoUser
  <1> DEFINE row == order[r]
  <1>1. Written(r, old) =
          [row EXCEPT !.courier = IF row.courier = NoUser THEN old.courier ELSE row.courier]
    BY DEF Written, Rows
  <1> HIDE DEF row
  <1>2. row \in Rows
    BY DEF row
  <1>3. /\ Written(r, old) \in Rows
        /\ Written(r, old).courier =
             IF row.courier = NoUser THEN old.courier ELSE row.courier
    BY <1>1, <1>2 DEF Rows
  <1> QED
    BY <1>3 DEF row

LEMMA SaveRowPreserves ==
  ASSUME OrdersInv, NEW r \in Requests, SaveRow(r)
  PROVE  OrdersInv'
  <1> USE DEF OrdersInv
  <1> DEFINE o == call[r].order
  <1>1. /\ pc[r] = "row" /\ pc[r] \in Waits
        /\ UNCHANGED <<photoOf, users, notifications, cache, call, order, attachments,
                       inserting, restarts, eventVars>>
    BY DEF SaveRow, Waits
  <1>2. order[r] \in Rows /\ call[r] # NoCall /\ Fits("saved", call[r])
    BY <1>1 DEF ControlOf, Loaded, Fits
  <1>3. o \in OrderIds
    BY <1>2, CallParts
  <1>4. CASE orders[o] # NoRow /\ Accepts(o, Written(r, orders[o]))
    <2>1. orders' = [orders EXCEPT ![o] = Written(r, orders[o])] /\ Goto(r, "saved")
      BY <1>4, <1>3 DEF SaveRow, TableTypes
    <2>2. Written(r, orders[o]) \in Rows
      BY <1>2, <1>3, <1>4, WrittenIsRow DEF TableTypes
    <2>3. TableTypes' /\ \A x \in OrderIds : orders[x] = NoRow => orders'[x] = NoRow
      BY <1>1, <1>3, <1>4, <2>1, <2>2 DEF TableTypes
    <2> QED
      BY <1>1, <1>2, <2>1, <2>3, Advance DEF Waits, RequestTypes
  <1>5. CASE ~(orders[o] # NoRow /\ Accepts(o, Written(r, orders[o])))
    <2>1. Finish(r, "error") /\ orders' = orders
      BY <1>5 DEF SaveRow
    <2>2. TableTypes'
      BY <1>1, <2>1 DEF TableTypes
    <2> QED
      BY <1>1, <2>1, <2>2, Answer DEF Results
  <1> QED
    BY <1>4, <1>5

LEMMA GetOrderPreserves ==
  ASSUME OrdersInv, NEW r \in Requests, GetOrder(r)
  PROVE  OrdersInv'
  <1> USE DEF OrdersInv
  <1>1. /\ pc[r] \in Waits /\ call[r].op = "get" /\ Finish(r, "ok")
        /\ UNCHANGED <<dbVars, cache, call, order, attachments, inserting, restarts, eventVars>>
    BY DEF GetOrder, Waits
  <1>2. TableTypes' /\ UNCHANGED <<orders, notifications>>
    BY <1>1 DEF TableTypes, dbVars
  <1> QED
    BY <1>1, <1>2, Answer DEF Results

LEMMA DeleteOrderPreserves ==
  ASSUME OrdersInv, NEW r \in Requests, DeleteOrder(r)
  PROVE  OrdersInv'
  <1> USE DEF OrdersInv
  <1> DEFINE o == call[r].order
  <1>1. /\ pc[r] = "loaded" /\ pc[r] \in Waits /\ call[r].op = "delete"
        /\ UNCHANGED <<users, notifications, cache, call, order, attachments, inserting,
                       restarts, eventVars>>
    BY DEF DeleteOrder, Waits
  <1>2. CASE orders[o] = NoRow
    <2>1. Finish(r, "error") /\ UNCHANGED <<orders, photoOf>>
      BY <1>2 DEF DeleteOrder
    <2>2. TableTypes'
      BY <1>1, <2>1 DEF TableTypes
    <2> QED
      BY <1>1, <2>1, <2>2, Answer DEF Results
  <1>3. CASE orders[o] # NoRow
    <2>1. /\ orders' = [orders EXCEPT ![o] = NoRow]
          /\ photoOf' = [p \in Photos |-> IF photoOf[p] = o THEN NoOrder ELSE photoOf[p]]
          /\ Finish(r, "ok")
      BY <1>3 DEF DeleteOrder
    <2>2. TableTypes' /\ \A x \in OrderIds : orders[x] = NoRow => orders'[x] = NoRow
      BY <1>1, <2>1 DEF TableTypes
    <2> QED
      BY <1>1, <2>1, <2>2, Answer DEF Results
  <1> QED
    BY <1>2, <1>3

LEMMA FindRecipientPreserves ==
  ASSUME OrdersInv, NEW r \in Requests, FindRecipient(r)
  PROVE  OrdersInv'
  <1> USE DEF OrdersInv
  <1>1. /\ pc[r] = "recipient" /\ pc[r] \in Waits
        /\ UNCHANGED <<dbVars, cache, call, order, attachments, inserting, restarts, eventVars>>
    BY DEF FindRecipient, Waits
  <1>2. TableTypes' /\ UNCHANGED <<orders, notifications>>
    BY <1>1 DEF TableTypes, dbVars
  <1>3. CASE Finish(r, "notFound")
    BY <1>1, <1>2, <1>3, Answer DEF Results
  <1>4. ASSUME NEW place \in {"insert", "courier"}, Goto(r, place)
        PROVE  OrdersInv'
    <2>1. Fits(place, call[r])
      BY <1>1, <1>4 DEF ControlOf, Fits
    <2> QED
      BY <1>1, <1>2, <1>4, <2>1, Advance DEF Waits, Loaded, RequestTypes
  <1> QED
    BY <1>3, <1>4 DEF FindRecipient

LEMMA InsertRowPreserves ==
  ASSUME OrdersInv, NEW r \in Requests, InsertRow(r)
  PROVE  OrdersInv'
  <1> USE DEF OrdersInv
  <1> DEFINE o == call[r].order
             row == [status |-> "PENDING", courier |-> call[r].courier,
                     recipient |-> call[r].recipient, slug |-> call[r].slug]
  <1>1. /\ pc[r] = "insert" /\ pc[r] \in Waits
        /\ UNCHANGED <<photoOf, users, notifications, cache, call, order, attachments,
                       inserting, restarts, eventVars>>
    BY DEF InsertRow, Waits
  <1>2. call[r] # NoCall /\ call[r].op = "create"
    BY <1>1 DEF ControlOf, Fits
  <1>3. o \in OrderIds /\ row \in Rows
    BY <1>2, CallParts DEF Rows, Statuses
  <1>4. CASE Accepts(o, row)
    <2>1. orders' = [orders EXCEPT ![o] = row] /\ Finish(r, "ok")
      BY <1>4 DEF InsertRow
    <2> HIDE DEF row
    <2>2. TableTypes' /\ \A x \in OrderIds \ {o} : orders'[x] = orders[x]
      BY <1>1, <1>3, <2>1 DEF TableTypes
    <2> QED
      BY <1>1, <1>2, <2>1, <2>2, Answer DEF Results
  <1>5. CASE ~Accepts(o, row)
    <2>1. Finish(r, "error") /\ orders' = orders
      BY <1>5 DEF InsertRow
    <2>2. TableTypes'
      BY <1>1, <2>1 DEF TableTypes
    <2> QED
      BY <1>1, <2>1, <2>2, Answer DEF Results
  <1> QED
    BY <1>4, <1>5

LEMMA RemoveUserPreserves ==
  ASSUME OrdersInv, NEW r \in Requests, RemoveUser(r)
  PROVE  OrdersInv'
  <1> USE DEF OrdersInv
  <1> DEFINE u == call[r].user
             cleared == [o \in OrderIds |->
               IF orders[o] # NoRow /\ orders[o].courier = u
               THEN [orders[o] EXCEPT !.courier = NoUser] ELSE orders[o]]
  <1>1. /\ pc[r] = "remove" /\ pc[r] \in Waits
        /\ UNCHANGED <<photoOf, notifications, cache, call, order, attachments,
                       inserting, restarts, eventVars>>
    BY DEF RemoveUser, Waits
  <1>2. call[r].op = "deleteUser"
    BY <1>1 DEF ControlOf, Fits
  <1>3. CASE Finish(r, "ok") /\ users' = users \ {u} /\ orders' = cleared
    <2>1. \A row \in Rows : [row EXCEPT !.courier = NoUser] \in Rows
      BY DEF Rows
    <2>2. /\ orders' \in [OrderIds -> Rows \cup {NoRow}]
          /\ \A o \in OrderIds : orders[o] = NoRow => orders'[o] = NoRow
      BY <1>3, <2>1 DEF TableTypes
    <2>3. TableTypes'
      BY <1>1, <1>3, <2>2 DEF TableTypes
    <2> HIDE DEF cleared
    <2> QED
      BY <1>1, <1>2, <1>3, <2>2, <2>3, Answer DEF Results
  <1>4. CASE Finish(r, "error") /\ UNCHANGED <<users, orders>>
    <2>1. TableTypes'
      BY <1>1, <1>4 DEF TableTypes
    <2> QED
      BY <1>1, <1>4, <2>1, Answer DEF Results
  <1> QED
    BY <1>3, <1>4 DEF RemoveUser

-----------------------------------------------------------------------------

(* The actions that raise events. *)

LEMMA OwnUnmarkedMeans ==
  OwnUnmarked <=>
    \A r \in Requests : result[r] = "ok" => ~RegistryProofs!IsMarked(OrderOf(r))
  BY DEF OwnUnmarked, RegistryProofs!IsMarked

\* A step that raises events of one object of the request and goes on.
LEMMA RaisePreserves ==
  ASSUME OrdersInv, NEW r \in Requests, NEW x \in OrderIds \cup Users,
         NEW cs \in Seq(EventClasses), Registry!AddDomainEvents(<<r, x>>, cs),
         NEW place \in Waits, Goto(r, place), Fits(place, call[r]),
         pc[r] \in Waits, pc[r] \notin {"row", "saved"},
         UNCHANGED <<call, orders, inserting, notifications>>,
         TableTypes', RequestTypes',
         \A q \in Requests \ {r} : order'[q] = order[q],
         place \in Loaded => order'[r] \in Rows,
         DeliveryOf(r)',
         x \in OrderIds =>
           call[r].op = "status" /\ call[r].order = x /\ place = "row",
         x \notin OrderIds => \A j \in DOMAIN cs : cs[j] # "OrderStatusChanged"
  PROVE  OrdersInv'
  <1> USE DEF OrdersInv
  <1> DEFINE a == <<r, x>>
  <1>1. a \in Objects
    BY DEF Objects
  <1>2. RegistryProofs!AddDomainEvents(a, cs)
    BY SameRegistry
  <1>3. RegistryProofs!IInv'
    BY <1>1, <1>2, RegistryAssumptions, RegistryProofs!AddDomainEventsPreserves
  <1>4. /\ UNCHANGED <<handlersMap, called>>
        /\ raised'[a] > 0
        /\ \A b \in Objects \ {a} : /\ raised'[b] = raised[b]
                                    /\ domainEvents'[b] = domainEvents[b]
        /\ \A k \in DOMAIN domainEvents'[a] :
             \/ \E j \in DOMAIN domainEvents[a] : domainEvents'[a][k] = domainEvents[a][j]
             \/ \E j \in DOMAIN cs : domainEvents'[a][k].class = cs[j]
        /\ \A b \in Objects : RegistryProofs!IsMarked(b) => RegistryProofs!IsMarked(b)'
        /\ \A b \in Objects \ {a} : RegistryProofs!IsMarked(b)' => RegistryProofs!IsMarked(b)
        /\ \/ RegistryProofs!IsMarked(a)'
           \/ \E b \in Objects \ {a} : b[2] = a[2] /\ RegistryProofs!IsMarked(b)
    BY <1>1, <1>2, RegistryAssumptions, RegistryProofs!AddDomainEventsEffect
  <1>5. /\ pc'[r] = place
        /\ \A q \in Requests \ {r} : pc'[q] = pc[q]
        /\ result' = result
    BY Going
  <1> HIDE DEF a
  <1>6. \A q \in Requests : ControlOf(q)'
    BY <1>5 DEF ControlOf, Fits, Waits
  <1>7. \A q \in Requests : DeliveryOf(q)'
    BY <1>5 DEF DeliveryOf
  <1>8. FreshIds'
    BY <1>5 DEF FreshIds, ControlOf, Fits
  <1>9. RaisedBySetStatus'
    <2> SUFFICES ASSUME NEW q \in Requests, NEW o \in OrderIds, raised'[<<q, o>>] > 0
                 PROVE  /\ call[q] # NoCall
                        /\ call[q].op = "status" /\ call[q].order = o
                        /\ pc'[q] \in {"row", "saved", "done"}
                        /\ order'[q] \in Rows
      BY DEF RaisedBySetStatus
    <2>1. CASE <<q, o>> = a
      <3>1. q = r /\ o = x
        BY <2>1 DEF a
      <3> QED
        BY <3>1, <1>5 DEF ControlOf, Waits, Loaded
    <2>2. CASE <<q, o>> # a
      <3>1. raised[<<q, o>>] > 0
        BY <2>2, <1>4 DEF Objects
      <3>2. q # r
        BY <3>1 DEF RaisedBySetStatus, Waits
      <3> QED
        BY <3>1, <3>2, <1>5 DEF RaisedBySetStatus
    <2> QED
      BY <2>1, <2>2
  <1>10. OnlyOrdersAreHeard'
    <2> SUFFICES ASSUME NEW object \in Objects, NEW k \in DOMAIN domainEvents'[object],
                        domainEvents'[object][k].class = "OrderStatusChanged"
                 PROVE  object[2] \in OrderIds
      BY <1>4 DEF OnlyOrdersAreHeard
    <2>1. CASE object = a
      BY <2>1, <1>4, <1>1 DEF OnlyOrdersAreHeard, a
    <2>2. CASE object # a
      BY <2>2, <1>4 DEF OnlyOrdersAreHeard
    <2> QED
      BY <2>1, <2>2
  <1>11. BacklogMarkedOrShadowed'
    <2> SUFFICES ASSUME NEW q \in Requests, NEW o \in OrderIds, domainEvents'[<<q, o>>] # <<>>
                 PROVE  \/ RegistryProofs!IsMarked(<<q, o>>)'
                        \/ \E p \in Requests \ {q} : raised'[<<p, o>>] > 0
      BY DEF BacklogMarkedOrShadowed
    <2>1. CASE <<q, o>> = a
      <3>1. CASE \E b \in Objects \ {a} : b[2] = a[2] /\ RegistryProofs!IsMarked(b)
        <4>1. PICK b \in Objects \ {a} : b[2] = a[2] /\ RegistryProofs!IsMarked(b)
          BY <3>1
        <4>2. raised'[b] > 0
          BY <4>1, <1>4, UnraisedIsUnmarked
        <4>3. b = <<b[1], o>> /\ b[1] \in Requests /\ b[1] # q
          BY <4>1, <2>1 DEF Objects, a
        <4> QED
          BY <4>2, <4>3
      <3> QED
        BY <3>1, <2>1, <1>4
    <2>2. CASE <<q, o>> # a
      <3>1. domainEvents[<<q, o>>] # <<>> /\ <<q, o>> \in Objects
        BY <2>2, <1>4 DEF Objects
      <3>2. CASE RegistryProofs!IsMarked(<<q, o>>)
        BY <3>1, <3>2, <1>4
      <3>3. ASSUME NEW p \in Requests \ {q}, raised[<<p, o>>] > 0
            PROVE  raised'[<<p, o>>] > 0
        BY <3>3, <1>4 DEF Objects
      <3> QED
        BY <3>1, <3>2, <3>3 DEF BacklogMarkedOrShadowed
    <2> QED
      BY <2>1, <2>2
  <1>12. OwnUnmarked'
    <2> SUFFICES ASSUME NEW q \in Requests, result[q] = "ok"
                 PROVE  ~RegistryProofs!IsMarked(OrderOf(q))'
      BY <1>5 DEF OwnUnmarked, RegistryProofs!IsMarked
    <2>1. q # r /\ call[q] # NoCall
      BY DEF ControlOf, Waits
    <2>2. OrderOf(q) \in Objects \ {a}
      BY <2>1, CallParts DEF OrderOf, Objects, a
    <2>3. ~RegistryProofs!IsMarked(OrderOf(q)) /\ OrderOf(q)' = OrderOf(q)
      BY OwnUnmarkedMeans DEF OrderOf
    <2> QED
      BY <2>2, <2>3, <1>4 DEF RegistryProofs!IsMarked
  <1>13. NotifiedAfterSave'
    BY <1>5 DEF NotifiedAfterSave
  <1> QED
    BY <1>3, <1>6, <1>7, <1>8, <1>9, <1>10, <1>11, <1>12, <1>13

\* SetStatus raises OrderStatusChanged last, and a delivery keeps its courier.
LEMMA SetStatusPreserves ==
  ASSUME OrdersInv, NEW r \in Requests, NEW reassigned \in BOOLEAN,
         SetStatus(r, reassigned),
         UNCHANGED <<dbVars, cache, call, attachments, inserting, restarts>>,
         call[r].op = "status",
         \/ pc[r] = "loaded" /\ call[r].status # "DELIVERED"
         \/ pc[r] = "raise" /\ ~reassigned
  PROVE  OrdersInv'
  <1> USE DEF OrdersInv
  <1> DEFINE x == call[r].order
             cs == IF reassigned THEN <<"CourierAssigned", "OrderStatusChanged">>
                                 ELSE <<"OrderStatusChanged">>
             changed == [order[r] EXCEPT !.status = call[r].status,
                           !.courier = IF reassigned THEN call[r].courier
                                       ELSE order[r].courier]
  <1>1. /\ pc[r] \in Waits /\ order[r] \in Rows /\ call[r] # NoCall
        /\ pc[r] \notin {"row", "saved"}
    BY DEF ControlOf, Waits, Loaded
  <1>2. x \in OrderIds /\ call[r].status \in Statuses /\ call[r].courier \in Users \cup {NoUser}
    BY <1>1, CallParts
  <1>3. Registry!AddDomainEvents(<<r, x>>, cs) /\ Goto(r, "row")
    BY DEF SetStatus, OrderOf
  <1>4. cs \in Seq(EventClasses)
    <2>1. <<"CourierAssigned", "OrderStatusChanged">> \in Seq(EventClasses)
      BY DEF EventClasses
    <2>2. <<"OrderStatusChanged">> \in Seq(EventClasses)
      BY DEF EventClasses
    <2> QED
      BY <2>1, <2>2
  <1>5. changed \in Rows /\ (~reassigned => changed.courier = order[r].courier)
    BY <1>1, <1>2 DEF Rows
  <1>6. order' = [order EXCEPT ![r] = changed]
    BY DEF SetStatus, RequestTypes
  <1> HIDE DEF changed
  <1>7. /\ order' \in [Requests -> Rows \cup {NoRow}]
        /\ order'[r] = changed
        /\ \A q \in Requests \ {r} : order'[q] = order[q]
    BY <1>5, <1>6 DEF RequestTypes
  <1>8. TableTypes' /\ UNCHANGED <<orders, notifications>>
    BY DEF TableTypes, dbVars
  <1>9. /\ pc' \in [Requests -> {"idle", "done"} \cup Waits]
        /\ pc'[r] = "row"
        /\ result' \in [Requests -> Results]
    BY <1>3, Going DEF Waits
  <1>10. RequestTypes'
    BY <1>7, <1>9 DEF RequestTypes
  <1>11. DeliveryOf(r)'
    BY <1>5, <1>7 DEF DeliveryOf
  <1>12. Fits("row", call[r])
    BY DEF Fits
  <1> HIDE DEF cs, x
  <1>13. call[r].order = x
    BY DEF x
  <1> QED
    BY <1>1, <1>2, <1>3, <1>4, <1>5, <1>7, <1>8, <1>10, <1>11, <1>12, <1>13, RaisePreserves
       DEF Waits

LEMMA ChangeStatusPreserves ==
  ASSUME OrdersInv, NEW r \in Requests, ChangeStatus(r)
  PROVE  OrdersInv'
  <1> DEFINE pickedUp == call[r].status = "PICKED_UP"
  <1>1. /\ pc[r] = "loaded" /\ pc[r] \in Waits
        /\ call[r].op = "status" /\ call[r].status # "DELIVERED"
        /\ UNCHANGED <<dbVars, cache, call, attachments, inserting, restarts>>
    BY DEF ChangeStatus, Waits
  <1>2. CASE pickedUp /\ call[r].courier = NoUser
    <2>1. Finish(r, "notAllowed") /\ UNCHANGED <<order, eventVars>>
      BY <1>2 DEF ChangeStatus
    <2>2. TableTypes' /\ UNCHANGED <<orders, notifications>>
      BY <1>1 DEF OrdersInv, TableTypes, dbVars
    <2> QED
      BY <1>1, <2>1, <2>2, Answer DEF Results
  <1>3. CASE ~(pickedUp /\ call[r].courier = NoUser)
    <2>1. PICK reassigned \in BOOLEAN : SetStatus(r, reassigned)
      BY <1>3 DEF ChangeStatus
    <2> QED
      BY <1>1, <2>1, SetStatusPreserves
  <1> QED
    BY <1>2, <1>3

LEMMA MarkDeliveredPreserves ==
  ASSUME OrdersInv, NEW r \in Requests, MarkDelivered(r)
  PROVE  OrdersInv'
  <1>1. /\ pc[r] = "raise" /\ SetStatus(r, FALSE)
        /\ UNCHANGED <<dbVars, cache, call, attachments, inserting, restarts>>
    BY DEF MarkDelivered
  <1>2. call[r].op = "status"
    BY <1>1 DEF OrdersInv, ControlOf, Fits
  <1> QED
    BY <1>1, <1>2, SetStatusPreserves

\* The registration event of a courier who is only read is not an order's.
LEMMA LoadCourierPreserves ==
  ASSUME OrdersInv, NEW r \in Requests, NEW user, NEW next \in {"insert", "remove"},
         LoadCourier(r, user, next), pc[r] \in {"courier", "user"}, Fits(next, call[r])
  PROVE  OrdersInv'
  <1> USE DEF OrdersInv
  <1>1. /\ pc[r] \in Waits /\ pc[r] \notin {"row", "saved"} /\ next \in Waits
        /\ next \notin Loaded /\ next \notin {"attach", "check", "raise", "row"}
        /\ UNCHANGED <<dbVars, cache, call, order, attachments, inserting, restarts>>
    BY DEF LoadCourier, Waits, Loaded
  <1>2. TableTypes' /\ UNCHANGED <<orders, notifications>>
    BY <1>1 DEF TableTypes, dbVars
  <1>3. CASE user \notin users
    <2>1. Finish(r, "notFound") /\ UNCHANGED eventVars
      BY <1>3 DEF LoadCourier
    <2> QED
      BY <1>1, <1>2, <2>1, Answer DEF Results
  <1>4. CASE user \in users
    <2>1. /\ Registry!AddDomainEvents(<<r, user>>, <<"CourierRegistered">>)
          /\ Goto(r, next)
      BY <1>4 DEF LoadCourier
    <2>2. user \in OrderIds \cup Users /\ user \notin OrderIds
      BY <1>4, SeparateIds DEF TableTypes
    <2>3. <<"CourierRegistered">> \in Seq(EventClasses)
      BY DEF EventClasses
    <2>4. \A j \in DOMAIN <<"CourierRegistered">> :
            <<"CourierRegistered">>[j] # "OrderStatusChanged"
      OBVIOUS
    <2>5. pc' \in [Requests -> {"idle", "done"} \cup Waits] /\ pc'[r] = next
          /\ result' \in [Requests -> Results]
      BY <1>1, <2>1, Going
    <2>6. RequestTypes'
      BY <1>1, <2>5 DEF RequestTypes
    <2>7. DeliveryOf(r)'
      BY <1>1, <2>5 DEF DeliveryOf
    <2> QED
      BY <1>1, <1>2, <2>1, <2>2, <2>3, <2>4, <2>6, <2>7, RaisePreserves
  <1> QED
    BY <1>3, <1>4

LEMMA FindCourierPreserves ==
  ASSUME OrdersInv, NEW r \in Requests, FindCourier(r)
  PROVE  OrdersInv'
  <1>1. pc[r] = "courier" /\ LoadCourier(r, call[r].courier, "insert")
    BY DEF FindCourier
  <1>2. Fits("insert", call[r])
    BY <1>1 DEF OrdersInv, ControlOf, Fits
  <1> QED
    BY <1>1, <1>2, LoadCourierPreserves

LEMMA FindUserPreserves ==
  ASSUME OrdersInv, NEW r \in Requests, FindUser(r)
  PROVE  OrdersInv'
  <1>1. pc[r] = "user" /\ LoadCourier(r, call[r].user, "remove")
    BY DEF FindUser
  <1>2. Fits("remove", call[r])
    BY <1>1 DEF OrdersInv, ControlOf, Fits
  <1> QED
    BY <1>1, <1>2, LoadCourierPreserves

-----------------------------------------------------------------------------

(* The action that dispatches. *)

\* Every call a dispatch makes is for a status change of the saved order, by a
\* request that still holds the order object it raised the event for.
LEMMA DispatchedCalls ==
  ASSUME OrdersInv, NEW id \in OrderIds, Registry!DispatchEventsForAggregate(id),
         NEW c \in called' \ called
  PROVE  /\ c[2].from \in Objects
         /\ c[2].from[2] = id
         /\ order[c[2].from[1]] \in Rows
  <1> USE DEF OrdersInv
  <1> DEFINE object == c[2].from
  <1>1. RegistryProofs!DispatchEventsForAggregate(id) /\ id \in OrderIds \cup Users
    BY SameRegistry
  <1>2. RegistryProofs!IInv'
    BY <1>1, RegistryAssumptions, RegistryProofs!DispatchPreserves
  <1>3. /\ c[1] \in handlersMap[c[2].class]
        /\ object \in Objects /\ object[2] = id
        /\ \E k \in DOMAIN domainEvents[object] : domainEvents[object][k] = c[2]
    BY <1>1, RegistryAssumptions, RegistryProofs!DispatchEffect
  <1>4. c[2].class \in EventClasses
    BY <1>2 DEF RegistryProofs!IInv, RegistryProofs!TypeOK, RegistryProofs!Events
  <1>5. c[2].class = "OrderStatusChanged"
    BY <1>3, <1>4 DEF OnlyOrdersAreHeard
  <1>6. domainEvents[object] # <<>>
    BY <1>3
  <1>7. raised[object] > 0
    BY <1>3, <1>6, UnraisedIsUnmarked
  <1>8. object[1] \in Requests /\ object = <<object[1], id>>
    BY <1>3 DEF Objects
  <1>9. order[object[1]] \in Rows
    BY <1>7, <1>8 DEF RaisedBySetStatus
  <1> QED
    BY <1>3, <1>9

LEMMA AfterSavePreserves ==
  ASSUME OrdersInv, NEW r \in Requests, AfterSave(r)
  PROVE  OrdersInv'
  <1> USE DEF OrdersInv
  <1> DEFINE id == call[r].order
             sent == {NotificationFor(c[2].from) : c \in called' \ called}
  <1>1. /\ pc[r] = "saved" /\ pc[r] \in Waits
        /\ cache' = [cache EXCEPT ![id] = NoRow]
        /\ Registry!DispatchEventsForAggregate(id)
        /\ inserting' = inserting \cup sent
        /\ Finish(r, "ok")
        /\ UNCHANGED <<dbVars, call, order, attachments, restarts>>
    BY DEF AfterSave, Waits
  <1>2. /\ call[r] # NoCall /\ call[r].op \in {"status", "edit"}
        /\ id \in OrderIds /\ id \in OrderIds \cup Users
    BY <1>1, CallParts DEF ControlOf, Fits
  <1>3. RegistryProofs!DispatchEventsForAggregate(id)
    BY <1>1, SameRegistry
  <1>4. RegistryProofs!IInv'
    BY <1>2, <1>3, RegistryAssumptions, RegistryProofs!DispatchPreserves
  <1> DEFINE unmarks == /\ UNCHANGED <<handlersMap, raised>>
                        /\ \A b \in Objects : RegistryProofs!IsMarked(b)' <=>
                             RegistryProofs!IsMarked(b) /\ b[2] # id
                        /\ \A b \in Objects : domainEvents'[b] \in {domainEvents[b], <<>>}
                        /\ \A b \in Objects :
                             RegistryProofs!IsMarked(b) /\ b[2] = id => domainEvents'[b] = <<>>
  <1>5. unmarks
    BY <1>2, <1>3, RegistryAssumptions, RegistryProofs!DispatchEffect
  <1>6. \A n \in sent : n \in NotificationType /\ n.about[2] = id
    <2> SUFFICES ASSUME NEW c \in called' \ called
                 PROVE  /\ NotificationFor(c[2].from) \in NotificationType
                        /\ NotificationFor(c[2].from).about[2] = id
      OBVIOUS
    <2>1. c[2].from \in Objects /\ c[2].from[2] = id /\ order[c[2].from[1]] \in Rows
      BY <1>1, <1>2, DispatchedCalls
    <2> QED
      BY <2>1 DEF NotificationFor, NotificationType, Rows
  <1> HIDE DEF sent, id
  <1>7. /\ pc' \in [Requests -> {"idle", "done"} \cup Waits]
        /\ pc'[r] = "done"
        /\ \A q \in Requests \ {r} : pc'[q] = pc[q]
        /\ result' \in [Requests -> Results]
        /\ result'[r] = "ok"
        /\ \A q \in Requests \ {r} : result'[q] = result[q]
    BY <1>1, Finishing DEF Results
  <1>8. TableTypes' /\ RequestTypes'
    BY <1>1, <1>6, <1>7 DEF TableTypes, RequestTypes, dbVars
  <1>9. \A q \in Requests : ControlOf(q)'
    BY <1>1, <1>2, <1>7 DEF ControlOf, Fits, Loaded
  <1>10. \A q \in Requests : DeliveryOf(q)'
    BY <1>1, <1>7 DEF DeliveryOf
  <1>11. FreshIds'
    BY <1>1, <1>7 DEF FreshIds, Waits, dbVars
  <1>12. RaisedBySetStatus'
    BY <1>1, <1>5, <1>7 DEF RaisedBySetStatus
  <1>13. OnlyOrdersAreHeard'
    BY <1>5 DEF OnlyOrdersAreHeard
  <1>14. BacklogMarkedOrShadowed'
    <2> SUFFICES ASSUME NEW q \in Requests, NEW o \in OrderIds, domainEvents'[<<q, o>>] # <<>>
                 PROVE  \/ RegistryProofs!IsMarked(<<q, o>>)'
                        \/ \E p \in Requests \ {q} : raised[<<p, o>>] > 0
      BY <1>5 DEF BacklogMarkedOrShadowed
    <2>1. <<q, o>> \in Objects /\ <<q, o>>[2] = o
      BY DEF Objects
    <2>2. domainEvents[<<q, o>>] # <<>>
      BY <1>5, <2>1
    <2>3. CASE RegistryProofs!IsMarked(<<q, o>>)
      BY <1>5, <2>1, <2>3
    <2> QED
      BY <2>2, <2>3 DEF BacklogMarkedOrShadowed
  <1>15. OwnUnmarked'
    <2> SUFFICES ASSUME NEW q \in Requests, result'[q] = "ok"
                 PROVE  ~RegistryProofs!IsMarked(OrderOf(q))'
      BY <1>1 DEF OwnUnmarked, RegistryProofs!IsMarked, OrderOf
    <2>1. call[q] # NoCall
      BY <1>2, <1>7 DEF ControlOf
    <2>2. OrderOf(q) \in Objects /\ OrderOf(q)[2] = call[q].order /\ OrderOf(q)' = OrderOf(q)
      BY <1>1, <2>1, CallParts DEF OrderOf, Objects
    <2>3. CASE q = r
      BY <1>5, <2>2, <2>3 DEF id, RegistryProofs!IsMarked
    <2>4. CASE q # r
      <3>1. ~RegistryProofs!IsMarked(OrderOf(q))
        BY <1>7, <2>4, OwnUnmarkedMeans
      <3> QED
        BY <1>5, <2>2, <3>1 DEF RegistryProofs!IsMarked
    <2> QED
      BY <2>3, <2>4
  <1>16. NotifiedAfterSave'
    <2> SUFFICES ASSUME NEW n \in inserting' \cup notifications'
                 PROVE  \E q \in Requests : /\ result'[q] = "ok"
                                            /\ call[q].op \in {"status", "edit"}
                                            /\ call[q].order = n.about[2]
      BY <1>1 DEF NotifiedAfterSave
    <2>1. CASE n \in sent
      BY <1>2, <1>6, <1>7, <2>1 DEF id
    <2>2. CASE n \in inserting \cup notifications
      BY <1>7, <2>2 DEF NotifiedAfterSave
    <2> QED
      BY <1>1, <2>1, <2>2 DEF dbVars
  <1> QED
    BY <1>4, <1>8, <1>9, <1>10, <1>11, <1>12, <1>13, <1>14, <1>15, <1>16

-----------------------------------------------------------------------------

(* What happens beside the requests. *)

\* No request moves, and the registry is left alone.
LEMMA BesidePreserves ==
  ASSUME OrdersInv, UNCHANGED <<orders, call, pc, order, attachments, result, eventVars>>,
         TableTypes', inserting' \cup notifications' \subseteq inserting \cup notifications
  PROVE  OrdersInv'
  <1> USE DEF OrdersInv
  <1>1. RegistryProofs!IInv'
    BY RegistryAssumptions, RegistryProofs!StepPreserves DEF eventVars, RegistryProofs!vars
  <1>2. RequestTypes' /\ \A r \in Requests : ControlOf(r)' /\ DeliveryOf(r)'
    BY DEF RequestTypes, ControlOf, DeliveryOf
  <1>3. FreshIds' /\ RaisedBySetStatus' /\ OnlyOrdersAreHeard'
    BY DEF FreshIds, RaisedBySetStatus, OnlyOrdersAreHeard, eventVars
  <1>4. BacklogMarkedOrShadowed' /\ OwnUnmarked'
    BY DEF BacklogMarkedOrShadowed, OwnUnmarked, OrderOf, eventVars, RegistryProofs!IsMarked
  <1>5. NotifiedAfterSave'
    BY DEF NotifiedAfterSave
  <1> QED
    BY <1>1, <1>2, <1>3, <1>4, <1>5

LEMMA BootPreserves ==
  ASSUME OrdersInv, Boot
  PROVE  OrdersInv'
  <1> USE DEF OrdersInv
  <1>1. /\ handlersMap' = [handlersMap EXCEPT !["OrderStatusChanged"] = @ \cup {"notify"}]
        /\ UNCHANGED <<dbVars, cache, call, pc, order, attachments, result, inserting, restarts,
                       markedAggregates, domainEvents, raised, called>>
    BY DEF Boot, Registry!Register
  <1>2. RegistryProofs!IInv'
    <2>1. RegistryProofs!Register("notify", "OrderStatusChanged")
      BY SameRegistry DEF Boot
    <2>2. RegistryProofs!Next
      BY <2>1 DEF RegistryProofs!Next, EventClasses
    <2> QED
      BY <2>2, RegistryAssumptions, RegistryProofs!StepPreserves
  <1>3. TableTypes' /\ RequestTypes'
    BY <1>1 DEF TableTypes, RequestTypes, dbVars
  <1>4. \A r \in Requests : ControlOf(r)' /\ DeliveryOf(r)'
    BY <1>1 DEF ControlOf, DeliveryOf
  <1>5. FreshIds' /\ RaisedBySetStatus' /\ NotifiedAfterSave'
    BY <1>1 DEF FreshIds, RaisedBySetStatus, NotifiedAfterSave, dbVars
  <1>6. BacklogMarkedOrShadowed' /\ OwnUnmarked'
    BY <1>1 DEF BacklogMarkedOrShadowed, OwnUnmarked, OrderOf, RegistryProofs!IsMarked
  <1>7. OnlyOrdersAreHeard'
    BY <1>1 DEF OnlyOrdersAreHeard, RegistryProofs!IInv, RegistryProofs!TypeOK
  <1> QED
    BY <1>2, <1>3, <1>4, <1>5, <1>6, <1>7

LEMMA ReceivePreserves ==
  ASSUME OrdersInv, NEW r \in Requests, Receive(r)
  PROVE  OrdersInv'
  <1> USE DEF OrdersInv
  <1>1. PICK c \in Calls :
          /\ c.op = "create" =>
               /\ orders[c.order] = NoRow
               /\ \A q \in Requests : call[q] # NoCall => call[q].order # c.order
          /\ call' = [call EXCEPT ![r] = c]
          /\ Goto(r, IF c.op = "status" THEN "get" ELSE "auth")
    BY DEF Receive
  <1> DEFINE place == IF c.op = "status" THEN "get" ELSE "auth"
  <1>2. /\ pc[r] = "idle" /\ call[r] = NoCall /\ result[r] = "none"
        /\ UNCHANGED <<dbVars, cache, order, attachments, inserting, restarts, eventVars>>
    BY DEF Receive, ControlOf
  <1>3. c \in CallType /\ c # NoCall
    BY CallsAssumption, NullsAssumption
  <1>4. place \in Waits /\ Fits(place, c) /\ place \notin Loaded
        /\ place \notin {"idle", "done", "row", "saved"}
    BY DEF Waits, Fits, Loaded
  <1>5. /\ pc' \in [Requests -> {"idle", "done"} \cup Waits]
        /\ pc'[r] = place
        /\ \A q \in Requests \ {r} : pc'[q] = pc[q]
        /\ result' = result
    BY <1>1, <1>4, Going
  <1> HIDE DEF place
  <1>6. /\ call' \in [Requests -> CallType \cup {NoCall}]
        /\ call'[r] = c
        /\ \A q \in Requests \ {r} : call'[q] = call[q]
    BY <1>1, <1>3 DEF RequestTypes
  <1>7. RegistryProofs!IInv'
    BY <1>2, RegistryAssumptions, RegistryProofs!StepPreserves DEF eventVars, RegistryProofs!vars
  <1>8. TableTypes' /\ RequestTypes'
    BY <1>2, <1>5, <1>6 DEF TableTypes, RequestTypes, dbVars
  <1>9. \A q \in Requests : ControlOf(q)'
    BY <1>2, <1>3, <1>4, <1>5, <1>6 DEF ControlOf
  <1>10. \A q \in Requests : DeliveryOf(q)'
    <2>1. place \notin {"attach", "check", "raise", "row"}
      BY <1>4 DEF Loaded
    <2> QED
      BY <2>1, <1>2, <1>5, <1>6 DEF DeliveryOf
  <1>11. FreshIds'
    <2>1. \A q \in Requests : q # r /\ pc[q] \in Waits => pc'[q] \in Waits
      BY <1>5
    <2> QED
      BY <1>1, <1>2, <1>5, <1>6 DEF FreshIds, dbVars
  <1>12. \A o \in OrderIds : ~(raised[<<r, o>>] > 0)
    BY <1>2 DEF RaisedBySetStatus
  <1>13. RaisedBySetStatus'
    BY <1>2, <1>5, <1>6, <1>12 DEF RaisedBySetStatus, eventVars
  <1>14. OnlyOrdersAreHeard' /\ BacklogMarkedOrShadowed'
    BY <1>2 DEF OnlyOrdersAreHeard, BacklogMarkedOrShadowed, eventVars, RegistryProofs!IsMarked
  <1>15. OwnUnmarked' /\ NotifiedAfterSave'
    BY <1>2, <1>5, <1>6 DEF OwnUnmarked, NotifiedAfterSave, OrderOf, eventVars, dbVars
  <1> QED
    BY <1>7, <1>8, <1>9, <1>10, <1>11, <1>13, <1>14, <1>15

LEMMA ProcessDownPreserves ==
  ASSUME OrdersInv, ProcessDown
  PROVE  OrdersInv'
  <1> USE DEF OrdersInv
  <1>1. /\ restarts < MaxRestarts /\ restarts' = restarts + 1
        /\ pc' = [r \in Requests |-> IF pc[r] \in Waits THEN "done" ELSE pc[r]]
        /\ result' = [r \in Requests |-> IF pc[r] \in Waits THEN "crashed" ELSE result[r]]
        /\ inserting' = {}
        /\ Registry!Restart
        /\ UNCHANGED <<dbVars, cache, call, order, attachments>>
    BY DEF ProcessDown
  <1>2. /\ markedAggregates' = <<>>
        /\ domainEvents' = [object \in Objects |-> <<>>]
        /\ handlersMap' = [c \in EventClasses |-> {}]
        /\ UNCHANGED <<raised, called>>
    BY <1>1 DEF Registry!Restart
  <1>3. RegistryProofs!IInv'
    BY <1>1, SameRegistry, RegistryAssumptions, RegistryProofs!RestartPreserves
  <1>4. TableTypes'
    BY <1>1, BoundsAssumption DEF TableTypes, dbVars
  <1>5. RequestTypes'
    BY <1>1 DEF RequestTypes, Results
  <1>6. \A r \in Requests : pc'[r] \notin Waits /\ pc'[r] \in {"done", pc[r]}
    BY <1>1 DEF Waits
  <1>7. \A r \in Requests : ControlOf(r)' /\ DeliveryOf(r)'
    <2> SUFFICES ASSUME NEW r \in Requests PROVE ControlOf(r)' /\ DeliveryOf(r)'
      OBVIOUS
    <2>1. pc'[r] \in {"idle", "done"}
      BY <1>5, <1>6 DEF RequestTypes
    <2> QED
      BY <1>1, <2>1 DEF ControlOf, DeliveryOf, Waits, Fits, Loaded
  <1>8. FreshIds'
    BY <1>1, <1>6 DEF FreshIds
  <1>9. RaisedBySetStatus'
    BY <1>1, <1>2, <1>6 DEF RaisedBySetStatus
  <1>10. OnlyOrdersAreHeard' /\ BacklogMarkedOrShadowed' /\ OwnUnmarked'
    BY <1>2 DEF OnlyOrdersAreHeard, BacklogMarkedOrShadowed, OwnUnmarked, Objects
  <1>11. \A r \in Requests : result[r] = "ok" => result'[r] = "ok"
    BY <1>1 DEF ControlOf, Waits
  <1>12. NotifiedAfterSave'
    BY <1>1, <1>11 DEF NotifiedAfterSave, dbVars
  <1> QED
    BY <1>3, <1>4, <1>5, <1>7, <1>8, <1>9, <1>10, <1>12

LEMMA CacheExpirePreserves ==
  ASSUME OrdersInv, NEW o \in OrderIds, CacheExpire(o)
  PROVE  OrdersInv'
  <1>1. TableTypes'
    BY DEF OrdersInv, TableTypes, CacheExpire, dbVars
  <1> QED
    BY <1>1, BesidePreserves DEF CacheExpire, dbVars

LEMMA InsertNotificationPreserves ==
  ASSUME OrdersInv, NEW n \in inserting, InsertNotification(n)
  PROVE  OrdersInv'
  <1>1. TableTypes'
    BY DEF OrdersInv, TableTypes, InsertNotification
  <1> QED
    BY <1>1, BesidePreserves DEF InsertNotification

-----------------------------------------------------------------------------

(* The invariant. *)

LEMMA InitEstablishes == Init => OrdersInv
  <1> SUFFICES ASSUME Init PROVE OrdersInv
    OBVIOUS
  <1>1. RegistryProofs!IInv
    BY SameRegistry, RegistryAssumptions, RegistryProofs!InitEstablishes DEF Init
  <1>2. /\ markedAggregates = <<>>
        /\ domainEvents = [object \in Objects |-> <<>>]
        /\ handlersMap = [c \in EventClasses |-> {}]
        /\ raised = [object \in Objects |-> 0]
        /\ called = {}
    BY DEF Init, Registry!Init
  <1>3. TableTypes
    BY InitialAssumption, BoundsAssumption DEF Init, TableTypes
  <1>4. RequestTypes
    BY DEF Init, RequestTypes, Results
  <1>5. \A r \in Requests : ControlOf(r) /\ DeliveryOf(r)
    BY DEF Init, ControlOf, DeliveryOf, Fits, Loaded
  <1>6. FreshIds
    BY DEF Init, FreshIds, Waits
  <1>7. RaisedBySetStatus /\ OnlyOrdersAreHeard /\ BacklogMarkedOrShadowed
    BY <1>2 DEF RaisedBySetStatus, OnlyOrdersAreHeard, BacklogMarkedOrShadowed, Objects
  <1>8. OwnUnmarked /\ NotifiedAfterSave
    BY <1>2 DEF Init, OwnUnmarked, NotifiedAfterSave
  <1> QED
    BY <1>1, <1>3, <1>4, <1>5, <1>6, <1>7, <1>8 DEF OrdersInv

LEMMA RequestStepPreserves ==
  ASSUME OrdersInv, NEW r \in Requests, Step(r)
  PROVE  OrdersInv'
  BY VerifyRolePreserves, CacheGetPreserves, FindRowPreserves, CacheSetPreserves,
     ChangeStatusPreserves, StartDeliveryPreserves, AttachProofPreserves,
     CheckPhotosPreserves, MarkDeliveredPreserves, EditFieldsPreserves,
     AttachNewPreserves, AttachRemovedPreserves, SaveRowPreserves, AfterSavePreserves,
     GetOrderPreserves, DeleteOrderPreserves, FindRecipientPreserves,
     FindCourierPreserves, InsertRowPreserves, FindUserPreserves, RemoveUserPreserves
     DEF Step

LEMMA StepPreserves == OrdersInv /\ [Next]_vars => OrdersInv'
  <1> SUFFICES ASSUME OrdersInv, [Next]_vars PROVE OrdersInv'
    OBVIOUS
  <1>1. CASE Boot
    BY <1>1, BootPreserves
  <1>2. ASSUME NEW r \in Requests, Receive(r) \/ Step(r) PROVE OrdersInv'
    BY <1>2, ReceivePreserves, RequestStepPreserves
  <1>3. ASSUME NEW n \in inserting, InsertNotification(n) \/ InsertRefused(n)
        PROVE  OrdersInv'
    BY <1>3, InsertNotificationPreserves, ProcessDownPreserves DEF InsertRefused
  <1>4. ASSUME NEW o \in OrderIds, CacheExpire(o) PROVE OrdersInv'
    BY <1>4, CacheExpirePreserves
  <1>5. CASE ProcessDown
    BY <1>5, ProcessDownPreserves
  <1>6. CASE UNCHANGED vars
    <2>1. TableTypes'
      BY <1>6 DEF OrdersInv, TableTypes, vars, dbVars
    <2> QED
      BY <1>6, <2>1, BesidePreserves DEF vars, dbVars
  <1> QED
    BY <1>1, <1>2, <1>3, <1>4, <1>5, <1>6 DEF Next

\* The history is written by Receive alone.
FinishedType == finished \in [Requests -> SUBSET Requests]

LEMMA WhoRecords ==
  ASSUME [Next]_vars
  PROVE  finished' = finished \/ \E r \in Requests : Receive(r)
  <1>1. ASSUME NEW r \in Requests, Step(r) PROVE finished' = finished
    BY <1>1 DEF Step, VerifyRole, CacheGet, FindRow, CacheSet, ChangeStatus, StartDelivery,
       AttachProof, Attach, CheckPhotos, MarkDelivered, EditFields, AttachNew, AttachRemoved,
       SaveRow, AfterSave, GetOrder, DeleteOrder, FindRecipient, FindCourier, LoadCourier,
       InsertRow, FindUser, RemoveUser
  <1> QED
    BY <1>1 DEF Next, vars, Boot, InsertNotification, InsertRefused, ProcessDown, CacheExpire

LEMMA FinishedTypeStays == FinishedType /\ [Next]_vars => FinishedType'
  <1> SUFFICES ASSUME FinishedType, [Next]_vars PROVE FinishedType'
    OBVIOUS
  <1>1. ASSUME NEW r \in Requests, Receive(r) PROVE FinishedType'
    BY <1>1 DEF Receive, FinishedType
  <1> QED
    BY <1>1, WhoRecords DEF FinishedType

\* Whatever the requests and however they interleave: the events of a status
\* change that answered success are lost only to another status change of the
\* same order, a copy that stays marked is not that of a request that answered
\* success, and no notification precedes the first successful save of its order
\* (PrismaOrdersRepository.save, DomainEvents.dispatchEventsForAggregate).
THEOREM OrdersInvariant ==
  Spec => [](TypeOK /\ SuccessUnmarks /\ LossNeedsRival /\ NotifiedAfterSave)
  <1>1. ASSUME OrdersInv, FinishedType
        PROVE  TypeOK /\ SuccessUnmarks /\ LossNeedsRival /\ NotifiedAfterSave
    <2> USE <1>1 DEF OrdersInv
    <2>1. TypeOK
      BY SameRegistry DEF TypeOK, TableTypes, RequestTypes, RegistryProofs!IInv, FinishedType
    <2>3. SuccessUnmarks
      <3> SUFFICES ASSUME NEW i \in DOMAIN markedAggregates,
                          markedAggregates[i][2] \in OrderIds,
                          result[markedAggregates[i][1]] = "ok"
                   PROVE  FALSE
        BY DEF SuccessUnmarks
      <3> DEFINE object == markedAggregates[i]
      <3>1. object \in Objects
        BY DEF RegistryProofs!IInv, RegistryProofs!TypeOK
      <3>2. PICK r \in Requests, o \in OrderIds : object = <<r, o>>
        BY <3>1 DEF Objects
      <3>3. raised[<<r, o>>] > 0
        BY <3>1, <3>2, UnraisedIsUnmarked DEF RegistryProofs!IsMarked
      <3>4. object = OrderOf(r)
        BY <3>2, <3>3 DEF RaisedBySetStatus, OrderOf
      <3> QED
        BY <3>2, <3>4 DEF OwnUnmarked
    <2>2. LossNeedsRival
      <3> SUFFICES ASSUME NEW r \in Requests, result[r] = "ok", call[r].op = "status",
                          domainEvents[OrderOf(r)] # <<>>
                   PROVE  \E q \in Requests \ {r} : raised[<<q, call[r].order>>] > 0
        BY DEF LossNeedsRival
      <3>1. call[r].order \in OrderIds
        BY CallParts DEF ControlOf
      <3>2. ~RegistryProofs!IsMarked(<<r, call[r].order>>)
        BY OwnUnmarkedMeans DEF OrderOf
      <3> QED
        BY <3>1, <3>2 DEF BacklogMarkedOrShadowed, OrderOf
    <2> QED
      BY <2>1, <2>2, <2>3
  <1>2. Init => FinishedType
    BY DEF Init, FinishedType
  <1> QED
    BY <1>1, <1>2, InitEstablishes, StepPreserves, FinishedTypeStays, PTL DEF Spec

-----------------------------------------------------------------------------

(* What no step may do. *)

\* The steps that write the orders table.
LEMMA WhoWritesOrders ==
  ASSUME [Next]_vars
  PROVE  \/ orders' = orders
         \/ \E r \in Requests : SaveRow(r) \/ DeleteOrder(r) \/ InsertRow(r) \/ RemoveUser(r)
  <1>1. ASSUME NEW r \in Requests, Step(r)
        PROVE  \/ orders' = orders
               \/ SaveRow(r) \/ DeleteOrder(r) \/ InsertRow(r) \/ RemoveUser(r)
    BY <1>1 DEF Step, dbVars, VerifyRole, CacheGet, FindRow, CacheSet, ChangeStatus,
       StartDelivery, AttachProof, Attach, CheckPhotos, MarkDelivered, EditFields,
       AttachNew, AttachRemoved, AfterSave, GetOrder, FindRecipient, FindCourier,
       LoadCourier, FindUser
  <1> QED
    BY <1>1 DEF Next, vars, dbVars, Boot, Receive, InsertNotification, InsertRefused,
       ProcessDown, CacheExpire

\* A row that has a courier is left without one only when he is deleted.
CourierIsCleared ==
  [][\A o \in OrderIds :
       /\ orders[o] # NoRow /\ orders'[o] # NoRow
       /\ orders[o].courier # NoUser /\ orders'[o].courier = NoUser
       => orders[o].courier \notin users']_vars

\* No save clears a courier, however stale its copy: toPrisma turns a courier
\* that is not set into undefined, and Prisma leaves that column alone.  It may
\* write back another courier than the row has.
THEOREM SavesClearNoCourier == Spec => CourierIsCleared
  <1> DEFINE Kept(o) ==
        /\ orders[o] # NoRow /\ orders'[o] # NoRow
        /\ orders[o].courier # NoUser /\ orders'[o].courier = NoUser
        => orders[o].courier \notin users'
  <1>1. ASSUME OrdersInv, [Next]_vars, NEW o \in OrderIds
        PROVE  Kept(o)
    <2> USE <1>1 DEF OrdersInv
    <2> SUFFICES ASSUME orders[o] # NoRow, orders'[o] # NoRow,
                        orders[o].courier # NoUser, orders'[o].courier = NoUser
                 PROVE  orders[o].courier \notin users'
      OBVIOUS
    <2>1. ASSUME NEW r \in Requests, SaveRow(r) PROVE FALSE
      <3>1. order[r] \in Rows
        BY <2>1 DEF SaveRow, ControlOf, Loaded
      <3>2. orders'[o] \in {orders[o], Written(r, orders[o])}
        BY <2>1 DEF SaveRow, TableTypes
      <3> QED
        BY <3>1, <3>2, WrittenIsRow DEF TableTypes
    <2>2. ASSUME NEW r \in Requests, DeleteOrder(r) PROVE FALSE
      BY <2>2 DEF DeleteOrder, TableTypes
    <2>3. ASSUME NEW r \in Requests, InsertRow(r) PROVE FALSE
      <3>1. pc[r] = "insert" /\ pc[r] \in Waits /\ call[r].op = "create"
        BY <2>3 DEF InsertRow, ControlOf, Fits, Waits
      <3>2. call[r].order # o
        BY <3>1 DEF FreshIds
      <3> QED
        BY <2>3, <3>2 DEF InsertRow, TableTypes
    <2>4. ASSUME NEW r \in Requests, RemoveUser(r)
          PROVE  orders[o].courier \notin users'
      <3>1. users' = users \ {call[r].user} /\ orders[o].courier = call[r].user
        BY <2>4 DEF RemoveUser, TableTypes
      <3> QED
        BY <3>1
    <2> QED
      BY <2>1, <2>2, <2>3, <2>4, WhoWritesOrders
  <1>2. OrdersInv /\ [Next]_vars => [\A o \in OrderIds : Kept(o)]_vars
    BY <1>1
  <1> QED
    BY <1>2, InitEstablishes, StepPreserves, PTL DEF Spec, CourierIsCleared

\* A request leaves "row" for "saved" by its own save.
LEMMA SavedBySaveRow ==
  ASSUME [Next]_vars, RequestTypes, NEW r \in Requests, pc[r] = "row", pc'[r] = "saved"
  PROVE  SaveRow(r)
  <1>1. ASSUME NEW q \in Requests, Step(q)
        PROVE  \E place : pc' = [pc EXCEPT ![q] = place]
    BY <1>1 DEF Step, Goto, Finish, VerifyRole, CacheGet, FindRow, CacheSet, ChangeStatus,
       SetStatus, StartDelivery, AttachProof, Attach, CheckPhotos, MarkDelivered, EditFields,
       AttachNew, AttachRemoved, SaveRow, AfterSave, GetOrder, DeleteOrder, FindRecipient,
       FindCourier, LoadCourier, InsertRow, FindUser, RemoveUser
  <1>2. PICK q \in Requests : Receive(q) \/ Step(q)
    BY DEF Next, vars, Boot, InsertNotification, InsertRefused, ProcessDown, CacheExpire, Waits
  <1>3. CASE Receive(q)
    <2>1. q # r
      BY <1>3 DEF Receive
    <2> QED
      BY <1>3, <2>1 DEF Receive, Goto, RequestTypes
  <1>4. CASE Step(q)
    <2>1. q = r
      BY <1>1, <1>4 DEF RequestTypes
    <2> QED
      BY <1>4, <2>1 DEF Step, VerifyRole, CacheGet, FindRow, CacheSet, ChangeStatus,
         StartDelivery, AttachProof, CheckPhotos, MarkDelivered, EditFields, AttachNew,
         AttachRemoved, AfterSave, GetOrder, DeleteOrder, FindRecipient, FindCourier,
         InsertRow, FindUser, RemoveUser
  <1> QED
    BY <1>2, <1>3, <1>4

\* The courier a delivery names is the courier its save leaves on the row,
\* though others may have changed the row since the copy was loaded: save
\* writes the copy that was checked.
THEOREM DeliveryKeepsItsCourier == Spec => DeliveredByItsCourier
  <1> DEFINE Delivered(r) ==
        /\ pc[r] = "row" /\ pc'[r] = "saved"
        /\ call[r].op = "status" /\ call[r].status = "DELIVERED"
        /\ call[r].courier # NoUser
        => orders'[call[r].order].courier = call[r].courier
  <1>1. ASSUME OrdersInv, [Next]_vars, NEW r \in Requests
        PROVE  Delivered(r)
    <2> USE <1>1 DEF OrdersInv
    <2> SUFFICES ASSUME pc[r] = "row", pc'[r] = "saved",
                        call[r].op = "status", call[r].status = "DELIVERED",
                        call[r].courier # NoUser
                 PROVE  orders'[call[r].order].courier = call[r].courier
      OBVIOUS
    <2> DEFINE o == call[r].order
    <2>1. SaveRow(r)
      BY SavedBySaveRow
    <2>2. /\ order[r] \in Rows /\ o \in OrderIds
          /\ order[r].courier = call[r].courier
      BY CallParts DEF ControlOf, DeliveryOf, Loaded
    <2>3. orders[o] # NoRow /\ orders' = [orders EXCEPT ![o] = Written(r, @)]
      BY <2>1 DEF SaveRow, Finish, RequestTypes
    <2>4. orders'[o] = Written(r, orders[o]) /\ orders[o] \in Rows
      BY <2>2, <2>3 DEF TableTypes
    <2> QED
      BY <2>2, <2>4, WrittenIsRow
  <1>2. OrdersInv /\ [Next]_vars => [\A r \in Requests : Delivered(r)]_vars
    BY <1>1
  <1> QED
    BY <1>2, InitEstablishes, StepPreserves, PTL DEF Spec, DeliveredByItsCourier

-----------------------------------------------------------------------------

(* The orders implement the registry's specification. *)

LEMMA SetStatusIsRegistryStep ==
  ASSUME OrdersInv, NEW r \in Requests, NEW reassigned \in BOOLEAN,
         SetStatus(r, reassigned), pc[r] \in {"loaded", "raise"}
  PROVE  Registry!Next
  <1>1. OrderOf(r) \in Objects
    BY CallParts DEF OrdersInv, ControlOf, OrderOf, Objects
  <1>2. \/ Registry!AddDomainEvents(OrderOf(r), <<"CourierAssigned", "OrderStatusChanged">>)
        \/ Registry!AddDomainEvents(OrderOf(r), <<"OrderStatusChanged">>)
    BY DEF SetStatus
  <1>3. {"CourierAssigned", "OrderStatusChanged"} \subseteq EventClasses
    BY DEF EventClasses
  <1> QED
    BY <1>1, <1>2, <1>3 DEF Registry!Next

LEMMA RequestIsRegistryStep ==
  ASSUME OrdersInv, NEW r \in Requests, Step(r)
  PROVE  Registry!Next \/ UNCHANGED eventVars
  <1> USE DEF OrdersInv
  <1>1. CASE ChangeStatus(r)
    <2>1. CASE \E reassigned \in BOOLEAN : SetStatus(r, reassigned)
      BY <1>1, <2>1, SetStatusIsRegistryStep DEF ChangeStatus
    <2> QED
      BY <1>1, <2>1 DEF ChangeStatus
  <1>2. CASE MarkDelivered(r)
    BY <1>2, SetStatusIsRegistryStep DEF MarkDelivered
  <1>3. CASE FindCourier(r) \/ FindUser(r)
    <2>1. PICK user, next : LoadCourier(r, user, next)
      BY <1>3 DEF FindCourier, FindUser
    <2>2. CASE user \in users
      <3>1. Registry!AddDomainEvents(<<r, user>>, <<"CourierRegistered">>)
        BY <2>1, <2>2 DEF LoadCourier
      <3>2. <<r, user>> \in Objects /\ "CourierRegistered" \in EventClasses
        BY <2>2 DEF TableTypes, Objects, EventClasses
      <3> QED
        BY <3>1, <3>2 DEF Registry!Next
    <2> QED
      BY <2>1, <2>2 DEF LoadCourier
  <1>4. CASE AfterSave(r)
    <2>1. Registry!DispatchEventsForAggregate(call[r].order)
      BY <1>4 DEF AfterSave
    <2>2. call[r].order \in OrderIds \cup Users
      BY <1>4, CallParts DEF AfterSave, ControlOf
    <2> QED
      BY <2>1, <2>2 DEF Registry!Next
  <1> QED
    BY <1>1, <1>2, <1>3, <1>4 DEF Step, VerifyRole, CacheGet, FindRow, CacheSet,
       StartDelivery, AttachProof, Attach, CheckPhotos, EditFields, AttachNew,
       AttachRemoved, SaveRow, GetOrder, DeleteOrder, FindRecipient, InsertRow, RemoveUser

\* Every step of the orders is a step of the event registry or leaves it
\* alone, so what is proved of DomainEvents for every use holds for the use
\* the repositories make of it.
THEOREM OrdersUseRegistry == Spec => RegistrySpec
  <1>1. Init => Registry!Init
    BY DEF Init
  <1>2. ASSUME OrdersInv, [Next]_vars
        PROVE  [Registry!Next]_(Registry!vars)
    <2> SUFFICES Registry!Next \/ UNCHANGED eventVars
      BY DEF eventVars, Registry!vars
    <2>1. CASE Boot
      BY <2>1 DEF Boot, Registry!Next, EventClasses
    <2>2. CASE ProcessDown \/ \E n \in inserting : InsertRefused(n)
      BY <2>2 DEF ProcessDown, InsertRefused, Registry!Next
    <2>3. CASE \E r \in Requests : Step(r)
      BY <1>2, <2>3, RequestIsRegistryStep
    <2> QED
      BY <1>2, <2>1, <2>2, <2>3 DEF Next, Receive, InsertNotification, CacheExpire, vars
  <1> QED
    BY <1>1, <1>2, InitEstablishes, StepPreserves, PTL DEF Spec, RegistrySpec, Registry!Spec

-----------------------------------------------------------------------------

(* The parts of the invariant, one by one *)

\* Types, for any orders, users, attachments and requests.
COROLLARY OrdersTypes == Spec => []TypeOK
  <1>1. (TypeOK /\ SuccessUnmarks /\ LossNeedsRival /\ NotifiedAfterSave) => TypeOK
    OBVIOUS
  <1> QED
    BY <1>1, OrdersInvariant, PTL

\* A copy of an order that stays marked, whichever copy a dispatch took, is not
\* that of a request answered with success.
COROLLARY SuccessLeavesNoMark == Spec => []SuccessUnmarks
  <1>1. (TypeOK /\ SuccessUnmarks /\ LossNeedsRival /\ NotifiedAfterSave) => SuccessUnmarks
    OBVIOUS
  <1> QED
    BY <1>1, OrdersInvariant, PTL

\* No notification is sent of an order before a save of it succeeded.
COROLLARY NoEarlyNotification == Spec => []NotifiedAfterSave
  <1>1. (TypeOK /\ SuccessUnmarks /\ LossNeedsRival /\ NotifiedAfterSave) => NotifiedAfterSave
    OBVIOUS
  <1> QED
    BY <1>1, OrdersInvariant, PTL

-----------------------------------------------------------------------------

(* The photos of delivered orders *)

\* createMany takes any attachment it is given, also one of another order, so
\* what holds of any requests is that only such a request can leave a delivered
\* order without a photo.  The orders a photo can belong to are its first one
\* and those of the calls that name it.
HomesOf(p) ==
  {o \in OrderIds : InitialPhotos[p] = o \/ \E c \in Calls : c.order = o /\ p \in c.photos}

\* A request has given photos to another order that shares one with this one.
Claimed(o) ==
  \E q \in Requests, p \in Photos :
    /\ call[q] # NoCall /\ call[q].order # o /\ call[q].photos # {}
    /\ o \in HomesOf(p) /\ call[q].order \in HomesOf(p)

Covered(o) == PhotosOf(o) # {} \/ Claimed(o)

\* The row is deleted, and no creation will bring it back.
Gone(o) ==
  /\ orders[o] = NoRow
  /\ \A r \in Requests : pc[r] \in Waits /\ call[r].op = "create" => call[r].order # o

NamedCalls == \A r \in Requests : call[r] # NoCall => call[r] \in Calls

PhotosAtHome == \A p \in Photos : photoOf[p] # NoOrder => photoOf[p] \in HomesOf(p)

\* What an edit will attach is of its own order; the removed ones stay there.
EditsStayHome(r) ==
  pc[r] \in {"new", "removed"} =>
    /\ call[r].photos # {}
    /\ attachments[r].new \subseteq call[r].photos
    /\ \A p \in attachments[r].removed : call[r].order \in HomesOf(p)

\* The mapper makes every loaded order PENDING, so an edit saves no delivery.
LoadedAsPending(r) ==
  pc[r] \in {"loaded", "new", "removed"} => order[r].status = "PENDING"

\* Between the look at the photos and the save of the delivery.
CheckedIsCovered(r) ==
  pc[r] = "raise" \/ (pc[r] = "row" /\ order[r].status = "DELIVERED") =>
    \A o \in OrderIds : o = call[r].order => Covered(o) \/ Gone(o)

DeliveredIsCovered ==
  \A o \in OrderIds : orders[o] # NoRow /\ orders[o].status = "DELIVERED" => Covered(o)

PhotoInv ==
  /\ NamedCalls
  /\ PhotosAtHome
  /\ \A r \in Requests : EditsStayHome(r) /\ LoadedAsPending(r) /\ CheckedIsCovered(r)
  /\ DeliveredIsCovered

PhotosHaveOneHome == \A p \in Photos : \A a, b \in HomesOf(p) : a = b

\* The orders that are delivered at the start have a photo.
InitialDeliveriesHavePhotos ==
  \A o \in OrderIds : InitialOrders[o] # NoRow /\ InitialOrders[o].status = "DELIVERED" =>
    \E p \in Photos : InitialPhotos[p] = o

LEMMA PhotosAtStart == InitialDeliveriesHavePhotos /\ Init => PhotoInv
  <1> SUFFICES ASSUME InitialDeliveriesHavePhotos, Init PROVE PhotoInv
    OBVIOUS
  <1>1. NamedCalls
    BY DEF Init, NamedCalls
  <1>2. PhotosAtHome
    BY InitialAssumption DEF Init, PhotosAtHome, HomesOf
  <1>3. ASSUME NEW r \in Requests
        PROVE  EditsStayHome(r) /\ LoadedAsPending(r) /\ CheckedIsCovered(r)
    BY DEF Init, EditsStayHome, LoadedAsPending, CheckedIsCovered
  <1>4. DeliveredIsCovered
    BY DEF Init, DeliveredIsCovered, InitialDeliveriesHavePhotos, Covered, PhotosOf
  <1> QED
    BY <1>1, <1>2, <1>3, <1>4 DEF PhotoInv

\* A call that arrived stays, and another is one of those that may arrive.
LEMMA CallsStay ==
  ASSUME OrdersInv, [Next]_vars, NEW r \in Requests
  PROVE  /\ call[r] # NoCall => call'[r] = call[r]
         /\ call'[r] # call[r] => call'[r] \in Calls /\ Receive(r)
  <1>1. ASSUME NEW q \in Requests, Step(q) PROVE call' = call
    BY <1>1 DEF Step, VerifyRole, CacheGet, FindRow, CacheSet, ChangeStatus,
       StartDelivery, AttachProof, Attach, CheckPhotos, MarkDelivered, EditFields,
       AttachNew, AttachRemoved, SaveRow, AfterSave, GetOrder, DeleteOrder, FindRecipient,
       FindCourier, LoadCourier, InsertRow, FindUser, RemoveUser
  <1>2. ASSUME NEW q \in Requests, Receive(q), q # r PROVE call'[r] = call[r]
    BY <1>2 DEF Receive, OrdersInv, RequestTypes
  <1>3. ASSUME Receive(r) PROVE call[r] = NoCall /\ call'[r] \in Calls
    BY <1>3 DEF Receive, OrdersInv, ControlOf, RequestTypes
  <1> QED
    BY <1>1, <1>2, <1>3 DEF Next, vars, Boot, InsertNotification, InsertRefused,
       ProcessDown, CacheExpire

\* A step is of one request at most; a crash ends the others.
LEMMA WhoseTurn ==
  ASSUME OrdersInv, [Next]_vars, NEW r \in Requests
  PROVE  \/ Receive(r)
         \/ Step(r)
         \/ pc'[r] = "done"
         \/ /\ pc'[r] = pc[r] /\ order'[r] = order[r]
            /\ attachments'[r] = attachments[r] /\ call'[r] = call[r]
  <1> USE DEF OrdersInv, RequestTypes
  <1>1. ASSUME NEW q \in Requests, Step(q), q # r
        PROVE  /\ pc'[r] = pc[r] /\ order'[r] = order[r]
               /\ attachments'[r] = attachments[r] /\ call'[r] = call[r]
    BY <1>1 DEF Step, Goto, Finish, VerifyRole, CacheGet, FindRow, CacheSet, ChangeStatus,
       SetStatus, StartDelivery, AttachProof, Attach, CheckPhotos, MarkDelivered, EditFields,
       AttachNew, AttachRemoved, SaveRow, AfterSave, GetOrder, DeleteOrder, FindRecipient,
       FindCourier, LoadCourier, InsertRow, FindUser, RemoveUser
  <1>2. ASSUME NEW q \in Requests, Receive(q), q # r
        PROVE  /\ pc'[r] = pc[r] /\ order'[r] = order[r]
               /\ attachments'[r] = attachments[r] /\ call'[r] = call[r]
    BY <1>2 DEF Receive, Goto
  <1>3. ASSUME ProcessDown
        PROVE  \/ pc'[r] = "done"
               \/ /\ pc'[r] = pc[r] /\ order'[r] = order[r]
                  /\ attachments'[r] = attachments[r] /\ call'[r] = call[r]
    BY <1>3 DEF ProcessDown
  <1> QED
    BY <1>1, <1>2, <1>3 DEF Next, vars, Boot, InsertNotification, InsertRefused, CacheExpire

LEMMA StepsWait ==
  ASSUME NEW r \in Requests, Step(r)
  PROVE  pc[r] \in Waits
  BY DEF Waits, Step, VerifyRole, CacheGet, FindRow, CacheSet, ChangeStatus, StartDelivery,
     AttachProof, CheckPhotos, MarkDelivered, EditFields, AttachNew, AttachRemoved, SaveRow,
     AfterSave, GetOrder, DeleteOrder, FindRecipient, FindCourier, InsertRow, FindUser, RemoveUser

\* The steps that write the attachments table.
LEMMA WhoMovesPhotos ==
  ASSUME [Next]_vars
  PROVE  \/ photoOf' = photoOf
         \/ \E r \in Requests : AttachProof(r) \/ AttachNew(r) \/ AttachRemoved(r) \/ DeleteOrder(r)
  <1>1. ASSUME NEW r \in Requests, Step(r)
        PROVE  \/ photoOf' = photoOf
               \/ AttachProof(r) \/ AttachNew(r) \/ AttachRemoved(r) \/ DeleteOrder(r)
    BY <1>1 DEF Step, dbVars, VerifyRole, CacheGet, FindRow, CacheSet, ChangeStatus,
       StartDelivery, CheckPhotos, MarkDelivered, EditFields, SaveRow,
       AfterSave, GetOrder, FindRecipient, FindCourier, LoadCourier, InsertRow, FindUser,
       RemoveUser
  <1> QED
    BY <1>1 DEF Next, vars, dbVars, Boot, Receive, InsertNotification, InsertRefused,
       ProcessDown, CacheExpire

\* A request attaches only photos that can belong to its order.
LEMMA AttachedAreAtHome ==
  ASSUME OrdersInv, PhotoInv, NEW r \in Requests,
         AttachProof(r) \/ AttachNew(r) \/ AttachRemoved(r)
  PROVE  \E items \in SUBSET Photos :
           /\ call[r] # NoCall /\ call[r].order \in OrderIds
           /\ \A p \in items : call[r].photos # {} /\ call[r].order \in HomesOf(p)
           /\ \/ photoOf' = photoOf
              \/ photoOf' = [p \in Photos |-> IF p \in items THEN call[r].order ELSE photoOf[p]]
  <1>1. pc[r] \in {"attach", "new", "removed"}
    BY DEF AttachProof, AttachNew, AttachRemoved
  <1>2. call[r] # NoCall /\ call[r].order \in OrderIds /\ call[r].photos \subseteq Photos
    BY <1>1, CallParts DEF OrdersInv, ControlOf
  <1>3. \A p \in call[r].photos : call[r].photos # {} /\ call[r].order \in HomesOf(p)
    BY <1>2 DEF PhotoInv, NamedCalls, HomesOf
  <1>4. CASE AttachProof(r)
    <2> USE <1>2
    <2> WITNESS call[r].photos \in SUBSET Photos
    <2> QED
      BY <1>2, <1>3, <1>4 DEF AttachProof, Attach
  <1>5. CASE AttachNew(r)
    <2>1. attachments[r].new \in SUBSET Photos /\ attachments[r].new \subseteq call[r].photos
      BY <1>2, <1>5 DEF AttachNew, PhotoInv, EditsStayHome, OrdersInv, RequestTypes
    <2> USE <2>1
    <2> WITNESS attachments[r].new \in SUBSET Photos
    <2> QED
      BY <1>2, <1>3, <1>5, <2>1 DEF AttachNew, Attach
  <1>6. CASE AttachRemoved(r)
    <2>1. /\ attachments[r].removed \in SUBSET Photos
          /\ call[r].photos # {}
          /\ \A p \in attachments[r].removed : call[r].order \in HomesOf(p)
      BY <1>6 DEF AttachRemoved, PhotoInv, EditsStayHome, OrdersInv, RequestTypes
    <2> USE <2>1
    <2> WITNESS attachments[r].removed \in SUBSET Photos
    <2> QED
      BY <1>2, <1>6, <2>1 DEF AttachRemoved, Attach
  <1> QED
    BY <1>4, <1>5, <1>6

LEMMA HomesAreKept ==
  ASSUME OrdersInv, PhotoInv, [Next]_vars
  PROVE  PhotosAtHome'
  <1>1. ASSUME NEW r \in Requests, AttachProof(r) \/ AttachNew(r) \/ AttachRemoved(r)
        PROVE  PhotosAtHome'
    <2>1. PICK items \in SUBSET Photos :
           /\ \A p \in items : call[r].order \in HomesOf(p)
           /\ \/ photoOf' = photoOf
              \/ photoOf' = [p \in Photos |-> IF p \in items THEN call[r].order ELSE photoOf[p]]
      BY <1>1, AttachedAreAtHome
    <2> QED
      BY <2>1 DEF PhotoInv, PhotosAtHome, HomesOf
  <1>2. ASSUME NEW r \in Requests, DeleteOrder(r)
        PROVE  PhotosAtHome'
    BY <1>2 DEF DeleteOrder, PhotoInv, PhotosAtHome, HomesOf
  <1>3. CASE photoOf' = photoOf
    BY <1>3 DEF PhotoInv, PhotosAtHome, HomesOf
  <1> QED
    BY <1>1, <1>2, <1>3, WhoMovesPhotos

LEMMA ClaimsStay ==
  ASSUME OrdersInv, [Next]_vars, NEW o \in OrderIds, Claimed(o)
  PROVE  Claimed(o)'
  BY CallsStay DEF Claimed, HomesOf

\* A deleted order that a request names stays deleted: only a creation makes a
\* row, and it comes with a fresh id.
LEMMA GoneStays ==
  ASSUME OrdersInv, [Next]_vars, NEW o \in OrderIds, Gone(o),
         NEW q \in Requests, call[q] # NoCall, call[q].order = o
  PROVE  Gone(o)'
  <1> USE DEF OrdersInv
  <1>1. orders'[o] = NoRow
    <2>1. ASSUME NEW r \in Requests, SaveRow(r) PROVE orders'[o] = NoRow
      BY <2>1 DEF SaveRow, TableTypes, Gone
    <2>2. ASSUME NEW r \in Requests, DeleteOrder(r) PROVE orders'[o] = NoRow
      BY <2>2 DEF DeleteOrder, TableTypes, Gone
    <2>3. ASSUME NEW r \in Requests, InsertRow(r) PROVE orders'[o] = NoRow
      <3>1. pc[r] \in Waits /\ call[r].op = "create"
        BY <2>3 DEF InsertRow, ControlOf, Fits, Waits
      <3>2. call[r].order # o
        BY <3>1 DEF Gone
      <3> QED
        BY <2>3, <3>2 DEF InsertRow, TableTypes, Gone
    <2>4. ASSUME NEW r \in Requests, RemoveUser(r) PROVE orders'[o] = NoRow
      BY <2>4 DEF RemoveUser, TableTypes, Gone
    <2> QED
      BY <2>1, <2>2, <2>3, <2>4, WhoWritesOrders DEF Gone
  <1>2. ASSUME NEW r \in Requests, pc'[r] \in Waits, call'[r].op = "create"
        PROVE  call'[r].order # o
    <2>1. CASE Receive(r)
      <3>1. PICK c \in Calls : /\ c.op = "create" => \A s \in Requests : call[s] # NoCall => call[s].order # c.order
                               /\ call' = [call EXCEPT ![r] = c]
        BY <2>1 DEF Receive
      <3>2. call'[r] = c
        BY <3>1 DEF RequestTypes
      <3> QED
        BY <1>2, <3>1, <3>2
    <2>2. CASE ~Receive(r)
      <3>1. call'[r] = call[r]
        BY <2>2, CallsStay
      <3>2. pc[r] \in Waits
        BY <1>2, <2>2, WhoseTurn, StepsWait DEF Waits
      <3> QED
        BY <1>2, <3>1, <3>2 DEF Gone
    <2> QED
      BY <2>1, <2>2
  <1> QED
    BY <1>1, <1>2 DEF Gone

\* A photo is taken from an order only by a request of another order, or with
\* the order.
LEMMA CoverStays ==
  ASSUME OrdersInv, PhotoInv, [Next]_vars, NEW o \in OrderIds, Covered(o)
  PROVE  Covered(o)' \/ Gone(o)'
  <1> USE DEF OrdersInv
  <1> SUFFICES ASSUME ~Claimed(o) PROVE Covered(o)' \/ Gone(o)'
    BY ClaimsStay DEF Covered
  <1>1. PICK p \in Photos : photoOf[p] = o
    BY DEF Covered, PhotosOf
  <1>2. ASSUME photoOf'[p] = o PROVE Covered(o)'
    BY <1>2 DEF Covered, PhotosOf
  <1>3. ASSUME NEW r \in Requests, AttachProof(r) \/ AttachNew(r) \/ AttachRemoved(r)
        PROVE  photoOf'[p] = o
    <2>1. PICK items \in SUBSET Photos :
           /\ call[r] # NoCall
           /\ \A x \in items : call[r].photos # {} /\ call[r].order \in HomesOf(x)
           /\ \/ photoOf' = photoOf
              \/ photoOf' = [x \in Photos |-> IF x \in items THEN call[r].order ELSE photoOf[x]]
      BY <1>3, AttachedAreAtHome
    <2>2. o \in HomesOf(p)
      BY <1>1, NullsAssumption DEF PhotoInv, PhotosAtHome
    <2>3. p \in items => call[r].order = o
      BY <2>1, <2>2 DEF Claimed
    <2> QED
      BY <1>1, <2>1, <2>3
  <1>4. ASSUME NEW r \in Requests, DeleteOrder(r)
        PROVE  photoOf'[p] = o \/ Gone(o)'
    <2>1. CASE orders[call[r].order] # NoRow /\ call[r].order = o
      <3>1. /\ orders' = [orders EXCEPT ![o] = NoRow] /\ pc' = [pc EXCEPT ![r] = "done"]
            /\ call' = call
        BY <1>4, <2>1 DEF DeleteOrder, Finish
      <3>2. orders'[o] = NoRow /\ orders[o] # NoRow
        BY <2>1, <3>1 DEF TableTypes
      <3>3. \A q \in Requests : pc[q] \in Waits /\ call[q].op = "create" => call[q].order # o
        BY <3>2 DEF FreshIds
      <3>4. \A q \in Requests : pc'[q] \in Waits => pc[q] \in Waits
        BY <3>1 DEF RequestTypes, Waits
      <3> QED
        BY <3>1, <3>2, <3>3, <3>4 DEF Gone
    <2>2. CASE ~(orders[call[r].order] # NoRow /\ call[r].order = o)
      BY <1>1, <1>4, <2>2 DEF DeleteOrder
    <2> QED
      BY <2>1, <2>2
  <1> QED
    BY <1>1, <1>2, <1>3, <1>4, WhoMovesPhotos

LEMMA EditsStay ==
  ASSUME OrdersInv, PhotoInv, [Next]_vars, NEW r \in Requests
  PROVE  EditsStayHome(r)' /\ LoadedAsPending(r)'
  <1> USE DEF OrdersInv, RequestTypes
  <1>1. EditsStayHome(r) /\ LoadedAsPending(r)
    BY DEF PhotoInv
  <1>2. CASE Receive(r)
    BY <1>2 DEF Receive, Goto, EditsStayHome, LoadedAsPending
  <1>3. CASE pc'[r] = "done"
    BY <1>3 DEF EditsStayHome, LoadedAsPending
  <1>4. CASE /\ pc'[r] = pc[r] /\ order'[r] = order[r]
             /\ attachments'[r] = attachments[r] /\ call'[r] = call[r]
    BY <1>1, <1>4 DEF EditsStayHome, LoadedAsPending, HomesOf
  <1>5. CASE Step(r) /\ pc'[r] \in {"loaded", "new", "removed"}
    <2>1. CacheGet(r) \/ CacheSet(r) \/ EditFields(r) \/ AttachNew(r)
      BY <1>5 DEF Step, Goto, Finish, VerifyRole, FindRow, ChangeStatus,
         SetStatus, StartDelivery, AttachProof, Attach, CheckPhotos, MarkDelivered,
         AttachRemoved, SaveRow, AfterSave, GetOrder, DeleteOrder, FindRecipient,
         FindCourier, LoadCourier, InsertRow, FindUser, RemoveUser
    <2>2. call[r] # NoCall /\ call[r].order \in OrderIds /\ pc[r] \in Waits /\ call' = call
      BY <2>1, CallParts DEF ControlOf, Waits, CacheGet, CacheSet, EditFields, AttachNew, Attach
    <2>3. CASE CacheGet(r)
      <3>1. cache[call[r].order] # NoRow => cache[call[r].order] \in Rows
        BY <2>2 DEF TableTypes
      <3>2. /\ pc'[r] = "loaded"
            /\ order'[r] = ToDomain(cache[call[r].order]) /\ cache[call[r].order] # NoRow
        BY <1>5, <2>3 DEF CacheGet, Goto
      <3> QED
        BY <3>1, <3>2 DEF ToDomain, Rows, EditsStayHome, LoadedAsPending
    <2>4. CASE CacheSet(r)
      <3>1. order[r] \in Rows
        BY <2>4 DEF CacheSet, ControlOf, Loaded
      <3>2. pc'[r] = "loaded" /\ order'[r] = ToDomain(order[r])
        BY <2>4 DEF CacheSet, Goto
      <3> QED
        BY <3>1, <3>2 DEF ToDomain, Rows, EditsStayHome, LoadedAsPending
    <2>5. CASE EditFields(r)
      <3>1. order[r] \in Rows /\ order[r].status = "PENDING"
        BY <1>1, <2>5 DEF EditFields, ControlOf, Loaded, LoadedAsPending
      <3>2. order'[r] = [order[r] EXCEPT !.recipient = call[r].recipient, !.slug = call[r].slug]
        BY <2>5 DEF EditFields
      <3>3. order'[r].status = "PENDING"
        BY <3>1, <3>2 DEF Rows
      <3>4. /\ call[r].photos # {}
            /\ attachments'[r].new \subseteq call[r].photos
            /\ attachments'[r].removed \subseteq PhotosOf(call[r].order)
        BY <1>5, <2>5 DEF EditFields, Goto, Update, Constructed
      <3>5. \A p \in PhotosOf(call[r].order) : call[r].order \in HomesOf(p)
        BY <2>2, NullsAssumption DEF PhotosOf, PhotoInv, PhotosAtHome
      <3> QED
        BY <2>2, <3>3, <3>4, <3>5 DEF EditsStayHome, LoadedAsPending, HomesOf
    <2>6. CASE AttachNew(r)
      <3>1. pc[r] = "new" /\ order' = order /\ attachments' = attachments
        BY <2>6 DEF AttachNew, Attach
      <3> QED
        BY <1>1, <2>2, <3>1 DEF EditsStayHome, LoadedAsPending, HomesOf
    <2> QED
      BY <2>1, <2>3, <2>4, <2>5, <2>6
  <1>6. CASE pc'[r] \notin {"loaded", "new", "removed"}
    BY <1>6 DEF EditsStayHome, LoadedAsPending
  <1> QED
    BY <1>2, <1>3, <1>4, <1>5, <1>6, WhoseTurn

LEMMA ChecksStay ==
  ASSUME OrdersInv, PhotoInv, [Next]_vars, NEW r \in Requests
  PROVE  CheckedIsCovered(r)'
  <1> USE DEF OrdersInv, RequestTypes
  <1>1. CheckedIsCovered(r) /\ LoadedAsPending(r)
    BY DEF PhotoInv
  <1> SUFFICES ASSUME pc'[r] = "raise" \/ (pc'[r] = "row" /\ order'[r].status = "DELIVERED"),
                      NEW o \in OrderIds, o = call'[r].order
               PROVE  Covered(o)' \/ Gone(o)'
    BY DEF CheckedIsCovered
  <1>2. ASSUME call[r] # NoCall, call[r].order = o, Covered(o) \/ Gone(o)
        PROVE  Covered(o)' \/ Gone(o)'
    BY <1>2, CoverStays, GoneStays
  <1>3. ~Receive(r)
    BY DEF Receive, Goto
  <1>4. CASE /\ pc'[r] = pc[r] /\ order'[r] = order[r] /\ call'[r] = call[r]
    <2>1. call[r] # NoCall
      BY <1>4 DEF ControlOf
    <2> QED
      BY <1>1, <1>2, <1>4, <2>1 DEF CheckedIsCovered
  <1>5. CASE Step(r)
    <2>1. \/ CheckPhotos(r) \/ MarkDelivered(r)
          \/ ChangeStatus(r) \/ EditFields(r) \/ AttachRemoved(r)
      BY <1>5 DEF Step, Goto, Finish, VerifyRole, CacheGet, FindRow, CacheSet,
         StartDelivery, AttachProof, Attach, AttachNew,
         SaveRow, AfterSave, GetOrder, DeleteOrder, FindRecipient,
         FindCourier, LoadCourier, InsertRow, FindUser, RemoveUser
    <2>2. call[r] # NoCall /\ call[r].order = o
      <3>1. call[r] # NoCall
        BY <2>1 DEF ControlOf, CheckPhotos, MarkDelivered, ChangeStatus, EditFields, AttachRemoved
      <3> QED
        BY <3>1, CallsStay
    <2>3. CASE CheckPhotos(r)
      <3>1. PhotosOf(o) # {}
        BY <2>2, <2>3 DEF CheckPhotos, Finish
      <3> QED
        BY <1>2, <2>2, <3>1 DEF Covered
    <2>4. CASE MarkDelivered(r)
      <3>1. Covered(o) \/ Gone(o)
        BY <1>1, <2>2, <2>4 DEF MarkDelivered, CheckedIsCovered
      <3> QED
        BY <1>2, <2>2, <3>1
    <2>5. CASE ChangeStatus(r)
      <3>1. SetStatus(r, TRUE) \/ SetStatus(r, FALSE)
        BY <2>5 DEF ChangeStatus, Finish
      <3>2. order[r] \in Rows
        BY <2>5 DEF ChangeStatus, ControlOf, Loaded
      <3>3. order'[r].status = call[r].status
        BY <3>1, <3>2 DEF SetStatus, Rows
      <3> QED
        BY <2>5, <3>1, <3>3 DEF ChangeStatus, SetStatus, Goto
    <2>6. CASE EditFields(r)
      <3>1. order[r] \in Rows /\ order[r].status = "PENDING"
        BY <1>1, <2>6 DEF EditFields, ControlOf, Loaded, LoadedAsPending
      <3>2. order'[r] = [order[r] EXCEPT !.recipient = call[r].recipient, !.slug = call[r].slug]
        BY <2>6 DEF EditFields
      <3>3. order'[r].status = "PENDING"
        BY <3>1, <3>2 DEF Rows
      <3>4. pc'[r] # "raise"
        BY <2>6 DEF EditFields, Goto
      <3> QED
        BY <3>3, <3>4
    <2>7. CASE AttachRemoved(r)
      BY <1>1, <2>7 DEF AttachRemoved, Attach, Goto, Finish, LoadedAsPending
    <2> QED
      BY <2>1, <2>3, <2>4, <2>5, <2>6, <2>7
  <1> QED
    BY <1>3, <1>4, <1>5, WhoseTurn

LEMMA DeliveriesStayCovered ==
  ASSUME OrdersInv, PhotoInv, [Next]_vars
  PROVE  DeliveredIsCovered'
  <1> USE DEF OrdersInv
  <1> SUFFICES ASSUME NEW o \in OrderIds, orders'[o] # NoRow, orders'[o].status = "DELIVERED"
               PROVE  Covered(o)'
    BY DEF DeliveredIsCovered
  <1>1. ~Gone(o)'
    BY DEF Gone
  <1>2. SUFFICES Covered(o)
    BY <1>1, CoverStays
  <1>3. orders[o] # NoRow /\ orders[o].status = "DELIVERED" => Covered(o)
    BY DEF PhotoInv, DeliveredIsCovered
  <1>4. ASSUME NEW r \in Requests, SaveRow(r) PROVE Covered(o)
    <2>1. CASE orders'[o] = orders[o]
      BY <1>3, <2>1
    <2>2. CASE orders'[o] # orders[o]
      <3>1. /\ pc[r] = "row" /\ call[r].order = o /\ orders[o] # NoRow
            /\ orders'[o] = Written(r, orders[o])
        BY <1>4, <2>2 DEF SaveRow, TableTypes
      <3>2. order[r] \in Rows /\ orders[o] \in Rows
        BY <3>1 DEF ControlOf, Loaded, TableTypes
      <3>3. Written(r, orders[o]).status = order[r].status
        BY <3>2 DEF Written, Rows
      <3>4. Covered(o) \/ Gone(o)
        BY <3>1, <3>3 DEF PhotoInv, CheckedIsCovered
      <3> QED
        BY <3>1, <3>4 DEF Gone
    <2> QED
      BY <2>1, <2>2
  <1>5. ASSUME NEW r \in Requests, DeleteOrder(r) PROVE Covered(o)
    BY <1>3, <1>5 DEF DeleteOrder, TableTypes
  <1>6. ASSUME NEW r \in Requests, InsertRow(r) PROVE Covered(o)
    BY <1>3, <1>6 DEF InsertRow, TableTypes
  <1>7. ASSUME NEW r \in Requests, RemoveUser(r) PROVE Covered(o)
    <2>1. \/ orders'[o] = orders[o]
          \/ orders[o] # NoRow /\ orders'[o] = [orders[o] EXCEPT !.courier = NoUser]
      BY <1>7 DEF RemoveUser, TableTypes
    <2>2. orders[o] # NoRow => orders[o] \in Rows
      BY DEF TableTypes
    <2>3. orders[o] # NoRow /\ orders[o].status = "DELIVERED"
      BY <2>1, <2>2 DEF Rows
    <2> QED
      BY <1>3, <2>3
  <1> QED
    BY <1>3, <1>4, <1>5, <1>6, <1>7, WhoWritesOrders

LEMMA PhotosStep == OrdersInv /\ PhotoInv /\ [Next]_vars => PhotoInv'
  <1> SUFFICES ASSUME OrdersInv, PhotoInv, [Next]_vars PROVE PhotoInv'
    OBVIOUS
  <1>1. NamedCalls'
    BY CallsStay DEF PhotoInv, NamedCalls
  <1>2. PhotosAtHome'
    BY HomesAreKept
  <1>3. \A r \in Requests : EditsStayHome(r)' /\ LoadedAsPending(r)' /\ CheckedIsCovered(r)'
    BY EditsStay, ChecksStay
  <1>4. DeliveredIsCovered'
    BY DeliveriesStayCovered
  <1> QED
    BY <1>1, <1>2, <1>3, <1>4 DEF PhotoInv

\* Whatever the requests and however they interleave: a delivered order is
\* without a photo only if a request gave photos to another order that shares
\* one with it.  No edit or deletion of an order, and no save of a stale copy,
\* leaves it delivered without one.
THEOREM PhotoLossNeedsClaim ==
  InitialDeliveriesHavePhotos => (Spec => []DeliveredIsCovered)
  <1>1. PhotoInv => DeliveredIsCovered
    BY DEF PhotoInv
  <1> QED
    BY <1>1, PhotosAtStart, PhotosStep, InitEstablishes, StepPreserves, PTL DEF Spec

\* Where no photo is shared, every delivered order has one.
THEOREM DeliveriesHavePhotos ==
  InitialDeliveriesHavePhotos /\ PhotosHaveOneHome => (Spec => []DeliveredHasPhoto)
  <1> SUFFICES ASSUME InitialDeliveriesHavePhotos, PhotosHaveOneHome
               PROVE  Spec => []DeliveredHasPhoto
    OBVIOUS
  <1>1. ASSUME PhotoInv PROVE DeliveredHasPhoto
    <2>1. \A o \in OrderIds : ~Claimed(o)
      BY DEF Claimed, PhotosHaveOneHome
    <2> QED
      BY <1>1, <2>1 DEF PhotoInv, DeliveredIsCovered, DeliveredHasPhoto, Covered
  <1> QED
    BY <1>1, PhotosAtStart, PhotosStep, InitEstablishes, StepPreserves, PTL DEF Spec

-----------------------------------------------------------------------------

(* What is owed to the recipient of a status change *)

\* The INSERT of a notification about this object is under way, or done.
Announced(object) == \E n \in inserting \cup notifications : n.about = object

\* The object has not dispatched its change of status.
Owes(object) ==
  \E k \in DOMAIN domainEvents[object] : domainEvents[object][k].class = "OrderStatusChanged"

\* A status change that reaches its save has raised its event.
SavesHaveRaised ==
  \A r \in Requests :
    /\ call[r] # NoCall /\ call[r].op = "status"
    /\ pc[r] \in {"row", "saved"} \/ result[r] = "ok"
    => raised[OrderOf(r)] > 0

\* Requests are served only once the subscriber has registered.
ServedAreHeard ==
  \A r \in Requests : pc[r] # "idle" => "notify" \in handlersMap["OrderStatusChanged"]

\* Whoever dispatches it, a change that was raised is owed or announced.
RaisedIsAnnounced ==
  \A r \in Requests, o \in OrderIds :
    raised[<<r, o>>] > 0 => Owes(<<r, o>>) \/ Announced(<<r, o>>)

HeardInv ==
  SavesHaveRaised /\ (restarts = 0 => ServedAreHeard /\ RaisedIsAnnounced)

\* A status change that was answered with success has its notification, or an
\* INSERT of it under way, unless the process went down or another request
\* changed the status of the order.
AnsweredIsAnnounced ==
  \A r \in Requests :
    result[r] = "ok" /\ call[r].op = "status" =>
      \/ Announced(OrderOf(r))
      \/ restarts > 0
      \/ \E q \in Requests \ {r} : raised[<<q, call[r].order>>] > 0

\* A step that raises events of one object of the request.
Raises(r) ==
  \E x \in OrderIds \cup Users, cs \in Seq(EventClasses) :
    /\ Registry!AddDomainEvents(<<r, x>>, cs)
    /\ x \in OrderIds => \E j \in DOMAIN cs : cs[j] = "OrderStatusChanged"
    /\ UNCHANGED <<call, inserting, notifications, restarts, result>>
    /\ pc[r] # "idle" /\ \A q \in Requests \ {r} : pc'[q] = pc[q]

LEMMA SetStatusRaises ==
  ASSUME OrdersInv, NEW r \in Requests, NEW reassigned \in BOOLEAN, SetStatus(r, reassigned),
         pc[r] \in {"loaded", "raise"},
         UNCHANGED <<dbVars, call, inserting, restarts>>
  PROVE  Raises(r) /\ raised'[OrderOf(r)] > 0
  <1> DEFINE cs == IF reassigned THEN <<"CourierAssigned", "OrderStatusChanged">>
                                 ELSE <<"OrderStatusChanged">>
  <1>1. call[r] # NoCall /\ call[r].order \in OrderIds
    BY CallParts DEF OrdersInv, ControlOf
  <1>2. cs \in Seq(EventClasses) /\ \E j \in DOMAIN cs : cs[j] = "OrderStatusChanged"
    <2>1. CASE reassigned
      <3>1. <<"CourierAssigned", "OrderStatusChanged">> \in Seq(EventClasses)
        BY DEF EventClasses
      <3>2. 2 \in DOMAIN cs /\ cs[2] = "OrderStatusChanged"
        BY <2>1
      <3> QED
        BY <2>1, <3>1, <3>2
    <2>2. CASE ~reassigned
      <3>1. <<"OrderStatusChanged">> \in Seq(EventClasses)
        BY DEF EventClasses
      <3>2. 1 \in DOMAIN cs /\ cs[1] = "OrderStatusChanged"
        BY <2>2
      <3> QED
        BY <2>2, <3>1, <3>2
    <2> QED
      BY <2>1, <2>2
  <1>3. Registry!AddDomainEvents(<<r, call[r].order>>, cs) /\ Goto(r, "row")
    BY DEF SetStatus, OrderOf
  <1> HIDE DEF cs
  <1>4. Raises(r)
    BY <1>1, <1>2, <1>3 DEF Raises, Goto, dbVars, OrdersInv, RequestTypes
  <1>5. <<r, call[r].order>> \in Objects
    BY <1>1 DEF Objects
  <1>6. RegistryProofs!AddDomainEvents(<<r, call[r].order>>, cs)
    BY <1>3, SameRegistry
  <1>7. raised'[<<r, call[r].order>>] > 0
    BY <1>2, <1>5, <1>6, RegistryAssumptions, RegistryProofs!AddDomainEventsEffect DEF OrdersInv
  <1> QED
    BY <1>4, <1>7 DEF OrderOf

LEMMA LoadCourierRaises ==
  ASSUME OrdersInv, NEW r \in Requests, FindCourier(r) \/ FindUser(r), ~UNCHANGED eventVars
  PROVE  Raises(r)
  <1>1. PICK user, next : LoadCourier(r, user, next)
    BY DEF FindCourier, FindUser
  <1>2. /\ user \in users
        /\ Registry!AddDomainEvents(<<r, user>>, <<"CourierRegistered">>)
        /\ Goto(r, next)
    BY <1>1 DEF LoadCourier
  <1>3. user \in Users /\ user \notin OrderIds
    BY <1>2, SeparateIds DEF OrdersInv, TableTypes
  <1>4. <<"CourierRegistered">> \in Seq(EventClasses)
    BY DEF EventClasses
  <1>5. pc[r] # "idle"
    BY DEF FindCourier, FindUser
  <1>6. UNCHANGED <<call, inserting, notifications, restarts>>
    BY <1>1 DEF LoadCourier, dbVars
  <1> QED
    BY <1>2, <1>3, <1>4, <1>5, <1>6 DEF Raises, Goto, OrdersInv, RequestTypes

\* A step of one request moves and answers no other.
LEMMA OthersStand ==
  ASSUME OrdersInv, NEW r \in Requests, NEW q \in Requests, q # r, Receive(q) \/ Step(q)
  PROVE  pc'[r] = pc[r] /\ result'[r] = result[r]
  BY DEF OrdersInv, RequestTypes, Receive, Step, Goto, Finish, VerifyRole, CacheGet, FindRow,
     CacheSet, ChangeStatus, SetStatus, StartDelivery, AttachProof, Attach, CheckPhotos,
     MarkDelivered, EditFields, AttachNew, AttachRemoved, SaveRow, AfterSave, GetOrder,
     DeleteOrder, FindRecipient, FindCourier, LoadCourier, InsertRow, FindUser, RemoveUser

\* The steps of a request that touch the registry raise or dispatch.
LEMMA WhoRaises ==
  ASSUME OrdersInv, NEW r \in Requests, Step(r)
  PROVE  \/ Raises(r)
         \/ AfterSave(r)
         \/ UNCHANGED <<eventVars, call, inserting, notifications, restarts>>
  <1>1. CASE ChangeStatus(r)
    <2>1. UNCHANGED <<dbVars, call, inserting, restarts>> /\ pc[r] = "loaded"
      BY <1>1 DEF ChangeStatus
    <2>2. CASE \E reassigned \in BOOLEAN : SetStatus(r, reassigned)
      BY <2>1, <2>2, SetStatusRaises
    <2> QED
      BY <1>1, <2>1, <2>2 DEF ChangeStatus, dbVars
  <1>2. CASE MarkDelivered(r)
    BY <1>2, SetStatusRaises DEF MarkDelivered
  <1>3. CASE FindCourier(r) \/ FindUser(r)
    BY <1>3, LoadCourierRaises DEF FindCourier, FindUser, LoadCourier, dbVars
  <1> QED
    BY <1>1, <1>2, <1>3 DEF Step, VerifyRole, CacheGet, FindRow, CacheSet, dbVars,
       StartDelivery, AttachProof, Attach, CheckPhotos, EditFields, AttachNew,
       AttachRemoved, SaveRow, GetOrder, DeleteOrder, FindRecipient, InsertRow, RemoveUser

LEMMA RaisingAnnounces ==
  ASSUME OrdersInv, HeardInv, NEW r \in Requests, Raises(r)
  PROVE  /\ \A object \in Objects : raised[object] > 0 => raised'[object] > 0
         /\ restarts' = 0 => ServedAreHeard' /\ RaisedIsAnnounced'
  <1> USE DEF OrdersInv
  <1>1. PICK x \in OrderIds \cup Users, cs \in Seq(EventClasses) :
          /\ Registry!AddDomainEvents(<<r, x>>, cs)
          /\ x \in OrderIds => \E j \in DOMAIN cs : cs[j] = "OrderStatusChanged"
    BY DEF Raises
  <1>2. /\ UNCHANGED <<call, inserting, notifications, restarts, result>>
        /\ pc[r] # "idle" /\ \A q \in Requests \ {r} : pc'[q] = pc[q]
    BY DEF Raises
  <1> DEFINE a == <<r, x>>
  <1>3. a \in Objects /\ RegistryProofs!AddDomainEvents(a, cs)
    BY <1>1, SameRegistry DEF Objects
  <1>4. /\ UNCHANGED handlersMap
        /\ raised'[a] > 0
        /\ \A b \in Objects \ {a} : /\ raised'[b] = raised[b]
                                    /\ domainEvents'[b] = domainEvents[b]
    BY <1>3, RegistryAssumptions, RegistryProofs!AddDomainEventsEffect
  <1>5. /\ \A k \in DOMAIN domainEvents[a] :
             \E i \in DOMAIN domainEvents'[a] : domainEvents'[a][i] = domainEvents[a][k]
        /\ \A j \in DOMAIN cs :
             \E i \in DOMAIN domainEvents'[a] : domainEvents'[a][i].class = cs[j]
    BY <1>3, RegistryAssumptions, RegistryProofs!AddedAreOwed
  <1> HIDE DEF a
  <1>6. \A object \in Objects : raised[object] > 0 => raised'[object] > 0
    BY <1>4
  <1>7. ASSUME restarts = 0 PROVE ServedAreHeard' /\ RaisedIsAnnounced'
    <2>1. ServedAreHeard'
      BY <1>2, <1>4, <1>7 DEF HeardInv, ServedAreHeard
    <2>2. ASSUME NEW q \in Requests, NEW o \in OrderIds, raised'[<<q, o>>] > 0
          PROVE  Owes(<<q, o>>)' \/ Announced(<<q, o>>)'
      <3>1. CASE <<q, o>> = a
        <4>1. \E j \in DOMAIN cs : cs[j] = "OrderStatusChanged"
          BY <3>1, <1>1 DEF a
        <4> QED
          BY <3>1, <4>1, <1>5 DEF Owes
      <3>2. CASE <<q, o>> # a
        <4>1. /\ raised[<<q, o>>] > 0
              /\ domainEvents'[<<q, o>>] = domainEvents[<<q, o>>]
          BY <3>2, <2>2, <1>4 DEF Objects
        <4>2. Owes(<<q, o>>) \/ Announced(<<q, o>>)
          BY <4>1, <1>7 DEF HeardInv, RaisedIsAnnounced
        <4> QED
          BY <4>1, <4>2, <1>2 DEF Owes, Announced
      <3> QED
        BY <3>1, <3>2
    <2> QED
      BY <2>1, <2>2 DEF RaisedIsAnnounced
  <1> QED
    BY <1>2, <1>6, <1>7

\* Whatever the dispatch takes off the list of an object, it tells the
\* subscriber: the notification built from it is about that object.
LEMMA DispatchingAnnounces ==
  ASSUME OrdersInv, HeardInv, NEW r \in Requests, AfterSave(r)
  PROVE  /\ raised' = raised
         /\ restarts' = 0 => ServedAreHeard' /\ RaisedIsAnnounced'
  <1> USE DEF OrdersInv
  <1> DEFINE id == call[r].order
  <1>1. /\ pc[r] = "saved" /\ Finish(r, "ok")
        /\ Registry!DispatchEventsForAggregate(id)
        /\ inserting' = inserting \cup {NotificationFor(c[2].from) : c \in called' \ called}
        /\ UNCHANGED <<dbVars, call, order, attachments, restarts>>
    BY DEF AfterSave
  <1>2. id \in OrderIds \cup Users
    BY <1>1, CallParts DEF ControlOf
  <1>3. RegistryProofs!DispatchEventsForAggregate(id)
    BY <1>1, SameRegistry
  <1>4. /\ UNCHANGED <<handlersMap, raised>>
        /\ \A b \in Objects : domainEvents'[b] \in {domainEvents[b], <<>>}
    BY <1>2, <1>3, RegistryAssumptions, RegistryProofs!DispatchEffect
  <1> HIDE DEF id
  <1>5. ASSUME restarts = 0 PROVE ServedAreHeard' /\ RaisedIsAnnounced'
    <2>1. "notify" \in handlersMap["OrderStatusChanged"]
      BY <1>1, <1>5 DEF HeardInv, ServedAreHeard
    <2>2. ServedAreHeard'
      BY <2>1, <1>4 DEF ServedAreHeard
    <2>3. ASSUME NEW q \in Requests, NEW o \in OrderIds, raised'[<<q, o>>] > 0
          PROVE  Owes(<<q, o>>)' \/ Announced(<<q, o>>)'
      <3> DEFINE b == <<q, o>>
      <3>1. b \in Objects
        BY DEF Objects
      <3>2. Owes(b) \/ Announced(b)
        BY <2>3, <1>4, <1>5 DEF HeardInv, RaisedIsAnnounced
      <3>3. CASE Announced(b)
        BY <3>3, <1>1 DEF Announced, dbVars
      <3>4. CASE Owes(b) /\ domainEvents'[b] = domainEvents[b]
        BY <3>4 DEF Owes
      <3>5. CASE Owes(b) /\ domainEvents'[b] = <<>>
        <4> HIDE DEF b
        <4>1. PICK k \in DOMAIN domainEvents[b] : domainEvents[b][k].class = "OrderStatusChanged"
          BY <3>5 DEF Owes
        <4>2. "notify" \in handlersMap[domainEvents[b][k].class]
          BY <4>1, <2>1
        <4>3. /\ <<"notify", domainEvents[b][k]>> \in called' \ called
              /\ domainEvents[b][k].from = b
          BY <1>2, <1>3, <3>1, <3>5, <4>2, RegistryAssumptions, RegistryProofs!DispatchDelivers
        <4>4. NotificationFor(b) \in inserting'
          BY <4>3, <1>1
        <4>5. NotificationFor(b).about = b
          BY DEF NotificationFor
        <4>6. Announced(b)'
          BY <4>4, <4>5 DEF Announced
        <4> QED
          BY <4>6 DEF b
      <3> QED
        BY <3>1, <3>2, <3>3, <3>4, <3>5, <1>4
    <2> QED
      BY <2>2, <2>3 DEF RaisedIsAnnounced
  <1> QED
    BY <1>1, <1>4, <1>5

\* The registry is left alone, and what was announced stays announced.
LEMMA StillAnnounced ==
  ASSUME OrdersInv, HeardInv, UNCHANGED eventVars,
         restarts' = restarts,
         \A object : Announced(object) => Announced(object)',
         \A r \in Requests : pc[r] = "idle" /\ pc'[r] # "idle" =>
           "notify" \in handlersMap["OrderStatusChanged"]
  PROVE  restarts' = 0 => ServedAreHeard' /\ RaisedIsAnnounced'
  <1> SUFFICES ASSUME restarts = 0 PROVE ServedAreHeard' /\ RaisedIsAnnounced'
    OBVIOUS
  <1>1. ServedAreHeard'
    BY DEF HeardInv, ServedAreHeard, eventVars
  <1>2. ASSUME NEW q \in Requests, NEW o \in OrderIds, raised'[<<q, o>>] > 0
        PROVE  Owes(<<q, o>>)' \/ Announced(<<q, o>>)'
    <2>1. Owes(<<q, o>>) \/ Announced(<<q, o>>)
      BY <1>2 DEF HeardInv, RaisedIsAnnounced, eventVars
    <2>2. Owes(<<q, o>>) => Owes(<<q, o>>)'
      BY DEF Owes, eventVars
    <2> QED
      BY <2>1, <2>2
  <1> QED
    BY <1>1, <1>2 DEF RaisedIsAnnounced

\* A request is at a save of a changed status, or answered for it, only after
\* SetStatus.
LEMMA SavesStillRaised ==
  ASSUME OrdersInv, HeardInv, [Next]_vars,
         \A object \in Objects : raised[object] > 0 => raised'[object] > 0
  PROVE  SavesHaveRaised'
  <1> USE DEF OrdersInv
  <1> DEFINE Saves(r) == pc[r] \in {"row", "saved"} \/ result[r] = "ok"
  <1> SUFFICES ASSUME NEW r \in Requests, call'[r] # NoCall, call'[r].op = "status", Saves(r)'
               PROVE  raised'[OrderOf(r)'] > 0
    BY DEF SavesHaveRaised, Saves
  <1>1. CASE call[r] # NoCall /\ call[r].op = "status" /\ Saves(r)
    <2>1. raised[OrderOf(r)] > 0
      BY <1>1 DEF HeardInv, SavesHaveRaised, Saves
    <2>2. OrderOf(r) \in Objects /\ OrderOf(r)' = OrderOf(r)
      BY <1>1, CallParts, CallsStay DEF OrderOf, Objects
    <2> QED
      BY <2>1, <2>2
  <1>2. CASE call'[r] # call[r]
    <2>1. Receive(r)
      BY <1>2, CallsStay
    <2>2. pc'[r] \in {"get", "auth"} /\ result'[r] = "none"
      BY <2>1 DEF Receive, Goto, ControlOf, RequestTypes
    <2> QED
      BY <2>2 DEF Saves
  <1>3. CASE call'[r] = call[r] /\ call[r].op = "status" /\ ~Saves(r)
    <2>1. call[r] # NoCall /\ pc[r] # "idle"
      BY <1>3 DEF ControlOf
    <2>2. Step(r)
      <3>1. ~Receive(r)
        BY <2>1 DEF Receive
      <3>2. ASSUME NEW q \in Requests, q # r, Receive(q) \/ Step(q) PROVE FALSE
        BY <3>2, <1>3, OthersStand DEF Saves
      <3>3. ASSUME ProcessDown PROVE FALSE
        BY <3>3, <1>3 DEF ProcessDown, Saves, Waits, RequestTypes
      <3> QED
        BY <3>1, <3>2, <3>3, <1>3 DEF Next, vars, Boot, InsertNotification, InsertRefused,
           CacheExpire, Saves
    <2>3. CASE ChangeStatus(r)
      <3>1. ~Finish(r, "notAllowed")
        BY <1>3 DEF Finish, Saves, RequestTypes
      <3>2. PICK reassigned \in BOOLEAN : SetStatus(r, reassigned)
        BY <2>3, <3>1 DEF ChangeStatus
      <3>3. raised'[OrderOf(r)] > 0
        BY <2>3, <3>2, SetStatusRaises DEF ChangeStatus
      <3> QED
        BY <3>3, <1>3 DEF OrderOf
    <2>4. CASE MarkDelivered(r)
      <3>1. raised'[OrderOf(r)] > 0
        BY <2>4, SetStatusRaises DEF MarkDelivered
      <3> QED
        BY <3>1, <1>3 DEF OrderOf
    <2> QED
      BY <2>2, <2>3, <2>4, <1>3, <2>1 DEF Step, Goto, Finish, Saves, RequestTypes, ControlOf,
         Fits, VerifyRole, CacheGet, FindRow, CacheSet, StartDelivery, AttachProof, Attach,
         CheckPhotos, EditFields, AttachNew, AttachRemoved, SaveRow, AfterSave, GetOrder,
         DeleteOrder, FindRecipient, FindCourier, LoadCourier, InsertRow, FindUser, RemoveUser
  <1> QED
    BY <1>1, <1>2, <1>3

LEMMA HeardAtStart == Init => HeardInv
  <1> SUFFICES ASSUME Init PROVE HeardInv
    OBVIOUS
  <1>1. raised = [object \in Objects |-> 0]
    BY DEF Init, Registry!Init
  <1>2. SavesHaveRaised /\ ServedAreHeard
    BY DEF Init, SavesHaveRaised, ServedAreHeard
  <1>3. RaisedIsAnnounced
    BY <1>1 DEF RaisedIsAnnounced, Objects
  <1> QED
    BY <1>2, <1>3 DEF HeardInv

LEMMA HeardStep == OrdersInv /\ HeardInv /\ [Next]_vars => HeardInv'
  <1> SUFFICES ASSUME OrdersInv, HeardInv, [Next]_vars PROVE HeardInv'
    OBVIOUS
  <1> DEFINE Keeps == /\ \A object \in Objects : raised[object] > 0 => raised'[object] > 0
                      /\ restarts' = 0 => ServedAreHeard' /\ RaisedIsAnnounced'
  <1>1. CASE Boot
    <2>1. /\ handlersMap' = [handlersMap EXCEPT !["OrderStatusChanged"] = @ \cup {"notify"}]
          /\ UNCHANGED <<notifications, inserting, restarts, pc, domainEvents, raised>>
      BY <1>1 DEF Boot, Registry!Register, dbVars
    <2>2. "OrderStatusChanged" \in DOMAIN handlersMap
      BY DEF OrdersInv, RegistryProofs!IInv, RegistryProofs!TypeOK, EventClasses
    <2>3. Keeps
      BY <2>1, <2>2 DEF HeardInv, ServedAreHeard, RaisedIsAnnounced, Owes, Announced
    <2> QED
      BY <2>3, SavesStillRaised DEF HeardInv
  <1>2. ASSUME NEW r \in Requests, Receive(r) PROVE Keeps
    <2>1. /\ UNCHANGED <<notifications, inserting, restarts, eventVars>>
          /\ "notify" \in handlersMap["OrderStatusChanged"]
      BY <1>2 DEF Receive, dbVars
    <2> QED
      BY <2>1, StillAnnounced DEF Announced, eventVars
  <1>3. ASSUME NEW r \in Requests, Step(r) PROVE Keeps
    <2>1. CASE UNCHANGED <<eventVars, call, inserting, notifications, restarts>>
      <3>1. \A q \in Requests : pc[q] = "idle" => pc'[q] = "idle"
        BY <1>3, StepsWait, OthersStand DEF Waits
      <3> QED
        BY <2>1, <3>1, StillAnnounced DEF Announced, eventVars
    <2> QED
      BY <1>3, <2>1, WhoRaises, RaisingAnnounces, DispatchingAnnounces
  <1>4. ASSUME NEW n \in inserting, InsertNotification(n) PROVE Keeps
    <2>1. UNCHANGED <<restarts, pc, eventVars>>
      BY <1>4 DEF InsertNotification
    <2>2. inserting \cup notifications \subseteq inserting' \cup notifications'
      BY <1>4 DEF InsertNotification
    <2>3. \A object : Announced(object) => Announced(object)'
      BY <2>2 DEF Announced
    <2> QED
      BY <2>1, <2>3, StillAnnounced DEF eventVars
  <1>5. CASE ProcessDown
    <2>1. restarts' # 0 /\ raised' = raised
      BY <1>5 DEF ProcessDown, Registry!Restart, OrdersInv, TableTypes
    <2> QED
      BY <2>1, SavesStillRaised DEF HeardInv
  <1>6. CASE \/ \E o \in OrderIds : CacheExpire(o)
             \/ UNCHANGED vars
    <2>1. UNCHANGED <<notifications, inserting, restarts, pc, eventVars>>
      BY <1>6 DEF CacheExpire, vars, dbVars
    <2>2. Keeps
      BY <2>1, StillAnnounced DEF Announced, eventVars
    <2> QED
      BY <2>2, SavesStillRaised DEF HeardInv
  <1>7. ASSUME Keeps PROVE HeardInv'
    BY <1>7, SavesStillRaised DEF HeardInv
  <1> QED
    BY <1>1, <1>2, <1>3, <1>4, <1>5, <1>6, <1>7 DEF Next, InsertRefused

\* Whatever the requests and however they interleave: a status change that was
\* answered with success has its notification stored or on its way, unless the
\* process went down or another request changed the status of the order.  That
\* what is on its way arrives is left to the fairness of the INSERT.
THEOREM AnsweredAreAnnounced == Spec => []AnsweredIsAnnounced
  <1>1. ASSUME OrdersInv, HeardInv PROVE AnsweredIsAnnounced
    <2> USE <1>1 DEF OrdersInv
    <2> SUFFICES ASSUME NEW r \in Requests, result[r] = "ok", call[r].op = "status",
                        ~Announced(OrderOf(r)), restarts = 0
                 PROVE  \E q \in Requests \ {r} : raised[<<q, call[r].order>>] > 0
      BY DEF AnsweredIsAnnounced, TableTypes
    <2>1. call[r] # NoCall /\ call[r].order \in OrderIds
      BY CallParts DEF ControlOf
    <2>2. raised[OrderOf(r)] > 0
      BY <2>1 DEF HeardInv, SavesHaveRaised
    <2>3. domainEvents[OrderOf(r)] # <<>>
      BY <2>1, <2>2 DEF HeardInv, RaisedIsAnnounced, OrderOf, Owes
    <2>4. ~RegistryProofs!IsMarked(<<r, call[r].order>>)
      BY OwnUnmarkedMeans DEF OrderOf
    <2> QED
      BY <2>1, <2>3, <2>4 DEF BacklogMarkedOrShadowed, OrderOf
  <1> QED
    BY <1>1, HeardAtStart, HeardStep, InitEstablishes, StepPreserves, PTL DEF Spec

-----------------------------------------------------------------------------

(* How a cached order comes to differ from its row *)

\* The request has written the row, and its DEL is to come.
Resetting(q, o) == pc[q] = "saved" /\ call[q].order = o

\* One request saved the order and another one read it.
SavedAndRead(o) ==
  \E q, r \in Requests :
    /\ q # r
    /\ call[q] # NoCall /\ call[q].order = o
    /\ call[q].op \in {"status", "edit"} /\ result[q] = "ok"
    /\ call[r] # NoCall /\ call[r].order = o
    /\ call[r].op \in {"status", "edit", "delete", "get"}

\* Why a row of the order that was read earlier may not be its row now: the
\* order is deleted, or its courier (both leave the cache alone), the process
\* went down between an UPDATE and its DEL, a DEL is to come, or a request read
\* the order and another saved it.
Outdated(row, o) ==
  \/ orders[o] = NoRow
  \/ row.courier \notin users \cup {NoUser}
  \/ restarts > 0
  \/ \E q \in Requests : Resetting(q, o)
  \/ SavedAndRead(o)

StaleHasCause ==
  \A o \in OrderIds, row \in Rows :
    cache[o] = row /\ orders[o] # row => Outdated(row, o)

\* What a request is about to put into the cache.
FillHasCause(r) ==
  pc[r] = "fill" =>
    \A o \in OrderIds, row \in Rows :
      call[r].order = o /\ order[r] = row /\ orders[o] # row => Outdated(row, o)

CachedIsCalled ==
  \A o \in OrderIds : cache[o] # NoRow =>
    \E r \in Requests : call[r] # NoCall /\ call[r].order = o

\* Nobody has read the order of a pending creation.
NewIsUncached(q) ==
  pc[q] \in Waits /\ call[q].op = "create" =>
    /\ cache[call[q].order] = NoRow
    /\ \A r \in Requests : pc[r] = "fill" => call[r].order # call[q].order

CacheInv ==
  /\ StaleHasCause
  /\ CachedIsCalled
  /\ \A r \in Requests : FillHasCause(r) /\ NewIsUncached(r)

\* The steps that touch the cache.
LEMMA WhoCaches ==
  ASSUME OrdersInv, [Next]_vars
  PROVE  \/ cache' = cache
         \/ \E o \in OrderIds : cache' = [cache EXCEPT ![o] = NoRow]
         \/ \E r \in Requests : CacheSet(r)
  <1>1. ASSUME NEW r \in Requests, Step(r)
        PROVE  \/ cache' = cache
               \/ CacheSet(r) \/ AfterSave(r)
    BY <1>1 DEF Step, VerifyRole, CacheGet, FindRow, ChangeStatus,
       StartDelivery, AttachProof, Attach, CheckPhotos, MarkDelivered, EditFields,
       AttachNew, AttachRemoved, SaveRow, GetOrder, DeleteOrder, FindRecipient,
       FindCourier, LoadCourier, InsertRow, FindUser, RemoveUser
  <1>2. ASSUME NEW r \in Requests, AfterSave(r)
        PROVE  \E o \in OrderIds : cache' = [cache EXCEPT ![o] = NoRow]
    BY <1>2, CallParts DEF AfterSave, OrdersInv, ControlOf
  <1> QED
    BY <1>1, <1>2 DEF Next, vars, Boot, Receive, InsertNotification, InsertRefused,
       ProcessDown, CacheExpire

\* The row of an order no request saves or deletes changes at most when a user
\* is deleted or the order is created.
LEMMA HowRowsChange ==
  ASSUME OrdersInv, [Next]_vars, NEW o \in OrderIds
  PROVE  \/ orders'[o] = orders[o]
         \/ orders'[o] = NoRow
         \/ \E q \in Requests : Resetting(q, o)'
         \/ \E q \in Requests : pc[q] = "insert" /\ call[q].op = "create" /\ call[q].order = o
         \/ orders[o] # NoRow /\ orders[o].courier \notin users' \cup {NoUser}
  <1> USE DEF OrdersInv, TableTypes
  <1>1. ASSUME NEW r \in Requests, SaveRow(r)
        PROVE  orders'[o] = orders[o] \/ Resetting(r, o)'
    <2>1. CASE call[r].order # o
      BY <1>1, <2>1 DEF SaveRow
    <2>2. CASE call[r].order = o
      BY <1>1, <2>2 DEF SaveRow, Goto, Resetting, RequestTypes
    <2> QED
      BY <2>1, <2>2
  <1>2. ASSUME NEW r \in Requests, DeleteOrder(r)
        PROVE  orders'[o] = orders[o] \/ orders'[o] = NoRow
    BY <1>2 DEF DeleteOrder
  <1>3. ASSUME NEW r \in Requests, InsertRow(r)
        PROVE  orders'[o] = orders[o]
               \/ (pc[r] = "insert" /\ call[r].op = "create" /\ call[r].order = o)
    <2>1. call[r].op = "create"
      BY <1>3 DEF InsertRow, ControlOf, Fits
    <2> QED
      BY <1>3, <2>1 DEF InsertRow
  <1>4. ASSUME NEW r \in Requests, RemoveUser(r)
        PROVE  orders'[o] = orders[o]
               \/ (orders[o] # NoRow /\ orders[o].courier \notin users' \cup {NoUser})
    <2>1. CASE orders[o] # NoRow /\ orders[o].courier = call[r].user /\ call[r].user \in users
                 /\ users' = users \ {call[r].user}
      BY <2>1, NullsAssumption
    <2> QED
      BY <1>4, <2>1 DEF RemoveUser
  <1> QED
    BY <1>1, <1>2, <1>3, <1>4, WhoWritesOrders

\* No step here creates a user: rows of users only leave.
LEMMA UsersOnlyLeave ==
  ASSUME [Next]_vars
  PROVE  users' \subseteq users
  <1>1. ASSUME NEW r \in Requests, Step(r) PROVE users' \subseteq users
    BY <1>1 DEF Step, dbVars, VerifyRole, CacheGet, FindRow, CacheSet, ChangeStatus,
       StartDelivery, AttachProof, Attach, CheckPhotos, MarkDelivered, EditFields,
       AttachNew, AttachRemoved, SaveRow, AfterSave, GetOrder, DeleteOrder, FindRecipient,
       FindCourier, LoadCourier, InsertRow, FindUser, RemoveUser
  <1> QED
    BY <1>1 DEF Next, vars, dbVars, Boot, Receive, InsertNotification, InsertRefused,
       ProcessDown, CacheExpire

LEMMA AnswersStay ==
  ASSUME OrdersInv, [Next]_vars, NEW q \in Requests, result[q] = "ok"
  PROVE  result'[q] = "ok"
  <1> USE DEF OrdersInv
  <1>1. pc[q] = "done"
    BY DEF ControlOf, RequestTypes
  <1>2. ~Step(q) /\ ~Receive(q)
    BY <1>1, StepsWait DEF Waits, Receive
  <1>3. ASSUME NEW r \in Requests, Receive(r) \/ Step(r) PROVE result'[q] = "ok"
    BY <1>3, <1>2, OthersStand
  <1>4. ProcessDown => result'[q] = "ok"
    BY <1>1 DEF ProcessDown, Waits, RequestTypes
  <1> QED
    BY <1>3, <1>4 DEF Next, vars, Boot, InsertNotification, InsertRefused, CacheExpire

LEMMA RestartsStay ==
  ASSUME OrdersInv, [Next]_vars
  PROVE  restarts' = restarts \/ restarts' > 0
  <1>1. ASSUME NEW r \in Requests, Step(r) PROVE restarts' = restarts
    BY <1>1 DEF Step, VerifyRole, CacheGet, FindRow, CacheSet, ChangeStatus,
       StartDelivery, AttachProof, Attach, CheckPhotos, MarkDelivered, EditFields,
       AttachNew, AttachRemoved, SaveRow, AfterSave, GetOrder, DeleteOrder, FindRecipient,
       FindCourier, LoadCourier, InsertRow, FindUser, RemoveUser
  <1>2. ProcessDown => restarts' > 0
    BY DEF ProcessDown, OrdersInv, TableTypes
  <1> QED
    BY <1>1, <1>2 DEF Next, vars, Boot, Receive, InsertNotification, InsertRefused, CacheExpire

\* A request leaves "saved" by its DEL, or goes down.
LEMMA ResetsEnd ==
  ASSUME OrdersInv, [Next]_vars, NEW q \in Requests, pc[q] = "saved", pc'[q] # "saved"
  PROVE  AfterSave(q) \/ restarts' > 0
  <1> USE DEF OrdersInv
  <1>1. ASSUME NEW r \in Requests, Receive(r) \/ Step(r) PROVE AfterSave(q)
    <2>1. r = q
      BY <1>1, OthersStand
    <2>2. ~Receive(q)
      BY DEF Receive
    <2> QED
      BY <1>1, <2>1, <2>2 DEF Step, VerifyRole, CacheGet, FindRow, CacheSet, ChangeStatus,
         StartDelivery, AttachProof, CheckPhotos, MarkDelivered, EditFields, AttachNew,
         AttachRemoved, SaveRow, GetOrder, DeleteOrder, FindRecipient, FindCourier, InsertRow,
         FindUser, RemoveUser
  <1>2. ProcessDown => restarts' > 0
    BY DEF ProcessDown, TableTypes
  <1> QED
    BY <1>1, <1>2 DEF Next, vars, Boot, InsertNotification, InsertRefused, CacheExpire

\* A cause remains one while the row is remembered.
LEMMA OutdatedStays ==
  ASSUME OrdersInv, CacheInv, [Next]_vars, NEW o \in OrderIds, NEW row \in Rows, Outdated(row, o),
         \A q \in Requests : AfterSave(q) => call[q].order # o,
         \A q \in Requests :
           pc[q] = "insert" /\ call[q].op = "create" => call[q].order # o
  PROVE  Outdated(row, o)'
  <1> USE DEF OrdersInv
  <1>1. CASE orders[o] = NoRow
    <2>1. \A q \in Requests : ~(pc[q] = "insert" /\ call[q].op = "create" /\ call[q].order = o)
      OBVIOUS
    <2>2. orders'[o] = NoRow \/ \E q \in Requests : Resetting(q, o)'
      BY <1>1, <2>1, HowRowsChange
    <2> QED
      BY <2>2 DEF Outdated
  <1>2. CASE row.courier \notin users \cup {NoUser}
    BY <1>2, UsersOnlyLeave DEF Outdated
  <1>3. CASE restarts > 0
    BY <1>3, RestartsStay DEF Outdated
  <1>4. ASSUME NEW q \in Requests, Resetting(q, o) PROVE Outdated(row, o)'
    <2>1. pc'[q] = "saved" \/ restarts' > 0
      BY <1>4, ResetsEnd DEF Resetting
    <2>2. call'[q] = call[q]
      BY <1>4, CallsStay DEF Resetting, ControlOf
    <2> QED
      BY <1>4, <2>1, <2>2 DEF Outdated, Resetting
  <1>5. CASE SavedAndRead(o)
    BY <1>5, CallsStay, AnswersStay DEF Outdated, SavedAndRead
  <1> QED
    BY <1>1, <1>2, <1>3, <1>4, <1>5 DEF Outdated

\* No creation is pending for an order that has a cached row, or one to cache.
LEMMA ReadIsNotNew ==
  ASSUME OrdersInv, CacheInv, NEW o \in OrderIds, NEW q \in Requests,
         pc[q] = "insert", call[q].op = "create", call[q].order = o
  PROVE  cache[o] = NoRow /\ \A r \in Requests : pc[r] = "fill" => call[r].order # o
  BY DEF CacheInv, NewIsUncached, Waits

LEMMA FillsStay ==
  ASSUME OrdersInv, CacheInv, [Next]_vars, NEW r \in Requests
  PROVE  FillHasCause(r)'
  <1> USE DEF OrdersInv
  <1> SUFFICES ASSUME NEW o \in OrderIds, NEW row \in Rows, pc'[r] = "fill",
                      call'[r].order = o, order'[r] = row, orders'[o] # row
               PROVE  Outdated(row, o)'
    BY DEF FillHasCause
  <1>1. CASE pc[r] # "fill"
    <2>1. FindRow(r)
      <3>1. ~Receive(r)
        BY DEF Receive, Goto, RequestTypes
      <3>2. Step(r)
        BY <1>1, <3>1, WhoseTurn
      <3> QED
        BY <3>2, <1>1 DEF Step, Goto, Finish, RequestTypes, VerifyRole, CacheGet, CacheSet,
           ChangeStatus, SetStatus, StartDelivery, AttachProof, Attach, CheckPhotos, MarkDelivered,
           EditFields, AttachNew, AttachRemoved, SaveRow, AfterSave, GetOrder, DeleteOrder,
           FindRecipient, FindCourier, LoadCourier, InsertRow, FindUser, RemoveUser
    <2>2. order'[r] = orders[call[r].order] /\ orders' = orders /\ call' = call
      BY <2>1 DEF FindRow, Goto, Finish, RequestTypes, dbVars
    <2> QED
      BY <2>2
  <1>2. CASE pc[r] = "fill"
    <2>1. order'[r] = order[r] /\ call'[r] = call[r]
      <3>1. ~Receive(r)
        BY <1>2 DEF Receive
      <3>2. ~Step(r)
        BY <1>2 DEF Step, Goto, RequestTypes, VerifyRole, CacheGet, FindRow, CacheSet,
           ChangeStatus, StartDelivery, AttachProof, CheckPhotos, MarkDelivered,
           EditFields, AttachNew, AttachRemoved, SaveRow, AfterSave, GetOrder, DeleteOrder,
           FindRecipient, FindCourier, InsertRow, FindUser, RemoveUser
      <3> QED
        BY <3>1, <3>2, WhoseTurn
    <2>2. order[r] \in Rows /\ call[r] # NoCall /\ call[r].op \in {"status", "edit", "delete", "get"}
      BY <1>2 DEF ControlOf, Fits, Loaded
    <2>3. \A q \in Requests : pc[q] = "insert" /\ call[q].op = "create" => call[q].order # o
      BY <1>2, <2>1, ReadIsNotNew
    <2>4. ASSUME NEW q \in Requests, AfterSave(q), call[q].order = o
          PROVE  SavedAndRead(o)'
      <3>1. call' = call /\ result'[q] = "ok" /\ pc[q] = "saved"
        BY <2>4 DEF AfterSave, Finish, RequestTypes
      <3>2. q # r /\ call[q] # NoCall /\ call[q].op \in {"status", "edit"}
        BY <1>2, <3>1 DEF ControlOf, Fits
      <3> QED
        BY <2>1, <2>2, <2>4, <3>1, <3>2 DEF SavedAndRead
    <2>5. CASE Outdated(row, o)
      <3>1. CASE \A q \in Requests : AfterSave(q) => call[q].order # o
        BY <3>1, <2>3, <2>5, OutdatedStays
      <3> QED
        BY <3>1, <2>4 DEF Outdated
    <2>6. CASE row = orders[o]
      <3>1. orders'[o] # orders[o]
        BY <2>1, <2>6
      <3> QED
        BY <3>1, <2>1, <2>3, <2>6, HowRowsChange DEF Outdated
    <2> QED
      BY <2>1, <2>5, <2>6, <1>2 DEF CacheInv, FillHasCause
  <1> QED
    BY <1>1, <1>2

LEMMA StaleStays ==
  ASSUME OrdersInv, CacheInv, [Next]_vars
  PROVE  StaleHasCause' /\ CachedIsCalled'
  <1> USE DEF OrdersInv
  <1> SUFFICES ASSUME NEW o \in OrderIds, NEW row, cache'[o] = row, row # NoRow
               PROVE  /\ row \in Rows /\ orders'[o] # row => Outdated(row, o)'
                      /\ \E r \in Requests : call'[r] # NoCall /\ call'[r].order = o
    BY NullsAssumption DEF StaleHasCause, CachedIsCalled
  <1>1. CASE cache'[o] = cache[o]
    <2>1. \A q \in Requests : pc[q] = "insert" /\ call[q].op = "create" => call[q].order # o
      BY <1>1, ReadIsNotNew
    <2>2. \A q \in Requests : AfterSave(q) => call[q].order # o
      BY <1>1 DEF AfterSave, TableTypes
    <2>3. row \in Rows
      BY <1>1 DEF TableTypes
    <2>5. ASSUME Outdated(row, o) PROVE Outdated(row, o)'
      BY <2>1, <2>2, <2>3, <2>5, OutdatedStays
    <2>6. ASSUME row = orders[o], orders'[o] # row PROVE Outdated(row, o)'
      <3>1. CASE orders'[o] = NoRow
        BY <3>1 DEF Outdated
      <3>2. CASE \E q \in Requests : Resetting(q, o)'
        BY <3>2 DEF Outdated
      <3>3. CASE row.courier \notin users' \cup {NoUser}
        BY <3>3 DEF Outdated
      <3> QED
        BY <2>1, <2>6, <3>1, <3>2, <3>3, HowRowsChange
    <2>7. \E r \in Requests : call'[r] # NoCall /\ call'[r].order = o
      BY <1>1, CallsStay DEF CacheInv, CachedIsCalled
    <2>8. orders[o] # row => Outdated(row, o)
      BY <1>1, <2>3 DEF CacheInv, StaleHasCause
    <2> QED
      BY <2>3, <2>5, <2>6, <2>7, <2>8
  <1>2. CASE cache'[o] # cache[o]
    <2>1. PICK r \in Requests : CacheSet(r)
      BY <1>2, WhoCaches DEF TableTypes
    <2>2. /\ pc[r] = "fill" /\ cache' = [cache EXCEPT ![call[r].order] = order[r]]
          /\ UNCHANGED <<orders, users, call, restarts, result>>
          /\ pc' = [pc EXCEPT ![r] = "loaded"]
      BY <2>1 DEF CacheSet, Goto, dbVars
    <2>3. call[r].order = o /\ cache'[o] = order[r]
      BY <1>2, <2>2 DEF TableTypes
    <2>4. Outdated(row, o) => Outdated(row, o)'
      BY <2>2 DEF Outdated, Resetting, SavedAndRead, RequestTypes
    <2> QED
      BY <2>2, <2>3, <2>4 DEF CacheInv, FillHasCause, ControlOf
  <1> QED
    BY <1>1, <1>2

LEMMA NewStaysUncached ==
  ASSUME OrdersInv, CacheInv, [Next]_vars, NEW q \in Requests
  PROVE  NewIsUncached(q)'
  <1> USE DEF OrdersInv
  <1> SUFFICES ASSUME pc'[q] \in Waits, call'[q].op = "create"
               PROVE  /\ cache'[call'[q].order] = NoRow
                      /\ \A r \in Requests : pc'[r] = "fill" => call'[r].order # call'[q].order
    BY DEF NewIsUncached
  <1>1. CASE Receive(q)
    <2>1. /\ UNCHANGED <<cache, orders>>
          /\ \A r \in Requests \ {q} : call'[r] = call[r] /\ pc'[r] = pc[r]
          /\ pc'[q] # "fill"
          /\ call'[q] \in CallType
          /\ \A r \in Requests : call[r] # NoCall => call[r].order # call'[q].order
      BY <1>1, CallsAssumption DEF Receive, Goto, RequestTypes, dbVars
    <2>2. call'[q].order \in OrderIds
      BY <2>1 DEF CallType
    <2>3. \A r \in Requests \ {q} : pc[r] = "fill" => call[r] # NoCall
      BY DEF ControlOf
    <2> QED
      BY <2>1, <2>2, <2>3 DEF CacheInv, CachedIsCalled, TableTypes
  <1>2. CASE ~Receive(q)
    <2>1. pc[q] \in Waits /\ call'[q] = call[q] /\ call[q] # NoCall
      BY <1>2, WhoseTurn, StepsWait, CallsStay DEF ControlOf, Waits
    <2>2. /\ cache[call[q].order] = NoRow /\ orders[call[q].order] = NoRow
          /\ \A r \in Requests : pc[r] = "fill" => call[r].order # call[q].order
          /\ call[q].order \in OrderIds
      BY <2>1, CallParts DEF CacheInv, NewIsUncached, FreshIds
    <2>3. cache'[call[q].order] = NoRow
      <3>1. ASSUME NEW r \in Requests, CacheSet(r) PROVE cache'[call[q].order] = NoRow
        BY <3>1, <2>2 DEF CacheSet, TableTypes
      <3> QED
        BY <3>1, <2>2, WhoCaches DEF TableTypes
    <2>4. ASSUME NEW r \in Requests, pc'[r] = "fill", call'[r].order = call[q].order PROVE FALSE
      <3>1. CASE pc[r] = "fill"
        BY <3>1, <2>2, <2>4, CallsStay DEF ControlOf
      <3>2. CASE pc[r] # "fill"
        <4>1. ~Receive(r)
          BY <2>4 DEF Receive, Goto, RequestTypes
        <4>2. Step(r)
          BY <2>4, <3>2, <4>1, WhoseTurn
        <4>3. FindRow(r)
          BY <4>2, <2>4, <3>2 DEF Step, Goto, Finish, RequestTypes, VerifyRole, CacheGet, CacheSet,
             ChangeStatus, SetStatus, StartDelivery, AttachProof, Attach, CheckPhotos,
             MarkDelivered, EditFields, AttachNew, AttachRemoved, SaveRow, AfterSave, GetOrder,
             DeleteOrder, FindRecipient, FindCourier, LoadCourier, InsertRow, FindUser, RemoveUser
        <4>4. call' = call
          BY <4>3 DEF FindRow
        <4> QED
          BY <4>3, <4>4, <2>2, <2>4 DEF FindRow, Finish, RequestTypes
      <3> QED
        BY <3>1, <3>2
    <2> QED
      BY <2>1, <2>3, <2>4
  <1> QED
    BY <1>1, <1>2

LEMMA CacheAtStart == Init => CacheInv
  <1> SUFFICES ASSUME Init PROVE CacheInv
    OBVIOUS
  <1>1. cache = [o \in OrderIds |-> NoRow] /\ pc = [r \in Requests |-> "idle"]
    BY DEF Init
  <1>2. StaleHasCause /\ CachedIsCalled
    BY <1>1, NullsAssumption DEF StaleHasCause, CachedIsCalled
  <1>3. \A r \in Requests : FillHasCause(r) /\ NewIsUncached(r)
    BY <1>1 DEF FillHasCause, NewIsUncached, Waits
  <1> QED
    BY <1>2, <1>3 DEF CacheInv

LEMMA CacheStep == OrdersInv /\ CacheInv /\ [Next]_vars => CacheInv'
  BY StaleStays, FillsStay, NewStaysUncached DEF CacheInv

\* However requests interleave: a cached order differs from its row only when
\* the order or its courier was deleted, the process went down, a DEL is to
\* come, or one request read the order and another one saved it.  One request
\* after the other leaves no stale row behind.
THEOREM StalenessIsCaused == Spec => []StaleHasCause
  <1>1. CacheInv => StaleHasCause
    BY DEF CacheInv
  <1> QED
    BY <1>1, CacheAtStart, CacheStep, InitEstablishes, StepPreserves, PTL DEF Spec

-----------------------------------------------------------------------------

(* Which updates survive. *)

\* The requests that were over when another one arrived stay so.
HistoryOK ==
  /\ FinishedType
  /\ \A r, q \in Requests : q \in finished[r] => pc[q] = "done"

\* A changed copy holds what its request asks for, and a pick-up its courier.
MeantBy(r) ==
  pc[r] \in {"new", "removed", "row"} =>
    /\ \A column \in Sets(call[r]) : order[r][column] = call[r][column]
    /\ "courier" \in Sets(call[r]) => call[r].courier # NoUser

\* The request has written the column, and nothing excuses its loss.
Standing(r, column) ==
  /\ pc[r] = "saved" \/ result[r] = "ok"
  /\ column \in Sets(call[r])
  /\ \A q \in Requests : ~Rival(q, r, column)
  /\ column = "courier" => call[r].courier \in users

Keeps(row, r, column) == row # NoRow => row[column] = call[r][column]

\* Then the row keeps it, the cached row too once the request is answered, and
\* so does every copy that another request may come to write: a status it does
\* not keep, but a request that writes one would be a rival.  No other request
\* is about to create the order.
Survives(r, column) ==
  Standing(r, column) =>
    /\ Keeps(orders[call[r].order], r, column)
    /\ result[r] = "ok" => Keeps(cache[call[r].order], r, column)
    /\ \A q \in Requests \ {r} : pc[q] \in Waits /\ call[q].order = call[r].order =>
         /\ pc[q] = "fill" => Keeps(order[q], r, column)
         /\ pc[q] \in Loaded /\ column # "status" => Keeps(order[q], r, column)
         /\ call[q].op # "create"

Columns == {"status", "courier", "recipient", "slug"}

SurvivalInv ==
  /\ HistoryOK
  /\ \A r \in Requests : MeantBy(r)
  /\ \A r \in Requests, column \in Columns : Survives(r, column)

LEMMA SetsOf ==
  ASSUME NEW c, NEW column \in Sets(c)
  PROVE  /\ column \in Columns
         /\ \/ c.op = "status" /\ column \in {"status", "courier"}
            \/ c.op = "edit" /\ column \in {"recipient", "slug"}
         /\ column = "courier" => c.status = "PICKED_UP"
         /\ c.op = "edit" => column # "courier"
  BY DEF Sets, Columns

LEMMA OverwritesOf ==
  ASSUME NEW c, c.op \in {"status", "edit"}
  PROVE  /\ "status" \in Overwrites(c)
         /\ c.op = "edit" => "recipient" \in Overwrites(c) /\ "slug" \in Overwrites(c)
         /\ c.op = "status" /\ c.status = "PICKED_UP" => "courier" \in Overwrites(c)
  BY DEF Overwrites, Sets

LEMMA RecordStays ==
  ASSUME OrdersInv, [Next]_vars, NEW r \in Requests, pc[r] # "idle"
  PROVE  finished'[r] = finished[r]
  <1>1. ASSUME NEW q \in Requests, Receive(q) PROVE finished'[r] = finished[r]
    BY <1>1 DEF Receive
  <1> QED
    BY <1>1, WhoRecords

LEMMA DoneStays ==
  ASSUME OrdersInv, [Next]_vars, NEW r \in Requests, pc[r] = "done"
  PROVE  pc'[r] = "done"
  <1>1. ~Receive(r) /\ ~Step(r)
    BY StepsWait DEF Receive, Waits
  <1> QED
    BY <1>1, WhoseTurn

LEMMA HistoryStays ==
  ASSUME OrdersInv, HistoryOK, [Next]_vars
  PROVE  HistoryOK'
  <1>1. \A r \in Requests : pc[r] = "done" => pc'[r] = "done"
    BY DoneStays
  <1>2. CASE finished' = finished
    BY <1>1, <1>2 DEF HistoryOK, FinishedType
  <1>3. ASSUME NEW r \in Requests, Receive(r) PROVE HistoryOK'
    BY <1>1, <1>3 DEF HistoryOK, FinishedType, Receive
  <1> QED
    BY <1>2, <1>3, WhoRecords

\* A rival remains one.
LEMMA RivalsStay ==
  ASSUME OrdersInv, HistoryOK, [Next]_vars, NEW column,
         NEW r \in Requests, NEW q \in Requests, call[r] # NoCall, Rival(q, r, column)
  PROVE  Rival(q, r, column)'
  <1>1. call[q] # NoCall
    BY DEF Rival, Reads
  <1>2. pc[q] # "idle" /\ pc[r] # "idle"
    BY <1>1 DEF OrdersInv, ControlOf
  <1>3. call'[q] = call[q] /\ call'[r] = call[r]
    BY <1>1, CallsStay
  <1>4. finished'[q] = finished[q] /\ finished'[r] = finished[r]
    BY <1>2, RecordStays
  <1> QED
    BY <1>3, <1>4 DEF Rival, Reads

\* Who answers a change of an order.
LEMMA ChangesAnswered ==
  ASSUME OrdersInv, [Next]_vars, NEW r \in Requests,
         result'[r] = "ok", result[r] # "ok", call'[r].op \in {"status", "edit"}
  PROVE  AfterSave(r)
  <1> USE DEF OrdersInv
  <1>1. ASSUME NEW q \in Requests, Receive(q) \/ Step(q) PROVE Step(r)
    <2>1. q = r
      BY <1>1, OthersStand
    <2>2. ~Receive(r)
      BY DEF Receive, Goto
    <2> QED
      BY <1>1, <2>1, <2>2
  <1>2. ASSUME Step(r) PROVE AfterSave(r)
    <2>1. call'[r] = call[r]
      BY <1>2, StepsWait, CallsStay DEF ControlOf, Waits
    <2> QED
      BY <1>2, <2>1 DEF Step, Goto, Finish, RequestTypes, ControlOf, Fits, VerifyRole, CacheGet,
         FindRow, CacheSet, ChangeStatus, SetStatus, StartDelivery, AttachProof, Attach,
         CheckPhotos, MarkDelivered, EditFields, AttachNew, AttachRemoved, SaveRow, GetOrder,
         DeleteOrder, FindRecipient, FindCourier, LoadCourier, InsertRow, FindUser, RemoveUser
  <1>3. ~ProcessDown
    BY DEF ProcessDown, RequestTypes
  <1> QED
    BY <1>1, <1>2, <1>3 DEF Next, vars, Boot, InsertNotification, InsertRefused, CacheExpire

\* A column stands from the save of its request on.
LEMMA StandingStarts ==
  ASSUME OrdersInv, HistoryOK, [Next]_vars, NEW r \in Requests, NEW column,
         Standing(r, column)'
  PROVE  /\ call'[r] = call[r] /\ call[r] # NoCall
         /\ Standing(r, column) \/ SaveRow(r)
  <1> USE DEF OrdersInv
  <1>1. [Next]_vars /\ OrdersInv'
    BY StepPreserves
  <1>2. ~Receive(r)
    <2>1. ASSUME Receive(r) PROVE pc'[r] # "saved" /\ pc'[r] # "done"
      BY <2>1 DEF Receive, Goto, RequestTypes
    <2>2. pc'[r] = "saved" \/ pc'[r] = "done"
      BY <1>1 DEF Standing, ControlOf, RequestTypes
    <2> QED
      BY <2>1, <2>2
  <1>3. call'[r] = call[r]
    BY <1>1, <1>2, CallsStay
  <1>4. call[r] # NoCall
    BY <1>1, <1>3 DEF Standing, ControlOf, RequestTypes
  <1>5. \A q \in Requests : ~Rival(q, r, column)
    BY <1>4, RivalsStay DEF Standing
  <1>6. column = "courier" => call[r].courier \in users
    BY <1>1, <1>3, UsersOnlyLeave DEF Standing
  <1>7. column \in Sets(call[r])
    BY <1>3 DEF Standing
  <1>8. pc[r] = "saved" \/ result[r] = "ok" \/ SaveRow(r)
    <2>1. CASE result'[r] = "ok"
      <3>1. call'[r].op \in {"status", "edit"}
        BY <1>3, <1>7, SetsOf
      <3> QED
        BY <1>1, <2>1, <3>1, ChangesAnswered DEF AfterSave
    <2>2. CASE pc'[r] = "saved" /\ pc[r] # "saved"
      <3>1. Step(r)
        BY <1>1, <1>2, <2>2, WhoseTurn
      <3> QED
        BY <3>1, <2>2 DEF Step, Goto, Finish, RequestTypes, VerifyRole, CacheGet, FindRow, CacheSet,
           ChangeStatus, SetStatus, StartDelivery, AttachProof, Attach, CheckPhotos,
           MarkDelivered, EditFields, AttachNew, AttachRemoved, AfterSave, GetOrder,
           DeleteOrder, FindRecipient, FindCourier, LoadCourier, InsertRow, FindUser, RemoveUser
    <2> QED
      BY <2>1, <2>2 DEF Standing
  <1> QED
    BY <1>3, <1>4, <1>5, <1>6, <1>7, <1>8 DEF Standing

\* While a column stands, who reads the order arrived after it was answered,
\* and writes another column.
LEMMA ReadersCameLater ==
  ASSUME OrdersInv, HistoryOK, NEW r \in Requests, NEW column, Standing(r, column),
         NEW q \in Requests, q # r, pc[q] \in Waits, call[q].order = call[r].order,
         call[q].op \in {"status", "edit", "delete", "get"}
  PROVE  /\ r \in finished[q] /\ pc[r] = "done" /\ result[r] = "ok"
         /\ column \notin Overwrites(call[q])
  <1> USE DEF OrdersInv
  <1>1. call[q] # NoCall
    BY DEF ControlOf, Waits
  <1>2. q \notin finished[r]
    BY DEF HistoryOK, Waits
  <1>3. Reads(q, call[r].order) /\ ~Rival(q, r, column)
    BY <1>1 DEF Reads, Standing
  <1>4. r \in finished[q] /\ column \notin Overwrites(call[q])
    BY <1>2, <1>3 DEF Rival
  <1>5. pc[r] = "done"
    BY <1>4 DEF HistoryOK
  <1> QED
    BY <1>4, <1>5 DEF Standing

\* A row that a save leaves: the copy, but for a courier it does not set.
LEMMA WrittenColumns ==
  ASSUME NEW r \in Requests, NEW old \in Rows, order[r] \in Rows, NEW column \in Columns
  PROVE  /\ Written(r, old) \in Rows
         /\ column # "courier" => Written(r, old)[column] = order[r][column]
         /\ Written(r, old).courier = IF order[r].courier = NoUser THEN old.courier
                                                                  ELSE order[r].courier
  BY DEF Written, Rows, Columns

LEMMA MeantStays ==
  ASSUME OrdersInv, [Next]_vars, NEW r \in Requests, MeantBy(r)
  PROVE  MeantBy(r)'
  <1> USE DEF OrdersInv
  <1> SUFFICES ASSUME pc'[r] \in {"new", "removed", "row"}
               PROVE  /\ \A column \in Sets(call'[r]) : order'[r][column] = call'[r][column]
                      /\ "courier" \in Sets(call'[r]) => call'[r].courier # NoUser
    BY DEF MeantBy
  <1>1. ~Receive(r)
    BY DEF Receive, Goto, RequestTypes
  <1>2. CASE pc'[r] = pc[r] /\ order'[r] = order[r] /\ call'[r] = call[r]
    BY <1>2 DEF MeantBy
  <1>3. CASE Step(r)
    <2>1. \/ ChangeStatus(r) \/ MarkDelivered(r) \/ EditFields(r) \/ AttachNew(r) \/ AttachRemoved(r)
      BY <1>3 DEF Step, Goto, Finish, RequestTypes, VerifyRole, CacheGet, FindRow, CacheSet,
         StartDelivery, AttachProof, Attach, CheckPhotos, SaveRow, AfterSave, GetOrder,
         DeleteOrder, FindRecipient, FindCourier, LoadCourier, InsertRow, FindUser, RemoveUser
    <2>2. call'[r] = call[r] /\ call[r] # NoCall
      BY <1>3, <1>1, CallsStay, StepsWait DEF ControlOf, Waits
    <2>3. CASE AttachNew(r) \/ AttachRemoved(r)
      BY <2>2, <2>3 DEF AttachNew, AttachRemoved, Attach, MeantBy
    <2>4. CASE EditFields(r)
      <3>1. call[r].op = "edit" /\ order[r] \in Rows
        BY <2>4 DEF EditFields, ControlOf, Loaded
      <3>2. order'[r] = [order[r] EXCEPT !.recipient = call[r].recipient, !.slug = call[r].slug]
        BY <2>4 DEF EditFields, RequestTypes
      <3>3. order'[r]["recipient"] = call[r]["recipient"] /\ order'[r]["slug"] = call[r]["slug"]
        BY <3>1, <3>2 DEF Rows
      <3>4. \A column \in Sets(call[r]) : column \in {"recipient", "slug"}
        BY <3>1, SetsOf
      <3> QED
        BY <2>2, <3>3, <3>4
    <2>5. CASE ChangeStatus(r) \/ MarkDelivered(r)
      <3>1. /\ call[r].op = "status" /\ order[r] \in Rows
            /\ \E reassigned \in BOOLEAN :
                 /\ SetStatus(r, reassigned)
                 /\ call[r].status = "PICKED_UP" =>
                      /\ call[r].courier # NoUser
                      /\ reassigned \/ order[r].courier = call[r].courier
        <4>1. CASE MarkDelivered(r)
          BY <4>1 DEF MarkDelivered, ControlOf, Fits, Loaded
        <4>2. CASE ChangeStatus(r)
          BY <4>2 DEF ChangeStatus, Finish, RequestTypes, ControlOf, Loaded
        <4> QED
          BY <2>5, <4>1, <4>2
      <3>2. /\ order'[r]["status"] = call[r]["status"]
            /\ call[r].status = "PICKED_UP" => order'[r]["courier"] = call[r]["courier"]
        BY <3>1 DEF SetStatus, RequestTypes, Rows
      <3>3. \A column \in Sets(call[r]) :
              /\ column \in {"status", "courier"}
              /\ column = "courier" => call[r].status = "PICKED_UP"
        BY <3>1, SetsOf
      <3> QED
        BY <2>2, <3>1, <3>2, <3>3
    <2> QED
      BY <2>1, <2>3, <2>4, <2>5
  <1> QED
    BY <1>1, <1>2, <1>3, WhoseTurn

\* The save itself: nobody else waits with the order, or he would be a rival.
LEMMA SaveStands ==
  ASSUME OrdersInv, HistoryOK, [Next]_vars, NEW r \in Requests, NEW column,
         MeantBy(r), SaveRow(r), Standing(r, column)'
  PROVE  Survives(r, column)'
  <1> USE DEF OrdersInv
  <1> DEFINE o == call[r].order
  <1>1. OrdersInv' /\ HistoryOK'
    BY StepPreserves, HistoryStays
  <1>2. /\ pc[r] = "row" /\ UNCHANGED <<call, order>>
        /\ pc'[r] = "saved" /\ result'[r] = "none"
        /\ \A q \in Requests \ {r} : pc'[q] = pc[q]
        /\ orders[o] # NoRow /\ orders' = [orders EXCEPT ![o] = Written(r, @)]
    BY DEF SaveRow, Goto, Finish, RequestTypes, ControlOf, Standing
  <1>3. /\ call[r] # NoCall /\ o \in OrderIds /\ column \in Sets(call[r])
        /\ order[r] \in Rows /\ orders[o] \in Rows
    BY <1>2, CallParts DEF ControlOf, Loaded, TableTypes, Standing
  <1>4. Keeps(orders[o], r, column)'
    <2>1. column \in Columns /\ orders'[o] = Written(r, orders[o])
      BY <1>2, <1>3, SetsOf DEF TableTypes
    <2>2. order[r][column] = call[r][column]
      BY <1>2, <1>3 DEF MeantBy
    <2>3. CASE column # "courier"
      BY <1>2, <1>3, <2>1, <2>2, <2>3, WrittenColumns DEF Keeps
    <2>4. CASE column = "courier"
      <3>1. order[r].courier # NoUser
        BY <1>2, <1>3, <2>2, <2>4 DEF MeantBy
      <3> QED
        BY <1>2, <1>3, <2>1, <2>2, <2>4, <3>1, WrittenColumns DEF Keeps
    <2> QED
      BY <2>3, <2>4
  <1>5. ASSUME NEW q \in Requests \ {r}, pc'[q] \in Waits, call'[q].order = call'[r].order
        PROVE  pc'[q] \notin Loaded /\ call'[q].op # "create"
    <2>1. pc[q] \in Waits /\ call[q].order = o /\ call[q] # NoCall
      BY <1>2, <1>5 DEF ControlOf, Waits
    <2>2. call[q].op # "create"
      BY <1>2, <2>1 DEF FreshIds
    <2>3. ~Reads(q, o)'
      <3>1. q \notin finished'[r]
        BY <1>1, <1>5 DEF HistoryOK, Waits
      <3>2. r \notin finished'[q]
        BY <1>1, <1>2 DEF HistoryOK
      <3> QED
        BY <1>2, <3>1, <3>2 DEF Standing, Rival
    <2>4. pc[q] \notin Loaded
      BY <1>2, <2>1, <2>3 DEF Reads, ControlOf, Fits, Loaded
    <2> QED
      BY <1>2, <2>2, <2>4
  <1> QED
    BY <1>2, <1>4, <1>5 DEF Survives, Loaded

\* A save that follows writes the column back from a copy that keeps it.
LEMMA RowStands ==
  ASSUME OrdersInv, HistoryOK, [Next]_vars, NEW r \in Requests, NEW column,
         call[r] # NoCall, call'[r] = call[r],
         Standing(r, column), Standing(r, column)', Survives(r, column)
  PROVE  Keeps(orders[call[r].order], r, column)'
  <1> USE DEF OrdersInv
  <1> DEFINE o == call[r].order
  <1>1. /\ [Next]_vars /\ o \in OrderIds
        /\ column \in Columns /\ call[r].op \in {"status", "edit"}
        /\ Keeps(orders[o], r, column)
    BY CallParts, SetsOf DEF Standing, Survives
  <1>2. CASE orders'[o] = orders[o] \/ orders'[o] = NoRow
    BY <1>1, <1>2 DEF Keeps
  <1>3. ASSUME NEW q \in Requests, SaveRow(q), orders'[o] # orders[o]
        PROVE  Keeps(orders[o], r, column)'
    <2>1. /\ pc[q] = "row" /\ call[q].order = o /\ orders[o] # NoRow
          /\ orders' = [orders EXCEPT ![o] = Written(q, @)]
      <3>1. pc[q] = "row" /\ orders' # orders
        BY <1>3 DEF SaveRow
      <3>2. /\ orders[call[q].order] # NoRow
            /\ orders' = [orders EXCEPT ![call[q].order] = Written(q, @)]
        BY <1>3, <3>1 DEF SaveRow
      <3>3. call[q].order = o
        BY <1>1, <1>3, <3>2 DEF TableTypes
      <3> QED
        BY <3>1, <3>2, <3>3
    <2>2. /\ pc[q] \in Waits /\ pc[q] \in Loaded /\ order[q] \in Rows
          /\ call[q].op \in {"status", "edit"}
      BY <2>1 DEF ControlOf, Fits, Loaded, Waits
    <2>3. q # r
      BY <2>1 DEF Standing, ControlOf
    <2>4. column # "status"
      BY <2>1, <2>2, <2>3, ReadersCameLater, OverwritesOf
    <2>5. order[q][column] = call[r][column]
      BY <2>1, <2>2, <2>3, <2>4, NullsAssumption DEF Survives, Keeps
    <2>6. orders[o] \in Rows /\ orders[o][column] = call[r][column]
      BY <1>1, <2>1 DEF Keeps, TableTypes
    <2>7. Written(q, orders[o])[column] = call[r][column]
      <3>1. CASE column # "courier"
        BY <1>1, <2>2, <2>5, <2>6, <3>1, WrittenColumns
      <3>2. CASE column = "courier"
        BY <1>1, <2>2, <2>5, <2>6, <3>2, WrittenColumns
      <3> QED
        BY <3>1, <3>2
    <2>8. orders'[o] = Written(q, orders[o])
      BY <1>1, <2>1 DEF TableTypes
    <2> QED
      BY <2>7, <2>8 DEF Keeps
  <1>4. ASSUME NEW q \in Requests, InsertRow(q)
        PROVE  orders'[o] = orders[o]
    <2>1. pc[q] = "insert" /\ call[q].op = "create" /\ pc[q] \in Waits
      BY <1>4 DEF InsertRow, ControlOf, Fits, Waits
    <2>2. q # r
      BY <1>1, <2>1
    <2>3. call[q].order # o
      BY <2>1, <2>2 DEF Survives
    <2>4. orders' = orders \/ \E row : orders' = [orders EXCEPT ![call[q].order] = row]
      BY <1>4 DEF InsertRow
    <2> QED
      BY <1>1, <2>3, <2>4 DEF TableTypes
  <1>5. ASSUME NEW q \in Requests, RemoveUser(q), orders'[o] # orders[o]
        PROVE  Keeps(orders[o], r, column)'
    <2>1. /\ orders[o] # NoRow /\ orders[o].courier = call[q].user
          /\ users' = users \ {call[q].user}
          /\ orders'[o] = [orders[o] EXCEPT !.courier = NoUser]
      BY <1>1, <1>5 DEF RemoveUser
    <2>2. orders[o] \in Rows /\ orders[o][column] = call[r][column]
      BY <1>1, <2>1 DEF Keeps, TableTypes
    <2>3. column # "courier"
      BY <2>1, <2>2 DEF Standing
    <2>4. orders'[o][column] = orders[o][column]
      BY <1>1, <2>1, <2>2, <2>3 DEF Rows, Columns
    <2> QED
      BY <2>2, <2>4 DEF Keeps
  <1>6. ASSUME NEW q \in Requests, DeleteOrder(q)
        PROVE  orders'[o] = orders[o] \/ orders'[o] = NoRow
    BY <1>1, <1>6 DEF DeleteOrder, TableTypes
  <1> QED
    BY <1>1, <1>2, <1>3, <1>4, <1>5, <1>6, WhoWritesOrders

\* The answer deletes the cached row, and what is cached later keeps the column.
LEMMA CachedStands ==
  ASSUME OrdersInv, HistoryOK, [Next]_vars, NEW r \in Requests, NEW column,
         call[r] # NoCall, call'[r] = call[r],
         Standing(r, column), Survives(r, column), result'[r] = "ok"
  PROVE  Keeps(cache[call[r].order], r, column)'
  <1> USE DEF OrdersInv
  <1> DEFINE o == call[r].order
  <1>1. [Next]_vars /\ o \in OrderIds /\ call[r].op \in {"status", "edit"}
    BY CallParts, SetsOf DEF Standing
  <1>2. CASE result[r] # "ok"
    <2>1. AfterSave(r)
      BY <1>1, <1>2, ChangesAnswered
    <2> QED
      BY <1>1, <2>1 DEF AfterSave, Keeps, TableTypes
  <1>3. CASE result[r] = "ok"
    <2>1. Keeps(cache[o], r, column)
      BY <1>3 DEF Survives
    <2>2. ASSUME NEW q \in Requests, CacheSet(q), call[q].order = o
          PROVE  Keeps(cache[o], r, column)'
      <3>1. pc[q] = "fill" /\ pc[q] \in Waits /\ cache'[o] = order[q]
        BY <1>1, <2>2 DEF CacheSet, TableTypes, Waits
      <3>2. q # r
        BY <1>3, <3>1 DEF ControlOf
      <3> QED
        BY <2>2, <3>1, <3>2 DEF Survives, Keeps
    <2>3. ASSUME NEW q \in Requests, CacheSet(q), call[q].order # o
          PROVE  cache'[o] = cache[o]
      BY <1>1, <2>3 DEF CacheSet, TableTypes
    <2>4. CASE cache'[o] = cache[o] \/ cache'[o] = NoRow
      BY <2>1, <2>4 DEF Keeps
    <2>5. ASSUME NEW p \in OrderIds, cache' = [cache EXCEPT ![p] = NoRow]
          PROVE  cache'[o] = cache[o] \/ cache'[o] = NoRow
      BY <1>1, <2>5 DEF TableTypes
    <2> QED
      BY <1>1, <2>2, <2>3, <2>4, <2>5, WhoCaches
  <1> QED
    BY <1>2, <1>3

\* What another request reads and changes keeps the column.
LEMMA CopiesStand ==
  ASSUME OrdersInv, HistoryOK, [Next]_vars, NEW r \in Requests, NEW column,
         call[r] # NoCall, call'[r] = call[r], Standing(r, column), Survives(r, column),
         NEW q \in Requests \ {r}, pc'[q] \in Waits, call'[q].order = call[r].order
  PROVE  /\ pc'[q] = "fill" => Keeps(order[q], r, column)'
         /\ pc'[q] \in Loaded /\ column # "status" => Keeps(order[q], r, column)'
         /\ call'[q].op # "create"
  <1> USE DEF OrdersInv
  <1> DEFINE o == call[r].order
  <1>1. [Next]_vars /\ o \in OrderIds /\ column \in Columns
    BY CallParts, SetsOf DEF Standing
  <1>2. CASE Receive(q)
    BY <1>2 DEF Receive, Goto, RequestTypes, Loaded
  <1>3. CASE /\ pc'[q] = pc[q] /\ order'[q] = order[q] /\ call'[q] = call[q]
    BY <1>3 DEF Survives, Keeps
  <1>4. CASE Step(q)
    <2>1. pc[q] \in Waits /\ call'[q] = call[q] /\ call[q] # NoCall
      BY <1>1, <1>4, StepsWait, CallsStay DEF ControlOf, Waits
    <2>2. call[q].op # "create"
      BY <2>1 DEF Survives
    <2>3. CASE pc'[q] \notin Loaded
      BY <2>1, <2>2, <2>3 DEF Loaded
    <2>4. CASE order'[q] = order[q] /\ pc[q] \in Loaded /\ pc'[q] # "fill"
      BY <2>1, <2>2, <2>4 DEF Survives, Keeps
    <2>5. CASE FindRow(q)
      <3>1. order'[q] = orders[o]
        BY <2>1, <2>5 DEF FindRow, Finish, RequestTypes, Waits
      <3> QED
        BY <2>1, <2>2, <3>1 DEF Survives, Keeps
    <2>6. CASE CacheGet(q)
      <3>1. /\ call[q].op \in {"status", "edit", "delete", "get"}
            /\ pc'[q] # "fill"
            /\ pc'[q] \in Loaded => cache[o] # NoRow /\ order'[q] = ToDomain(cache[o])
        BY <2>1, <2>6 DEF CacheGet, Goto, RequestTypes, ControlOf, Fits, Loaded
      <3>2. Keeps(cache[o], r, column)
        BY <2>1, <3>1, ReadersCameLater DEF Survives
      <3>3. column # "status" /\ cache[o] # NoRow => ToDomain(cache[o])[column] = call[r][column]
        BY <1>1, <3>2 DEF ToDomain, Keeps, TableTypes, Rows, Columns
      <3> QED
        BY <2>1, <2>2, <3>1, <3>3 DEF Keeps
    <2>7. CASE CacheSet(q)
      <3>1. pc[q] = "fill" /\ pc'[q] = "loaded" /\ order'[q] = ToDomain(order[q]) /\ order[q] \in Rows
        BY <2>1, <2>7 DEF CacheSet, Goto, RequestTypes, ControlOf, Loaded
      <3>2. order[q][column] = call[r][column]
        BY <2>1, <3>1, NullsAssumption DEF Survives, Keeps
      <3>3. column # "status" => ToDomain(order[q])[column] = call[r][column]
        BY <1>1, <3>1, <3>2 DEF ToDomain, Rows, Columns
      <3> QED
        BY <2>1, <2>2, <3>1, <3>3 DEF Keeps
    <2>8. CASE EditFields(q) \/ ChangeStatus(q) \/ MarkDelivered(q)
      <3>1. /\ pc[q] \in Loaded /\ order[q] \in Rows /\ pc'[q] # "fill"
            /\ call[q].op \in {"status", "edit", "delete", "get"}
        BY <2>8 DEF EditFields, ChangeStatus, MarkDelivered, SetStatus, Goto, Finish, RequestTypes,
           ControlOf, Fits, Loaded
      <3>2. column \notin Overwrites(call[q])
        BY <2>1, <3>1, ReadersCameLater
      <3>3. SUFFICES ASSUME column # "status", pc'[q] \in Loaded
                     PROVE  order'[q][column] = order[q][column]
        BY <2>1, <2>2, <3>1, NullsAssumption DEF Survives, Keeps
      <3>4. CASE EditFields(q)
        <4>1. column = "courier"
          BY <1>1, <3>2, <3>3, <3>4, OverwritesOf DEF EditFields, Columns
        <4> QED
          BY <3>1, <3>4, <4>1 DEF EditFields, RequestTypes, Rows
      <3>5. CASE MarkDelivered(q)
        <4>1. order'[q] = [order[q] EXCEPT !.status = call[q].status, !.courier = @]
          BY <3>5 DEF MarkDelivered, SetStatus, RequestTypes
        <4> QED
          BY <1>1, <3>1, <3>3, <4>1 DEF Rows, Columns
      <3>6. CASE ChangeStatus(q)
        <4>1. column # "courier" \/ call[q].status # "PICKED_UP"
          BY <3>2, <3>6, OverwritesOf DEF ChangeStatus
        <4>2. SetStatus(q, FALSE) \/ (SetStatus(q, TRUE) /\ call[q].status = "PICKED_UP")
          BY <3>3, <3>6 DEF ChangeStatus, Finish, RequestTypes, Loaded
        <4>3. CASE SetStatus(q, FALSE)
          <5>1. order'[q] = [order[q] EXCEPT !.status = call[q].status, !.courier = @]
            BY <4>3 DEF SetStatus, RequestTypes
          <5> QED
            BY <1>1, <3>1, <3>3, <5>1 DEF Rows, Columns
        <4>4. CASE SetStatus(q, TRUE) /\ call[q].status = "PICKED_UP"
          <5>1. order'[q] = [order[q] EXCEPT !.status = call[q].status, !.courier = call[q].courier]
            BY <4>4 DEF SetStatus, RequestTypes
          <5> QED
            BY <1>1, <3>1, <3>3, <4>1, <4>4, <5>1 DEF Rows, Columns
        <4> QED
          BY <4>2, <4>3, <4>4
      <3> QED
        BY <2>8, <3>4, <3>5, <3>6
    <2> QED
      BY <1>4, <2>3, <2>4, <2>5, <2>6, <2>7, <2>8 DEF Step, Goto, Finish, RequestTypes, Loaded,
         VerifyRole, StartDelivery, AttachProof, Attach, CheckPhotos, AttachNew, AttachRemoved,
         SaveRow, AfterSave, GetOrder, DeleteOrder, FindRecipient, FindCourier, LoadCourier,
         InsertRow, FindUser, RemoveUser
  <1> QED
    BY <1>1, <1>2, <1>3, <1>4, WhoseTurn DEF Waits

LEMMA SurvivalStep == OrdersInv /\ SurvivalInv /\ [Next]_vars => SurvivalInv'
  <1> SUFFICES ASSUME OrdersInv, SurvivalInv, [Next]_vars PROVE SurvivalInv'
    OBVIOUS
  <1>1. HistoryOK' /\ \A r \in Requests : MeantBy(r)'
    BY HistoryStays, MeantStays DEF SurvivalInv
  <1>2. ASSUME NEW r \in Requests, NEW column \in Columns PROVE Survives(r, column)'
    <2> SUFFICES ASSUME Standing(r, column)' PROVE Survives(r, column)'
      BY DEF Survives
    <2>1. /\ HistoryOK /\ MeantBy(r) /\ Survives(r, column)
          /\ call'[r] = call[r] /\ call[r] # NoCall
          /\ Standing(r, column) \/ SaveRow(r)
      BY StandingStarts DEF SurvivalInv
    <2>2. CASE Standing(r, column)
      BY <2>1, <2>2, RowStands, CachedStands, CopiesStand DEF Survives
    <2> QED
      BY <2>1, <2>2, SaveStands
  <1> QED
    BY <1>1, <1>2 DEF SurvivalInv

LEMMA SurvivalAtStart == Init => SurvivalInv
  <1> SUFFICES ASSUME Init PROVE SurvivalInv
    OBVIOUS
  <1>1. /\ finished = [r \in Requests |-> {}]
        /\ pc = [r \in Requests |-> "idle"] /\ result = [r \in Requests |-> "none"]
    BY DEF Init
  <1> QED
    BY <1>1 DEF SurvivalInv, HistoryOK, FinishedType, MeantBy, Survives, Standing

\* However requests interleave and the process crashes: what an answered request
\* set in a row (PrismaOrdersRepository.save) keeps its value until a later
\* request sets it, unless another request for the order overlapped it, or the
\* courier it set was deleted.  Of requests one after the other none undoes an
\* update by a stale copy.
THEOREM UpdatesSurvive == Spec => []UpdateLossNeedsRival
  <1>1. ASSUME OrdersInv, SurvivalInv PROVE UpdateLossNeedsRival
    <2> SUFFICES ASSUME NEW r \in Requests, result[r] = "ok", orders[call[r].order] # NoRow,
                        NEW column \in Sets(call[r]), \A q \in Requests : ~Rival(q, r, column),
                        column = "courier" => call[r].courier \in users
                 PROVE  orders[call[r].order][column] = call[r][column]
      BY DEF UpdateLossNeedsRival
    <2>1. Survives(r, column)
      BY <1>1, SetsOf DEF SurvivalInv
    <2> QED
      BY <2>1 DEF Survives, Standing, Keeps
  <1> QED
    BY <1>1, InitEstablishes, StepPreserves, SurvivalAtStart, SurvivalStep, PTL DEF Spec

=============================================================================
