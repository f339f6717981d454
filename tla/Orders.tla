------------------------------- MODULE Orders -------------------------------
(***************************************************************************)
(* Orders from the HTTP request to the database: the order use cases, the  *)
(* cached orders repository, the attachments of an order, the in-process   *)
(* event registry and the notification that a status change causes.        *)
(*                                                                         *)
(* A request is one call of a use case.  JavaScript runs it without        *)
(* interruption from one await to the next, so a request is a program      *)
(* counter over the places where it waits, and an action is either one     *)
(* command carried out by PostgreSQL or Redis, or the code up to the next  *)
(* await.  Redis commands go down one connection in the order issued, so   *)
(* one that is not awaited takes effect in the step that issues it.        *)
(***************************************************************************)
EXTENDS Integers, Sequences, FiniteSets, WatchedLists

CONSTANTS
  Requests,      \* HTTP requests
  OrderIds,      \* ids of orders
  Users,         \* ids of users: couriers, recipients and admins share a table
  Admins,        \* users with the ADMIN role
  Photos,        \* ids of uploaded attachments
  Slugs,         \* slugs; a title is represented by its slug
  Calls,         \* the calls that may arrive
  InitialOrders, \* the rows of the orders table at the start
  InitialPhotos, \* the order each attachment belongs to at the start
  NoUser,        \* null or undefined in place of a user id
  NoRow,         \* no row, or no cache entry
  NoOrder,       \* order_id of an attachment that belongs to no order
  NoCall,        \* a request that has not arrived
  MaxConcurrent, \* bound: requests in progress at once
  MaxRestarts    \* bound: crashes of the process

Statuses == {"PENDING", "AWAITING", "PICKED_UP", "DELIVERED", "RETURNED"}

Rows == [status : Statuses, courier : Users \cup {NoUser},
         recipient : Users, slug : Slugs]

Ops == {"status", "edit", "delete", "get", "create", "deleteUser"}

\* What a request carries; an operation reads the fields it needs.
CallType ==
  [op : Ops, by : Users, order : OrderIds, status : Statuses,
   courier : Users \cup {NoUser}, recipient : Users, slug : Slugs,
   photos : SUBSET Photos, user : Users]

ASSUME CallsAssumption == Calls \subseteq CallType
ASSUME AdminsAssumption == Admins \subseteq Users
ASSUME SeparateIds == OrderIds \cap Users = {}
ASSUME NullsAssumption ==
  /\ NoUser \notin Users
  /\ NoRow \notin Rows
  /\ NoOrder \notin OrderIds
  /\ NoCall \notin CallType
ASSUME InitialAssumption ==
  /\ InitialOrders \in [OrderIds -> Rows \cup {NoRow}]
  /\ InitialPhotos \in [Photos -> OrderIds \cup {NoOrder}]
  /\ \A p \in Photos : InitialPhotos[p] # NoOrder => InitialOrders[InitialPhotos[p]] # NoRow
ASSUME BoundsAssumption == MaxConcurrent \in Nat /\ MaxRestarts \in Nat

VARIABLES
  orders,         \* orders table: row of each id, or NoRow
  photoOf,        \* attachments table: order_id of each attachment
  users,          \* users table: the ids that still exist
  notifications,  \* notifications table
  cache,          \* Redis: the row cached for each order, or NoRow
  call,           \* what each request asked for
  pc,             \* where each request waits
  order,          \* the Order object each request works on
  attachments,    \* the new and removed items of that order's attachment list
  result,         \* how each request was answered
  inserting,      \* notifications whose INSERT is under way, awaited by nobody
  restarts,       \* history: crashes so far
  finished,       \* history: the requests that were over when each one arrived
  markedAggregates, domainEvents, handlersMap, raised, called

-----------------------------------------------------------------------------

(* Aggregates: the objects one request loads, each with the id of its row. *)

Objects == Requests \X (OrderIds \cup Users)
EventClasses == {"CourierRegistered", "CourierAssigned", "OrderStatusChanged"}

Registry == INSTANCE DomainEvents WITH
  Aggregates <- Objects,
  Ids <- OrderIds \cup Users,
  IdOf <- [object \in Objects |-> object[2]],
  Classes <- EventClasses,
  Handlers <- {"notify"},
  MaxEvents <- 2

dbVars == <<orders, photoOf, users, notifications>>
eventVars == <<markedAggregates, domainEvents, handlersMap, raised, called>>
vars == <<dbVars, cache, call, pc, order, attachments, result, inserting,
          restarts, finished, eventVars>>

OrderOf(r) == <<r, call[r].order>>

Waits == {"auth", "get", "find", "fill", "loaded", "attach", "check", "raise",
          "new", "removed", "row", "saved", "recipient", "courier", "insert",
          "user", "remove"}
Results == {"none", "ok", "unauthorized", "notFound", "notAllowed", "error", "crashed"}

NotificationType == [about : Objects, status : Statuses, to : Users]

TypeOK ==
  /\ orders \in [OrderIds -> Rows \cup {NoRow}]
  /\ photoOf \in [Photos -> OrderIds \cup {NoOrder}]
  /\ users \subseteq Users
  /\ notifications \subseteq NotificationType
  /\ cache \in [OrderIds -> Rows \cup {NoRow}]
  /\ call \in [Requests -> CallType \cup {NoCall}]
  /\ pc \in [Requests -> {"idle", "done"} \cup Waits]
  /\ order \in [Requests -> Rows \cup {NoRow}]
  /\ attachments \in [Requests -> [new : SUBSET Photos, removed : SUBSET Photos]]
  /\ result \in [Requests -> Results]
  /\ inserting \subseteq NotificationType
  /\ restarts \in 0..MaxRestarts
  /\ finished \in [Requests -> SUBSET Requests]
  /\ Registry!TypeOK

Init ==
  /\ orders = InitialOrders
  /\ photoOf = InitialPhotos
  /\ users = Users
  /\ notifications = {}
  /\ cache = [o \in OrderIds |-> NoRow]
  /\ call = [r \in Requests |-> NoCall]
  /\ pc = [r \in Requests |-> "idle"]
  /\ order = [r \in Requests |-> NoRow]
  /\ attachments = [r \in Requests |-> [new |-> {}, removed |-> {}]]
  /\ result = [r \in Requests |-> "none"]
  /\ inserting = {}
  /\ restarts = 0
  /\ finished = [r \in Requests |-> {}]
  /\ Registry!Init

-----------------------------------------------------------------------------

(* Steps every request is made of. *)

Goto(r, place) == /\ pc' = [pc EXCEPT ![r] = place]
                  /\ UNCHANGED result

Finish(r, answer) == /\ pc' = [pc EXCEPT ![r] = "done"]
                     /\ result' = [result EXCEPT ![r] = answer]

InProgress == {r \in Requests : pc[r] \in Waits}

\* The subscriber registers itself when Nest builds it; the server listens
\* only afterwards.
Boot ==
  /\ Registry!Register("notify", "OrderStatusChanged")
  /\ UNCHANGED <<dbVars, cache, call, pc, order, attachments, result, inserting,
                 restarts, finished>>

\* A create call stands for the fresh UUID its order will get.
Receive(r) ==
  /\ pc[r] = "idle"
  /\ "notify" \in handlersMap["OrderStatusChanged"]
  /\ Cardinality(InProgress) < MaxConcurrent
  /\ \E c \in Calls :
       /\ c.op = "create" =>
            /\ orders[c.order] = NoRow
            /\ \A q \in Requests : call[q] # NoCall => call[q].order # c.order
       /\ call' = [call EXCEPT ![r] = c]
       /\ Goto(r, IF c.op = "status" THEN "get" ELSE "auth")
  /\ finished' = [finished EXCEPT ![r] = {q \in Requests : pc[q] = "done"}]
  /\ UNCHANGED <<dbVars, cache, order, attachments, inserting, restarts, eventVars>>

\* AuthorizationService.verifyRole(ADMIN)
VerifyRole(r) ==
  /\ pc[r] = "auth"
  /\ IF call[r].by \in users \cap Admins
     THEN Goto(r, CASE call[r].op = "create" -> "recipient"
                    [] call[r].op = "deleteUser" -> "user"
                    [] OTHER -> "get")
     ELSE Finish(r, "unauthorized")
  /\ UNCHANGED <<dbVars, cache, call, order, attachments, inserting, restarts,
                 finished, eventVars>>

-----------------------------------------------------------------------------

(* PrismaOrdersRepository.findById: read through the cache. *)

\* PrismaOrderMapper.toDomain hands no status to Order.create, so every
\* loaded order starts as PENDING.
ToDomain(row) == [row EXCEPT !.status = "PENDING"]

CacheGet(r) ==
  /\ pc[r] = "get"
  /\ LET entry == cache[call[r].order] IN
     IF entry = NoRow
     THEN Goto(r, "find") /\ UNCHANGED order
     ELSE Goto(r, "loaded") /\ order' = [order EXCEPT ![r] = ToDomain(entry)]
  /\ UNCHANGED <<dbVars, cache, call, attachments, inserting, restarts, finished,
                 eventVars>>

\* Until the cache is filled order[r] is the raw row, status included.
FindRow(r) ==
  /\ pc[r] = "find"
  /\ LET row == orders[call[r].order] IN
     IF row = NoRow
     THEN Finish(r, "notFound") /\ UNCHANGED order
     ELSE Goto(r, "fill") /\ order' = [order EXCEPT ![r] = row]
  /\ UNCHANGED <<dbVars, cache, call, attachments, inserting, restarts, finished,
                 eventVars>>

CacheSet(r) ==
  /\ pc[r] = "fill"
  /\ cache' = [cache EXCEPT ![call[r].order] = order[r]]
  /\ order' = [order EXCEPT ![r] = ToDomain(@)]
  /\ Goto(r, "loaded")
  /\ UNCHANGED <<dbVars, call, attachments, inserting, restarts, finished, eventVars>>

\* A key set without EX.
CacheExpireNever(o) == FALSE /\ cache[o] # NoRow /\ UNCHANGED vars

\* The key expires fifteen minutes after it was set.
CacheExpire(o) ==
  /\ cache[o] # NoRow
  /\ cache' = [cache EXCEPT ![o] = NoRow]
  /\ UNCHANGED <<dbVars, call, pc, order, attachments, result, inserting, restarts,
                 finished, eventVars>>

-----------------------------------------------------------------------------

(* UpdateOrderStatusUseCase *)

\* Order.updateStatus, after Order.assignCourier when reassigned: both raise
\* an event, and the order waits to be saved.
SetStatus(r, reassigned) ==
  /\ order' = [order EXCEPT ![r].status = call[r].status,
                            ![r].courier = IF reassigned THEN call[r].courier ELSE @]
  /\ Registry!AddDomainEvents(OrderOf(r),
       IF reassigned THEN <<"CourierAssigned", "OrderStatusChanged">>
                     ELSE <<"OrderStatusChanged">>)
  /\ Goto(r, "row")

\* Every status but DELIVERED.
ChangeStatus(r) ==
  /\ pc[r] = "loaded" /\ call[r].op = "status" /\ call[r].status # "DELIVERED"
  /\ LET pickedUp == call[r].status = "PICKED_UP" IN
     IF pickedUp /\ call[r].courier = NoUser
     THEN Finish(r, "notAllowed") /\ UNCHANGED <<order, eventVars>>
     ELSE SetStatus(r, pickedUp /\ order[r].courier # call[r].courier)
  /\ UNCHANGED <<dbVars, cache, call, attachments, inserting, restarts, finished>>

\* A delivery that does not look at the courier.
StartDeliveryUnchecked(r) ==
  /\ pc[r] = "loaded" /\ call[r].op = "status" /\ call[r].status = "DELIVERED"
  /\ Goto(r, "attach")
  /\ UNCHANGED <<dbVars, cache, call, order, attachments, inserting, restarts,
                 finished, eventVars>>

\* The courier is compared only when the body names one.
StartDelivery(r) ==
  /\ pc[r] = "loaded" /\ call[r].op = "status" /\ call[r].status = "DELIVERED"
  /\ IF call[r].courier # NoUser /\ order[r].courier # call[r].courier
     THEN Finish(r, "notAllowed")
     ELSE Goto(r, "attach")
  /\ UNCHANGED <<dbVars, cache, call, order, attachments, inserting, restarts,
                 finished, eventVars>>

\* PrismaOrderAttachmentsRepository.createMany: one UPDATE that moves the
\* attachments to the order, from another order too; nothing for an empty
\* list; the foreign key refuses an order that is gone.
Attach(r, items, next) ==
  /\ IF items # {} /\ orders[call[r].order] = NoRow
     THEN Finish(r, "error") /\ UNCHANGED photoOf
     ELSE /\ photoOf' = [p \in Photos |-> IF p \in items THEN call[r].order ELSE photoOf[p]]
          /\ Goto(r, next)
  /\ UNCHANGED <<orders, users, notifications, cache, call, order, attachments,
                 inserting, restarts, finished, eventVars>>

AttachProof(r) == pc[r] = "attach" /\ Attach(r, call[r].photos, "check")

PhotosOf(o) == {p \in Photos : photoOf[p] = o}

\* A delivery that takes an order without a photo.
CheckPhotosNever(r) ==
  /\ pc[r] = "check"
  /\ Goto(r, "raise")
  /\ UNCHANGED <<dbVars, cache, call, order, attachments, inserting, restarts,
                 finished, eventVars>>

CheckPhotos(r) ==
  /\ pc[r] = "check"
  /\ IF PhotosOf(call[r].order) = {}
     THEN Finish(r, "notAllowed")
     ELSE Goto(r, "raise")
  /\ UNCHANGED <<dbVars, cache, call, order, attachments, inserting, restarts,
                 finished, eventVars>>

MarkDelivered(r) ==
  /\ pc[r] = "raise"
  /\ SetStatus(r, FALSE)
  /\ UNCHANGED <<dbVars, cache, call, attachments, inserting, restarts, finished>>

-----------------------------------------------------------------------------

(* EditOrderUseCase *)

\* findManyByOrderId, the attachment list updated from it, and the setters:
\* they raise no event and leave the status toDomain gave.
EditFields(r) ==
  /\ pc[r] = "loaded" /\ call[r].op = "edit"
  /\ LET list == Update(Constructed(PhotosOf(call[r].order)), call[r].photos) IN
     attachments' = [attachments EXCEPT ![r] = [new |-> list.new, removed |-> list.removed]]
  /\ order' = [order EXCEPT ![r].recipient = call[r].recipient, ![r].slug = call[r].slug]
  /\ Goto(r, IF call[r].photos = {} THEN "row" ELSE "new")
  /\ UNCHANGED <<dbVars, cache, call, inserting, restarts, finished, eventVars>>

AttachNew(r) == pc[r] = "new" /\ Attach(r, attachments[r].new, "removed")

\* save passes the removed items to createMany as well.
AttachRemoved(r) == pc[r] = "removed" /\ Attach(r, attachments[r].removed, "row")

-----------------------------------------------------------------------------

(* PrismaOrdersRepository.save.  An order whose status changed has no new or *)
(* removed attachments, so its save begins at "row".                         *)

\* What PostgreSQL demands of a row of orders: its users exist and its slug
\* is its own.
Accepts(o, row) ==
  /\ row.recipient \in users
  /\ row.courier \in users \cup {NoUser}
  /\ \A p \in OrderIds \ {o} : orders[p] # NoRow => orders[p].slug # row.slug

\* PrismaOrderMapper.toPrisma writes every column of the object, but a courier
\* that is not set becomes undefined, which leaves the column as it is.
Written(r, old) ==
  [order[r] EXCEPT !.courier = IF @ = NoUser THEN old.courier ELSE @]

\* A notification for the courier of the order.
NotificationForCourier(object) ==
  [about |-> object, status |-> order[object[1]].status, to |-> order[object[1]].courier]

\* OnOrderStatusChanged builds the notification from the order of the event.
NotificationFor(object) ==
  [about |-> object, status |-> order[object[1]].status, to |-> order[object[1]].recipient]

\* A save that dispatches in a finally block.
SaveRowFinally(r) ==
  /\ pc[r] = "row"
  /\ LET o == call[r].order IN
     IF orders[o] # NoRow /\ Accepts(o, Written(r, orders[o]))
     THEN /\ orders' = [orders EXCEPT ![o] = Written(r, @)]
          /\ Goto(r, "saved")
          /\ UNCHANGED <<inserting, eventVars>>
     ELSE /\ Finish(r, "error")
          /\ Registry!DispatchEventsForAggregate(o)
          /\ inserting' = inserting \cup {NotificationFor(c[2].from) : c \in called' \ called}
          /\ UNCHANGED orders
  /\ UNCHANGED <<photoOf, users, notifications, cache, call, order, attachments,
                 restarts, finished>>

\* A save that waits for a row that is not there.
SaveRowWaiting(r) ==
  /\ pc[r] = "row"
  /\ LET o == call[r].order IN
     /\ orders[o] # NoRow /\ Accepts(o, Written(r, orders[o]))
     /\ orders' = [orders EXCEPT ![o] = Written(r, @)]
     /\ Goto(r, "saved")
  /\ UNCHANGED <<photoOf, users, notifications, cache, call, order, attachments,
                 inserting, restarts, finished, eventVars>>

SaveRow(r) ==
  /\ pc[r] = "row"
  /\ LET o == call[r].order IN
     IF orders[o] # NoRow /\ Accepts(o, Written(r, orders[o]))
     THEN /\ orders' = [orders EXCEPT ![o] = Written(r, @)]
          /\ Goto(r, "saved")
     ELSE Finish(r, "error") /\ UNCHANGED orders
  /\ UNCHANGED <<photoOf, users, notifications, cache, call, order, attachments,
                 inserting, restarts, finished, eventVars>>

\* A save that leaves the cached row.
AfterSaveKeepingEntry(r) ==
  /\ pc[r] = "saved"
  /\ Registry!DispatchEventsForAggregate(call[r].order)
  /\ inserting' = inserting \cup {NotificationFor(c[2].from) : c \in called' \ called}
  /\ Finish(r, "ok")
  /\ UNCHANGED <<dbVars, cache, call, order, attachments, restarts, finished>>

\* A save that dispatches nothing.
AfterSaveSilent(r) ==
  /\ pc[r] = "saved"
  /\ cache' = [cache EXCEPT ![call[r].order] = NoRow]
  /\ Finish(r, "ok")
  /\ UNCHANGED <<dbVars, call, order, attachments, inserting, restarts, finished,
                 eventVars>>

\* A save that clears the events of its order instead of dispatching them.
AfterSaveClearing(r) ==
  /\ pc[r] = "saved"
  /\ cache' = [cache EXCEPT ![call[r].order] = NoRow]
  /\ domainEvents' = [domainEvents EXCEPT ![OrderOf(r)] = <<>>]
  /\ Finish(r, "ok")
  /\ UNCHANGED <<dbVars, call, order, attachments, inserting, restarts, finished,
                 markedAggregates, handlersMap, raised, called>>

\* The rest of save: DEL is not awaited, and the dispatch starts the callbacks
\* of whichever aggregate is marked with the order's id.
AfterSave(r) ==
  /\ pc[r] = "saved"
  /\ cache' = [cache EXCEPT ![call[r].order] = NoRow]
  /\ Registry!DispatchEventsForAggregate(call[r].order)
  /\ inserting' = inserting \cup {NotificationFor(c[2].from) : c \in called' \ called}
  /\ Finish(r, "ok")
  /\ UNCHANGED <<dbVars, call, order, attachments, restarts, finished>>

-----------------------------------------------------------------------------

(* GetOrderUseCase, DeleteOrderUseCase, CreateOrderUseCase *)

GetOrder(r) ==
  /\ pc[r] = "loaded" /\ call[r].op = "get"
  /\ Finish(r, "ok")
  /\ UNCHANGED <<dbVars, cache, call, order, attachments, inserting, restarts,
                 finished, eventVars>>

\* delete touches the table only: the cache entry stays.  The attachments of
\* the order lose their order_id (ON DELETE SET NULL).
DeleteOrder(r) ==
  /\ pc[r] = "loaded" /\ call[r].op = "delete"
  /\ LET o == call[r].order IN
     IF orders[o] = NoRow
     THEN Finish(r, "error") /\ UNCHANGED <<orders, photoOf>>
     ELSE /\ orders' = [orders EXCEPT ![o] = NoRow]
          /\ photoOf' = [p \in Photos |-> IF photoOf[p] = o THEN NoOrder ELSE photoOf[p]]
          /\ Finish(r, "ok")
  /\ UNCHANGED <<users, notifications, cache, call, order, attachments, inserting,
                 restarts, finished, eventVars>>

FindRecipient(r) ==
  /\ pc[r] = "recipient"
  /\ IF call[r].recipient \notin users THEN Finish(r, "notFound")
     ELSE Goto(r, IF call[r].courier = NoUser THEN "insert" ELSE "courier")
  /\ UNCHANGED <<dbVars, cache, call, order, attachments, inserting, restarts,
                 finished, eventVars>>

\* PrismaCouriersRepository.findById accepts any user, and mapping the row
\* calls Courier.create, which raises a registration event on every read.
LoadCourier(r, user, next) ==
  /\ IF user \notin users
     THEN Finish(r, "notFound") /\ UNCHANGED eventVars
     ELSE /\ Registry!AddDomainEvents(<<r, user>>, <<"CourierRegistered">>)
          /\ Goto(r, next)
  /\ UNCHANGED <<dbVars, cache, call, order, attachments, inserting, restarts,
                 finished>>

FindCourier(r) == pc[r] = "courier" /\ LoadCourier(r, call[r].courier, "insert")

\* Order.create raises no event, so the dispatch that ends create finds none.
InsertRow(r) ==
  /\ pc[r] = "insert"
  /\ LET o == call[r].order
         row == [status |-> "PENDING", courier |-> call[r].courier,
                 recipient |-> call[r].recipient, slug |-> call[r].slug]
     IN IF Accepts(o, row)
        THEN orders' = [orders EXCEPT ![o] = row] /\ Finish(r, "ok")
        ELSE Finish(r, "error") /\ UNCHANGED orders
  /\ UNCHANGED <<photoOf, users, notifications, cache, call, order, attachments,
                 inserting, restarts, finished, eventVars>>

-----------------------------------------------------------------------------

(* DeleteCourierUseCase: what it does to orders. *)

FindUser(r) == pc[r] = "user" /\ LoadCourier(r, call[r].user, "remove")

\* A user who is the recipient of an order or of a notification cannot be
\* deleted; the orders of a deleted courier lose him (ON DELETE SET NULL), the
\* cached rows do not.
RemoveUser(r) ==
  /\ pc[r] = "remove"
  /\ LET u == call[r].user IN
     IF /\ u \in users
        /\ \A o \in OrderIds : orders[o] # NoRow => orders[o].recipient # u
        /\ \A n \in notifications : n.to # u
     THEN /\ users' = users \ {u}
          /\ orders' = [o \in OrderIds |->
               IF orders[o] # NoRow /\ orders[o].courier = u
               THEN [orders[o] EXCEPT !.courier = NoUser] ELSE orders[o]]
          /\ Finish(r, "ok")
     ELSE Finish(r, "error") /\ UNCHANGED <<users, orders>>
  /\ UNCHANGED <<photoOf, notifications, cache, call, order, attachments,
                 inserting, restarts, finished, eventVars>>

-----------------------------------------------------------------------------

(* What happens beside the requests. *)

\* Everything in memory is gone; the database and Redis stay.
ProcessDown ==
  /\ restarts < MaxRestarts
  /\ restarts' = restarts + 1
  /\ pc' = [r \in Requests |-> IF pc[r] \in Waits THEN "done" ELSE pc[r]]
  /\ result' = [r \in Requests |-> IF pc[r] \in Waits THEN "crashed" ELSE result[r]]
  /\ inserting' = {}
  /\ Registry!Restart
  /\ UNCHANGED <<dbVars, cache, call, order, attachments, finished>>

\* SendNotificationUseCase: the row is inserted, or the foreign key refuses a
\* recipient who is gone.
InsertNotification(n) ==
  /\ n.to \in users
  /\ notifications' = notifications \cup {n}
  /\ inserting' = inserting \ {n}
  /\ UNCHANGED <<orders, photoOf, users, cache, call, pc, order, attachments,
                 result, restarts, finished, eventVars>>

\* Nobody awaits the callback, so its rejection ends the process (Node 18).
InsertRefused(n) == n.to \notin users /\ ProcessDown

-----------------------------------------------------------------------------

Step(r) ==
  \/ VerifyRole(r)
  \/ CacheGet(r) \/ FindRow(r) \/ CacheSet(r)
  \/ ChangeStatus(r)
  \/ StartDelivery(r) \/ AttachProof(r) \/ CheckPhotos(r) \/ MarkDelivered(r)
  \/ EditFields(r) \/ AttachNew(r) \/ AttachRemoved(r)
  \/ SaveRow(r) \/ AfterSave(r)
  \/ GetOrder(r) \/ DeleteOrder(r)
  \/ FindRecipient(r) \/ FindCourier(r) \/ InsertRow(r)
  \/ FindUser(r) \/ RemoveUser(r)

Next ==
  \/ Boot
  \/ \E r \in Requests : Receive(r) \/ Step(r)
  \/ \E n \in inserting : InsertNotification(n) \/ InsertRefused(n)
  \/ \E o \in OrderIds : CacheExpire(o)
  \/ ProcessDown

Spec == Init /\ [][Next]_vars

\* Pending commands are answered, started callbacks run, Redis expires keys.
\* Requests need not arrive and the process need not crash.
Fairness ==
  /\ WF_vars(Boot)
  /\ \A r \in Requests : WF_vars(Step(r))
  /\ WF_vars(\E n \in inserting : InsertNotification(n) \/ InsertRefused(n))
  /\ \A o \in OrderIds : WF_vars(CacheExpire(o))

FairSpec == Spec /\ Fairness

-----------------------------------------------------------------------------

(* Safety *)

\* Every step of the orders is a step of the event registry or leaves it
\* alone: what DomainEvents promises holds for its use by the repositories,
\* across restarts of the process.
RegistrySpec == Registry!Spec

\* Whichever copy of an order a dispatch takes the mark of, a copy that stays
\* marked is never that of a request answered with success: it belongs to a
\* request in progress or to one whose save failed.
SuccessUnmarks ==
  \A i \in DOMAIN markedAggregates :
    LET object == markedAggregates[i] IN
    object[2] \in OrderIds => result[object[1]] # "ok"

\* The events of a saved status change are lost only to another request that
\* changed the status of the same order.
LossNeedsRival ==
  \A r \in Requests :
    /\ result[r] = "ok"
    /\ call[r].op = "status"
    /\ domainEvents[OrderOf(r)] # <<>>
    => \E q \in Requests \ {r} : raised[<<q, call[r].order>>] > 0

\* A notification is sent only after some save of its order has committed,
\* even if it tells of a change that was not saved itself.
NotifiedAfterSave ==
  \A n \in inserting \cup notifications :
    \E r \in Requests :
      /\ result[r] = "ok"
      /\ call[r].op \in {"status", "edit"}
      /\ call[r].order = n.about[2]

\* A save that delivers an order in the name of a courier leaves that courier
\* on the row, however stale the copy it checked him against.
DeliveredByItsCourier ==
  [][\A r \in Requests :
       /\ pc[r] = "row" /\ pc'[r] = "saved"
       /\ call[r].op = "status" /\ call[r].status = "DELIVERED"
       /\ call[r].courier # NoUser
       => orders'[call[r].order].courier = call[r].courier]_vars

\* A delivered order has a photo ("To mark an order as delivered, a photo must
\* be provided"): so while no other order claims the attachment.
DeliveredHasPhoto ==
  \A o \in OrderIds :
    orders[o] # NoRow /\ orders[o].status = "DELIVERED" => PhotosOf(o) # {}

\* The columns a request is asked to change.
Sets(c) ==
  CASE c.op = "edit" -> {"recipient", "slug"}
    [] c.op = "status" /\ c.status = "PICKED_UP" -> {"status", "courier"}
    [] c.op = "status" /\ c.status # "PICKED_UP" -> {"status"}
    [] OTHER -> {}

\* The columns it changes whatever it read: an edit resets the status too.
Overwrites(c) == Sets(c) \cup (IF c.op = "edit" THEN {"status"} ELSE {})

Reads(q, o) ==
  /\ call[q] # NoCall /\ call[q].order = o
  /\ call[q].op \in {"status", "edit", "delete", "get"}

\* A request for the same order that was not over when r arrived, and that
\* changes the column itself or read the order before r was answered: what it
\* read it may write back, or leave in the cache for another to write back.
Rival(q, r, column) ==
  /\ q # r
  /\ Reads(q, call[r].order)
  /\ q \notin finished[r]
  /\ column \in Overwrites(call[q]) \/ r \notin finished[q]

\* A column that an answered request set keeps its value until a later request
\* sets it, unless another request overlapped this one: of requests one after
\* the other, none undoes by a stale copy, its own or one out of the cache,
\* what was answered before it arrived.  Only the deletion of the courier takes
\* him off the row otherwise.
UpdateLossNeedsRival ==
  \A r \in Requests :
    result[r] = "ok" /\ orders[call[r].order] # NoRow =>
      \A column \in Sets(call[r]) :
        \/ orders[call[r].order][column] = call[r][column]
        \/ \E q \in Requests : Rival(q, r, column)
        \/ column = "courier" /\ call[r].courier \notin users

-----------------------------------------------------------------------------

(* Promises of the documentation and the tests that the code does not keep. *)

\* Editing "the details of an existing order" leaves its status alone
\* (EditOrderUseCase, through the mapper that drops it).
EditKeepsStatus ==
  [][\A r \in Requests :
       /\ pc[r] = "row" /\ pc'[r] = "saved"
       /\ call[r].op = "edit"
       => orders'[call[r].order].status = orders[call[r].order].status]_vars

\* "Only the courier who picked up the order can mark it as delivered."
OnlyItsCourierDelivers ==
  [][\A r \in Requests :
       /\ pc[r] = "row" /\ pc'[r] = "saved"
       /\ call[r].op = "status" /\ call[r].status = "DELIVERED"
       => call[r].courier = orders[call[r].order].courier]_vars

\* An edit leaves the order with exactly the attachments it lists.
EditSyncsPhotos ==
  [][\A r \in Requests :
       /\ pc[r] = "saved" /\ result'[r] = "ok"
       /\ call[r].op = "edit"
       => PhotosOf(call[r].order) = call[r].photos]_vars

\* "should reset order details cache when saving the order": when no request is
\* in progress, a cache entry is the row of the table.
SaveResetsCache ==
  InProgress = {} => \A o \in OrderIds : cache[o] \in {NoRow, orders[o]}

-----------------------------------------------------------------------------

(* Liveness *)

\* Every request that arrived is answered, by an error if need be.
EveryCallAnswered == \A r \in Requests : pc[r] \in Waits ~> pc[r] = "done"

\* A saved status change reaches the recipient ("It must be possible to notify
\* the recipient whenever the order's status changes").
EveryChangeNotified ==
  \A r \in Requests :
    result[r] = "ok" /\ call[r].op = "status"
      ~> \E n \in notifications : n.about[1] = r

\* What is kept of that promise: an answered status change reaches the recipient
\* unless the process went down or another request changed the order's status.
NotifiedUnlessLost ==
  \A r \in Requests :
    result[r] = "ok" /\ call[r].op = "status"
      ~> \/ \E n \in notifications : n.about[1] = r
         \/ restarts > 0
         \/ \E q \in Requests \ {r} :
              call[r] # NoCall /\ raised[<<q, call[r].order>>] > 0

\* Once requests stop, every cache entry comes to agree with its row, or goes.
CacheSettles == <>[](\A o \in OrderIds : cache[o] \in {NoRow, orders[o]})

=============================================================================
