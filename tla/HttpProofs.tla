----------------------------- MODULE HttpProofs -----------------------------
(***************************************************************************)
(* Proofs about Http, for any users, requests and calls.                   *)
(***************************************************************************)
EXTENDS Http, SequenceTheorems, TLAPS

-----------------------------------------------------------------------------

(* The table of controllers *)

\* What the proofs need to know of a controller: the types of its fields, that
\* those for admins are not public, and that those which look up a user have
\* no other reason to say "not found".
Regular(e) ==
  /\ e.public \in BOOLEAN /\ e.checked \in BOOLEAN /\ e.admin \in BOOLEAN /\ e.finds \in BOOLEAN
  /\ e.rules \subseteq Errors /\ e.gives \subseteq Roles
  /\ e.admin => ~e.public
  /\ e.finds => "notFound" \notin e.rules

AllControllers ==
  {CreateUser, Authenticate, ChangeUserPassword, FetchUserDeliveries} \cup
  {CreateOrder, FetchOrdersNearby, GetOrders, GetOrder, EditOrder, DeleteOrder,
   UpdateOrderStatus} \cup
  {RegisterCourier, GetCouriers, GetCourier, EditCourier, DeleteCourier} \cup
  {RegisterRecipient, GetRecipients, GetRecipient, EditRecipient, DeleteRecipient} \cup
  {UploadAttachment, ReadNotification}

LEMMA UsersRegular ==
  Regular(CreateUser) /\ Regular(Authenticate) /\ Regular(ChangeUserPassword)
    /\ Regular(FetchUserDeliveries)
  <1>1. Regular(CreateUser)
    BY DEF Regular, Errors, Roles, CreateUser, Controller
  <1>2. Regular(Authenticate)
    BY DEF Regular, Errors, Roles, Authenticate, Controller
  <1>3. Regular(ChangeUserPassword)
    BY DEF Regular, Errors, Roles, ChangeUserPassword, Controller
  <1>4. Regular(FetchUserDeliveries)
    BY DEF Regular, Errors, Roles, FetchUserDeliveries, Controller
  <1> QED
    BY <1>1, <1>2, <1>3, <1>4

LEMMA OrdersRegular ==
  Regular(CreateOrder) /\ Regular(FetchOrdersNearby) /\ Regular(GetOrders)
    /\ Regular(GetOrder) /\ Regular(EditOrder) /\ Regular(DeleteOrder)
    /\ Regular(UpdateOrderStatus)
  <1> USE DEF Regular, Errors, Roles, Controller, ForAdmins, OfOrder, OfUser
  <1>1. Regular(CreateOrder)
    BY DEF CreateOrder
  <1>2. Regular(FetchOrdersNearby)
    BY DEF FetchOrdersNearby
  <1>3. Regular(GetOrders)
    BY DEF GetOrders
  <1>4. Regular(GetOrder)
    BY DEF GetOrder
  <1>5. Regular(EditOrder)
    BY DEF EditOrder
  <1>6. Regular(DeleteOrder)
    BY DEF DeleteOrder
  <1>7. Regular(UpdateOrderStatus)
    BY DEF UpdateOrderStatus
  <1> QED
    BY <1>1, <1>2, <1>3, <1>4, <1>5, <1>6, <1>7

LEMMA CouriersRegular ==
  Regular(RegisterCourier) /\ Regular(GetCouriers) /\ Regular(GetCourier)
    /\ Regular(EditCourier) /\ Regular(DeleteCourier)
  <1> USE DEF Regular, Errors, Roles, Controller, ForAdmins, OfUser
  <1>1. Regular(RegisterCourier)
    BY DEF RegisterCourier
  <1>2. Regular(GetCouriers)
    BY DEF GetCouriers
  <1>3. Regular(GetCourier)
    BY DEF GetCourier
  <1>4. Regular(EditCourier)
    BY DEF EditCourier
  <1>5. Regular(DeleteCourier)
    BY DEF DeleteCourier
  <1> QED
    BY <1>1, <1>2, <1>3, <1>4, <1>5

LEMMA RecipientsRegular ==
  Regular(RegisterRecipient) /\ Regular(GetRecipients) /\ Regular(GetRecipient)
    /\ Regular(EditRecipient) /\ Regular(DeleteRecipient)
  <1> USE DEF Regular, Errors, Roles, Controller, ForAdmins, OfUser
  <1>1. Regular(RegisterRecipient)
    BY DEF RegisterRecipient
  <1>2. Regular(GetRecipients)
    BY DEF GetRecipients
  <1>3. Regular(GetRecipient)
    BY DEF GetRecipient
  <1>4. Regular(EditRecipient)
    BY DEF EditRecipient
  <1>5. Regular(DeleteRecipient)
    BY DEF DeleteRecipient
  <1> QED
    BY <1>1, <1>2, <1>3, <1>4, <1>5

LEMMA OthersRegular == Regular(UploadAttachment) /\ Regular(ReadNotification)
  BY DEF Regular, Errors, Roles, Controller, UploadAttachment, ReadNotification

\* Every endpoint is one of the controllers.
LEMMA EndpointsAreControllers == Endpoints \subseteq AllControllers
  <1>1. /\ UserModule \in Seq(AllControllers) /\ OrderModule \in Seq(AllControllers)
        /\ CourierModule \in Seq(AllControllers) /\ RecipientModule \in Seq(AllControllers)
        /\ AttachmentModule \in Seq(AllControllers) /\ NotificationModule \in Seq(AllControllers)
    BY DEF AllControllers, UserModule, OrderModule, CourierModule, RecipientModule,
       AttachmentModule, NotificationModule
  <1>2. Controllers \in Seq(AllControllers)
    BY <1>1, ConcatProperties DEF Controllers
  <1> QED
    BY <1>2 DEF Endpoints

LEMMA EndpointsRegular == \A e \in Endpoints : Regular(e)
  <1>1. \A e \in AllControllers : Regular(e)
    BY UsersRegular, OrdersRegular, CouriersRegular, RecipientsRegular, OthersRegular
       DEF AllControllers
  <1> QED
    BY <1>1, EndpointsAreControllers

-----------------------------------------------------------------------------

(* Routing *)

\* What tells the routes of the controllers apart, but for two of them.
Route(e) == <<e.method, Len(e.path), e.path[1]>>

LEMMA UserRoutes ==
  /\ Route(CreateUser) = <<"POST", 1, "users">>
  /\ Route(Authenticate) = <<"POST", 1, "sessions">>
  /\ Route(ChangeUserPassword) = <<"POST", 3, "users">>
  /\ Route(FetchUserDeliveries) = <<"GET", 3, "users">>
  BY DEF Route, Controller, CreateUser, Authenticate, ChangeUserPassword, FetchUserDeliveries

LEMMA OrderRoutes ==
  /\ Route(CreateOrder) = <<"POST", 2, "orders">>
  /\ Route(FetchOrdersNearby) = <<"GET", 2, "orders">>
  /\ Route(GetOrders) = <<"GET", 1, "orders">>
  /\ Route(GetOrder) = <<"GET", 2, "orders">>
  /\ Route(EditOrder) = <<"PUT", 2, "orders">>
  /\ Route(DeleteOrder) = <<"DELETE", 2, "orders">>
  /\ Route(UpdateOrderStatus) = <<"PUT", 3, "orders">>
  BY DEF Route, Controller, ForAdmins, OfOrder, OfUser, CreateOrder, FetchOrdersNearby,
     GetOrders, GetOrder, EditOrder, DeleteOrder, UpdateOrderStatus

LEMMA CourierRoutes ==
  /\ Route(RegisterCourier) = <<"POST", 1, "couriers">>
  /\ Route(GetCouriers) = <<"GET", 1, "couriers">>
  /\ Route(GetCourier) = <<"GET", 2, "couriers">>
  /\ Route(EditCourier) = <<"PUT", 2, "couriers">>
  /\ Route(DeleteCourier) = <<"DELETE", 2, "couriers">>
  BY DEF Route, Controller, ForAdmins, OfUser, RegisterCourier, GetCouriers, GetCourier,
     EditCourier, DeleteCourier

LEMMA RecipientRoutes ==
  /\ Route(RegisterRecipient) = <<"POST", 1, "recipients">>
  /\ Route(GetRecipients) = <<"GET", 1, "recipients">>
  /\ Route(GetRecipient) = <<"GET", 2, "recipients">>
  /\ Route(EditRecipient) = <<"PUT", 2, "recipients">>
  /\ Route(DeleteRecipient) = <<"DELETE", 2, "recipients">>
  BY DEF Route, Controller, ForAdmins, OfUser, RegisterRecipient, GetRecipients, GetRecipient,
     EditRecipient, DeleteRecipient

LEMMA OtherRoutes ==
  /\ Route(UploadAttachment) = <<"POST", 1, "attachments">>
  /\ Route(ReadNotification) = <<"PATCH", 3, "notifications">>
  BY DEF Route, Controller, UploadAttachment, ReadNotification

\* GET /orders/:id is the only route that takes the requests of another.
LEMMA RoutesDiffer ==
  ASSUME NEW h \in AllControllers, NEW e \in AllControllers, Route(h) = Route(e)
  PROVE  h = e \/ {h, e} = {GetOrder, FetchOrdersNearby}
  <1>1. ASSUME h \in {CreateUser, Authenticate, ChangeUserPassword, FetchUserDeliveries}
        PROVE  h = e
    BY <1>1, UserRoutes, OrderRoutes, CourierRoutes, RecipientRoutes, OtherRoutes
       DEF AllControllers
  <1>2. ASSUME h \in {CreateOrder, FetchOrdersNearby, GetOrders, GetOrder, EditOrder,
                      DeleteOrder, UpdateOrderStatus}
        PROVE  h = e \/ {h, e} = {GetOrder, FetchOrdersNearby}
    BY <1>2, UserRoutes, OrderRoutes, CourierRoutes, RecipientRoutes, OtherRoutes
       DEF AllControllers
  <1>3. ASSUME h \in {RegisterCourier, GetCouriers, GetCourier, EditCourier, DeleteCourier}
        PROVE  h = e
    BY <1>3, UserRoutes, OrderRoutes, CourierRoutes, RecipientRoutes, OtherRoutes
       DEF AllControllers
  <1>4. ASSUME h \in {RegisterRecipient, GetRecipients, GetRecipient, EditRecipient,
                      DeleteRecipient}
        PROVE  h = e
    BY <1>4, UserRoutes, OrderRoutes, CourierRoutes, RecipientRoutes, OtherRoutes
       DEF AllControllers
  <1>5. ASSUME h \in {UploadAttachment, ReadNotification}
        PROVE  h = e
    BY <1>5, UserRoutes, OrderRoutes, CourierRoutes, RecipientRoutes, OtherRoutes
       DEF AllControllers
  <1> QED
    BY <1>1, <1>2, <1>3, <1>4, <1>5 DEF AllControllers

\* Every path begins with the name of a resource.
LEMMA PathsBegin ==
  \A e \in AllControllers : Len(e.path) \in 1..3 /\ DOMAIN e.path = 1..Len(e.path)
                            /\ e.path[1] # Param
  <1> USE DEF Controller, ForAdmins, OfOrder, OfUser, Param
  <1> DEFINE Begins(e) == Len(e.path) \in 1..3 /\ DOMAIN e.path = 1..Len(e.path)
                            /\ e.path[1] # Param
  <1>1. Begins(CreateUser) /\ Begins(Authenticate) /\ Begins(ChangeUserPassword)
          /\ Begins(FetchUserDeliveries)
    BY DEF CreateUser, Authenticate, ChangeUserPassword, FetchUserDeliveries
  <1>2. /\ Begins(CreateOrder) /\ Begins(FetchOrdersNearby) /\ Begins(GetOrders)
        /\ Begins(GetOrder) /\ Begins(EditOrder) /\ Begins(DeleteOrder)
        /\ Begins(UpdateOrderStatus)
    BY DEF CreateOrder, FetchOrdersNearby, GetOrders, GetOrder, EditOrder, DeleteOrder,
       UpdateOrderStatus
  <1>3. Begins(RegisterCourier) /\ Begins(GetCouriers) /\ Begins(GetCourier)
          /\ Begins(EditCourier) /\ Begins(DeleteCourier)
    BY DEF RegisterCourier, GetCouriers, GetCourier, EditCourier, DeleteCourier
  <1>4. Begins(RegisterRecipient) /\ Begins(GetRecipients) /\ Begins(GetRecipient)
          /\ Begins(EditRecipient) /\ Begins(DeleteRecipient)
    BY DEF RegisterRecipient, GetRecipients, GetRecipient, EditRecipient, DeleteRecipient
  <1>5. Begins(UploadAttachment) /\ Begins(ReadNotification)
    BY DEF UploadAttachment, ReadNotification
  <1> HIDE DEF Begins
  <1>6. \A e \in AllControllers : Begins(e)
    BY <1>1, <1>2, <1>3, <1>4, <1>5 DEF AllControllers
  <1> QED
    BY <1>6 DEF Begins

LEMMA LongerBegins ==
  ASSUME NEW s \in Seq(AllControllers), NEW t \in Seq(AllControllers), Len(s) >= 6
  PROVE  /\ s \o t \in Seq(AllControllers) /\ Len(s \o t) >= 6
         /\ \A i \in 1..6 : (s \o t)[i] = s[i]
  <1>1. /\ s \o t \in Seq(AllControllers) /\ Len(s \o t) = Len(s) + Len(t)
        /\ \A i \in 1..(Len(s) + Len(t)) :
             (s \o t)[i] = IF i <= Len(s) THEN s[i] ELSE t[i - Len(s)]
    BY ConcatProperties
  <1>2. Len(s) \in Nat /\ Len(t) \in Nat
    OBVIOUS
  <1> QED
    BY <1>1, <1>2

\* The first six routes: nearby is tried before every :id.
LEMMA FirstRoutes ==
  /\ DOMAIN Controllers = 1..Len(Controllers) /\ Len(Controllers) \in Nat
  /\ Controllers[1] = CreateUser /\ Controllers[2] = Authenticate
  /\ Controllers[3] = ChangeUserPassword /\ Controllers[4] = FetchUserDeliveries
  /\ Controllers[5] = CreateOrder /\ Controllers[6] = FetchOrdersNearby
  /\ 6 \in DOMAIN Controllers
  <1> DEFINE first == UserModule \o OrderModule
  <1>1. /\ UserModule \in Seq(AllControllers) /\ OrderModule \in Seq(AllControllers)
        /\ CourierModule \in Seq(AllControllers) /\ RecipientModule \in Seq(AllControllers)
        /\ AttachmentModule \in Seq(AllControllers)
        /\ NotificationModule \in Seq(AllControllers)
    BY DEF AllControllers, UserModule, OrderModule, CourierModule, RecipientModule,
       AttachmentModule, NotificationModule
  <1>2. /\ Len(UserModule) = 4 /\ UserModule[1] = CreateUser /\ UserModule[2] = Authenticate
        /\ UserModule[3] = ChangeUserPassword /\ UserModule[4] = FetchUserDeliveries
    BY DEF UserModule
  <1>3. /\ Len(OrderModule) = 7 /\ OrderModule[1] = CreateOrder
        /\ OrderModule[2] = FetchOrdersNearby
    BY DEF OrderModule
  <1>4. /\ first \in Seq(AllControllers) /\ Len(first) = Len(UserModule) + Len(OrderModule)
        /\ \A i \in 1..(Len(UserModule) + Len(OrderModule)) : first[i] =
             IF i <= Len(UserModule) THEN UserModule[i] ELSE OrderModule[i - Len(UserModule)]
    BY <1>1, ConcatProperties
  <1>5. /\ first[1] = CreateUser /\ first[2] = Authenticate /\ first[3] = ChangeUserPassword
        /\ first[4] = FetchUserDeliveries /\ first[5] = CreateOrder
        /\ first[6] = FetchOrdersNearby /\ Len(first) = 11
    BY <1>2, <1>3, <1>4
  <1> HIDE DEF first
  <1>6. /\ Controllers \in Seq(AllControllers) /\ Len(Controllers) >= 6
        /\ \A i \in 1..6 : Controllers[i] = first[i]
    <2> DEFINE upto3 == first \o CourierModule
               upto4 == upto3 \o RecipientModule
               upto5 == upto4 \o AttachmentModule
               upto6 == upto5 \o NotificationModule
    <2>1. upto3 \in Seq(AllControllers) /\ Len(upto3) >= 6 /\ \A i \in 1..6 : upto3[i] = first[i]
      <3>1. Len(first) >= 6
        BY <1>5
      <3> QED
        BY <1>1, <1>4, <3>1, LongerBegins, Zenon
    <2> HIDE DEF upto3
    <2>2. upto4 \in Seq(AllControllers) /\ Len(upto4) >= 6 /\ \A i \in 1..6 : upto4[i] = first[i]
      <3>1. /\ upto4 \in Seq(AllControllers) /\ Len(upto4) >= 6
            /\ \A i \in 1..6 : upto4[i] = upto3[i]
        BY <1>1, LongerBegins, <2>1, Zenon
      <3> HIDE DEF upto4
      <3> QED
        BY <2>1, <3>1
    <2> HIDE DEF upto4
    <2>3. upto5 \in Seq(AllControllers) /\ Len(upto5) >= 6 /\ \A i \in 1..6 : upto5[i] = first[i]
      <3>1. /\ upto5 \in Seq(AllControllers) /\ Len(upto5) >= 6
            /\ \A i \in 1..6 : upto5[i] = upto4[i]
        BY <1>1, LongerBegins, <2>2, Zenon
      <3> HIDE DEF upto5
      <3> QED
        BY <2>2, <3>1
    <2> HIDE DEF upto5
    <2>4. upto6 \in Seq(AllControllers) /\ Len(upto6) >= 6 /\ \A i \in 1..6 : upto6[i] = first[i]
      <3>1. /\ upto6 \in Seq(AllControllers) /\ Len(upto6) >= 6
            /\ \A i \in 1..6 : upto6[i] = upto5[i]
        BY <1>1, LongerBegins, <2>3, Zenon
      <3> HIDE DEF upto6
      <3> QED
        BY <2>3, <3>1
    <2>5. Controllers = upto6
      BY DEF Controllers, upto3, upto4, upto5, first
    <2> QED
      BY <2>4, <2>5
  <1>7. DOMAIN Controllers = 1..Len(Controllers) /\ Len(Controllers) \in Nat
    BY <1>6
  <1> QED
    BY <1>5, <1>6, <1>7

LEMMA NamesDiffer ==
  GetOrder \notin {CreateUser, Authenticate, ChangeUserPassword, FetchUserDeliveries,
                   CreateOrder, FetchOrdersNearby}
  <1>1. GetOrder.name = "GetOrder"
    BY DEF GetOrder, Controller, OfOrder, ForAdmins
  <1>2. /\ CreateUser.name = "CreateUser" /\ Authenticate.name = "Authenticate"
        /\ ChangeUserPassword.name = "ChangeUserPassword"
        /\ FetchUserDeliveries.name = "FetchUserDeliveries"
    BY DEF CreateUser, Authenticate, ChangeUserPassword, FetchUserDeliveries, Controller
  <1>3. CreateOrder.name = "CreateOrder" /\ FetchOrdersNearby.name = "FetchOrdersNearby"
    BY DEF CreateOrder, FetchOrdersNearby, Controller, OfUser, ForAdmins
  <1> QED
    BY <1>1, <1>2, <1>3

\* So the first route that takes a request is the one it is meant for.
LEMMA RoutesToOwn ==
  ASSUME NEW e \in Endpoints, NEW i \in DOMAIN Controllers, Takes(Controllers[i], e),
         \A j \in 1..(i - 1) : ~Takes(Controllers[j], e)
  PROVE  Controllers[i] = e
  <1> DEFINE h == Controllers[i]
  <1>1. h \in AllControllers /\ e \in AllControllers
    BY EndpointsAreControllers DEF Endpoints
  <1>2. Route(h) = Route(e)
    BY <1>1, PathsBegin DEF Takes, Route
  <1>3. Takes(e, e)
    BY DEF Takes
  <1>4. PICK k \in DOMAIN Controllers : e = Controllers[k]
    BY DEF Endpoints
  <1>5. i <= k
    BY <1>3, <1>4, FirstRoutes
  <1>6. ASSUME h = GetOrder, e = FetchOrdersNearby PROVE FALSE
    <2>1. i > 6
      BY <1>6, FirstRoutes, NamesDiffer
    <2> QED
      BY <2>1, <1>6, <1>3, FirstRoutes
  <1>7. ASSUME h = FetchOrdersNearby, e = GetOrder PROVE FALSE
    BY <1>7 DEF Takes, FetchOrdersNearby, GetOrder, Controller, OfOrder, ForAdmins, Param
  <1> QED
    BY <1>1, <1>2, <1>6, <1>7, RoutesDiffer

-----------------------------------------------------------------------------

(* The invariant, request by request *)

\* A request that has arrived has a call and a controller.
HasCall(r) == pc[r] # "idle" => call[r] \in CallType /\ handler[r] \in Endpoints

\* Past the guard of a controller that is not public the caller is known.
CallerKnown(r) ==
  pc[r] \in {"auth", "find", "findCourier", "act"} /\ ~handler[r].public =>
    call[r].by \in UserIds

\* Only controllers for admins check the role.
AuthIsForAdmins(r) == pc[r] = "auth" => handler[r].admin

\* Past the check of the role the caller was an admin.
AdminSeen(r) ==
  pc[r] \in {"find", "findCourier", "act"} /\ handler[r].admin =>
    <<"admin", call[r].by>> \in seen[r]

\* Past the lookup of the user, the user was there.
UserSeen(r) ==
  pc[r] \in {"findCourier", "act"} /\ handler[r].finds =>
    <<"present", call[r].user>> \in seen[r]

\* The courier is looked up only when an order names one.
CourierNamed(r) == pc[r] = "findCourier" => call[r].courier # NoUser

\* It was routed to the controller it is meant for.
Routed(r) == pc[r] # "idle" => handler[r] = call[r].to

\* A lookup is made only by a controller that makes one.
LooksUp(r) ==
  /\ pc[r] = "find" => handler[r].finds
  /\ pc[r] = "findCourier" => handler[r].does = "addOrder"

\* What a request to a controller may be answered with.
Given(e) ==
  e.rules \cup {"ok"}
  \cup {a \in {"noToken"} : ~e.public}
  \cup {a \in {"malformed"} : e.checked}
  \cup {a \in {"adminOnly"} : e.admin}
  \cup {a \in {Missing(e)} : e.finds}
  \cup {a \in {"notFound"} : e.does = "addOrder"}
  \cup {a \in {"databaseError"} : e.does \notin {"read", "signToken"}}

GivenByIts(r) == pc[r] = "done" => result[r] \in Given(handler[r])

ActedAsAdmin(r) ==
  /\ pc[r] = "done" /\ handler[r].admin
  /\ result[r] \notin {"noToken", "malformed", "adminOnly"}
  => <<"admin", call[r].by>> \in seen[r]

AnswerMatches(r) ==
  pc[r] = "done" /\ handler[r].finds =>
    /\ result[r] = "ok" => <<"present", call[r].user>> \in seen[r]
    /\ result[r] = "ok" /\ handler[r].does = "addOrder" /\ call[r].courier # NoUser =>
         <<"present", call[r].courier>> \in seen[r]
    /\ result[r] = "notFound" =>
         <<"absent", call[r].user>> \in seen[r] \/ <<"absent", call[r].courier>> \in seen[r]

Claims(r) ==
  /\ HasCall(r) /\ CallerKnown(r) /\ AuthIsForAdmins(r) /\ AdminSeen(r) /\ UserSeen(r)
  /\ CourierNamed(r) /\ ActedAsAdmin(r) /\ AnswerMatches(r)
  /\ Routed(r) /\ LooksUp(r) /\ GivenByIts(r)

HttpInv == HttpTypeOK /\ \A r \in Requests : Claims(r)

LEMMA InitHolds == HttpInit => HttpInv
  BY InitialAssumption DEF HttpInit, HttpInv, HttpTypeOK, Claims, HasCall, CallerKnown,
     AuthIsForAdmins, AdminSeen, UserSeen, CourierNamed, ActedAsAdmin, AnswerMatches, Results,
     Routed, LooksUp, GivenByIts

-----------------------------------------------------------------------------

(* What a step sees *)

LEMMA FactsTyped == \A c : Facts(c) \subseteq {"admin", "absent", "present"} \X UserIds
  BY DEF Facts

LEMMA AdminFact ==
  ASSUME HttpTypeOK, NEW c \in CallType, c.by \in UserIds, ~Unauthorized(c.by)
  PROVE  <<"admin", c.by>> \in Facts(c)
  BY DEF Facts, Unauthorized

LEMMA PresentFact ==
  ASSUME NEW c \in CallType, NEW u \in UserIds, u \in {c.user, c.courier}, users[u] # NoUser
  PROVE  <<"present", u>> \in Facts(c)
  BY DEF Facts

LEMMA AbsentFact ==
  ASSUME NEW c \in CallType, NEW u \in UserIds, u \in {c.user, c.courier}, users[u] = NoUser
  PROVE  <<"absent", u>> \in Facts(c)
  BY DEF Facts

\* The history of a running request grows by what holds before the step, and
\* that of any other stays as it is.
LEMMA LookGrows ==
  ASSUME HttpInv, Look
  PROVE  /\ seen' \in [Requests -> SUBSET ({"admin", "absent", "present"} \X UserIds)]
         /\ \A r \in Requests : seen[r] \subseteq seen'[r]
         /\ \A r \in Requests : Running(r) => Facts(call[r]) \subseteq seen'[r]
  BY FactsTyped DEF HttpInv, HttpTypeOK, Look

\* A step of request r leaves the others alone.
LEMMA OthersKeepTheirs ==
  ASSUME HttpInv, Look, HttpTypeOK', NEW r \in Requests, Claims(r)',
         \A q \in Requests \ {r} : /\ pc'[q] = pc[q] /\ result'[q] = result[q]
                                   /\ call'[q] = call[q] /\ handler'[q] = handler[q]
  PROVE  HttpInv'
  <1>1. ASSUME NEW q \in Requests \ {r} PROVE Claims(q)'
    BY <1>1, LookGrows DEF HttpInv, Claims, HasCall, CallerKnown, AuthIsForAdmins, AdminSeen,
       UserSeen, CourierNamed, ActedAsAdmin, AnswerMatches, Routed, LooksUp, GivenByIts
  <1> QED
    BY <1>1 DEF HttpInv

\* What every step after the first has in common: request r goes to another
\* place or is answered, with its call and its controller.
Moves(r) ==
  \/ \E place \in {"auth", "find", "findCourier", "act"} : Goto(r, place)
  \/ \E answer \in Results : Answer(r, answer)

LEMMA MoveKeepsTypes ==
  ASSUME HttpInv, Look, NEW r \in Requests, Moves(r), UNCHANGED <<call, handler>>,
         users' \in [UserIds -> Rows \cup {NoUser}], tokens' \subseteq UserIds
  PROVE  HttpTypeOK'
  BY LookGrows DEF HttpInv, HttpTypeOK, Moves, Goto, Answer

\* So it is enough to show what request r may claim at its new place.
LEMMA MoveKeepsInv ==
  ASSUME HttpInv, Look, NEW r \in Requests, Moves(r), UNCHANGED <<call, handler>>,
         users' \in [UserIds -> Rows \cup {NoUser}], tokens' \subseteq UserIds,
         Claims(r)'
  PROVE  HttpInv'
  <1>1. HttpTypeOK'
    BY MoveKeepsTypes
  <1>2. \A q \in Requests \ {r} : /\ pc'[q] = pc[q] /\ result'[q] = result[q]
                                  /\ call'[q] = call[q] /\ handler'[q] = handler[q]
    BY DEF HttpInv, HttpTypeOK, Moves, Goto, Answer
  <1> QED
    BY <1>1, <1>2, OthersKeepTheirs

\* The claims of a running request, as facts about its call and controller.
LEMMA RunningParts ==
  ASSUME HttpInv, NEW r \in Requests, Running(r)
  PROVE  /\ call[r] \in CallType /\ handler[r] \in Endpoints /\ Regular(handler[r])
         /\ pc[r] \in {"guard", "auth", "find", "findCourier", "act"}
         /\ Claims(r)
  BY EndpointsRegular DEF HttpInv, HttpTypeOK, Running, Claims, HasCall

-----------------------------------------------------------------------------

(* Steps *)

LEMMA ReceiveKeeps ==
  ASSUME HttpInv, Look, NEW r \in Requests, Receive(r)
  PROVE  HttpInv'
  <1>1. PICK c \in Calls, i \in DOMAIN Controllers :
          /\ call' = [call EXCEPT ![r] = c]
          /\ Takes(Controllers[i], c.to)
          /\ \A j \in 1..(i - 1) : ~Takes(Controllers[j], c.to)
          /\ handler' = [handler EXCEPT ![r] = Controllers[i]]
          /\ pc[r] = "idle" /\ Goto(r, "guard") /\ UNCHANGED <<users, tokens>>
    BY DEF Receive
  <1>2. c \in CallType /\ Controllers[i] \in Endpoints
    BY CallsAssumption DEF Endpoints
  <1> Controllers[i] = c.to
    BY <1>1, <1>2, RoutesToOwn DEF CallType
  <1>3. HttpTypeOK'
    BY <1>1, <1>2, LookGrows DEF HttpInv, HttpTypeOK, Goto
  <1>4. Claims(r)'
    BY <1>1, <1>2 DEF HttpInv, HttpTypeOK, Goto, Claims, HasCall, CallerKnown, AuthIsForAdmins,
       AdminSeen, UserSeen, CourierNamed, ActedAsAdmin, AnswerMatches, Routed, LooksUp,
       GivenByIts
  <1> QED
    BY <1>1, <1>3, <1>4, OthersKeepTheirs DEF HttpInv, HttpTypeOK, Goto

LEMMA AdmitKeeps ==
  ASSUME HttpInv, Look, NEW r \in Requests, Admit(r)
  PROVE  HttpInv'
  <1>1. Running(r)
    BY DEF Admit, Running
  <1>2. Moves(r)
    BY DEF Admit, Moves, AfterRole, Results
  <1>3. Claims(r)'
    <2> USE <1>1, RunningParts DEF HttpInv, HttpTypeOK, Admit, Goto, Answer
    <2>1. HasCall(r)' /\ CourierNamed(r)'
      BY DEF HasCall, CourierNamed, AfterRole
    <2>2. CallerKnown(r)'
      BY DEF CallerKnown, CallType
    <2>3. AuthIsForAdmins(r)' /\ AdminSeen(r)' /\ UserSeen(r)'
      BY DEF AuthIsForAdmins, AdminSeen, UserSeen, AfterRole
    <2>4. ActedAsAdmin(r)' /\ AnswerMatches(r)'
      BY DEF ActedAsAdmin, AnswerMatches, AfterRole
    <2>5. Routed(r)' /\ LooksUp(r)' /\ GivenByIts(r)'
      BY DEF Claims, Routed, LooksUp, GivenByIts, Given, AfterRole
    <2> QED
      BY <2>1, <2>2, <2>3, <2>4, <2>5 DEF Claims
  <1> QED
    BY <1>2, <1>3, MoveKeepsInv DEF Admit, HttpInv, HttpTypeOK

LEMMA VerifyRoleKeeps ==
  ASSUME HttpInv, Look, NEW r \in Requests, VerifyRole(r)
  PROVE  HttpInv'
  <1>1. Running(r)
    BY DEF VerifyRole, Running
  <1>2. Moves(r)
    BY DEF VerifyRole, Moves, AfterRole, Results, Errors
  <1>3. call[r].by \in UserIds
    BY <1>1, RunningParts DEF VerifyRole, Claims, CallerKnown, AuthIsForAdmins, Regular
  <1>4. ~Unauthorized(call[r].by) => <<"admin", call[r].by>> \in seen'[r]
    BY <1>1, <1>3, AdminFact, LookGrows, RunningParts DEF HttpInv
  <1>5. Claims(r)'
    <2> USE <1>1, RunningParts DEF HttpInv, HttpTypeOK, VerifyRole, Goto, Answer
    <2>1. HasCall(r)' /\ CourierNamed(r)' /\ CallerKnown(r)' /\ AuthIsForAdmins(r)'
      BY <1>3 DEF HasCall, CourierNamed, CallerKnown, AuthIsForAdmins, AfterRole
    <2>2. AdminSeen(r)' /\ UserSeen(r)'
      BY <1>4 DEF AdminSeen, UserSeen, AfterRole
    <2>3. ActedAsAdmin(r)' /\ AnswerMatches(r)'
      BY DEF ActedAsAdmin, AnswerMatches, AfterRole
    <2>4. Routed(r)' /\ LooksUp(r)' /\ GivenByIts(r)'
      BY DEF Claims, AuthIsForAdmins, Routed, LooksUp, GivenByIts, Given, AfterRole
    <2> QED
      BY <2>1, <2>2, <2>3, <2>4 DEF Claims
  <1> QED
    BY <1>2, <1>5, MoveKeepsInv DEF VerifyRole, HttpInv, HttpTypeOK

LEMMA FindUserKeeps ==
  ASSUME HttpInv, Look, NEW r \in Requests, FindUser(r)
  PROVE  HttpInv'
  <1>1. Running(r)
    BY DEF FindUser, Running
  <1>2. Moves(r)
    BY DEF FindUser, Moves, AfterUser, Missing, Results, Errors
  <1>3. call[r].user \in UserIds
    BY <1>1, RunningParts DEF CallType
  <1>4. /\ users[call[r].user] = NoUser => <<"absent", call[r].user>> \in seen'[r]
        /\ users[call[r].user] # NoUser => <<"present", call[r].user>> \in seen'[r]
    BY <1>1, <1>3, PresentFact, AbsentFact, LookGrows, RunningParts
  <1>5. handler[r].admin => <<"admin", call[r].by>> \in seen'[r]
    BY <1>1, RunningParts, LookGrows DEF FindUser, Claims, AdminSeen
  <1>6. Claims(r)'
    <2> USE <1>1, RunningParts DEF HttpInv, HttpTypeOK, FindUser, Goto, Answer
    <2>1. HasCall(r)' /\ CallerKnown(r)' /\ AuthIsForAdmins(r)'
      BY DEF HasCall, CallerKnown, AuthIsForAdmins, AfterUser, Claims
    <2>2. AdminSeen(r)' /\ UserSeen(r)' /\ CourierNamed(r)'
      BY <1>4, <1>5 DEF AdminSeen, UserSeen, CourierNamed, AfterUser
    <2>3. ActedAsAdmin(r)' /\ AnswerMatches(r)'
      BY <1>4, <1>5 DEF ActedAsAdmin, AnswerMatches, AfterUser, Missing
    <2>4. Routed(r)' /\ LooksUp(r)' /\ GivenByIts(r)'
      BY DEF Claims, Routed, LooksUp, GivenByIts, Given, AfterUser
    <2> QED
      BY <2>1, <2>2, <2>3, <2>4 DEF Claims
  <1> QED
    BY <1>2, <1>6, MoveKeepsInv DEF FindUser, HttpInv, HttpTypeOK

LEMMA FindCourierKeeps ==
  ASSUME HttpInv, Look, NEW r \in Requests, FindCourier(r)
  PROVE  HttpInv'
  <1>1. Running(r)
    BY DEF FindCourier, Running
  <1>2. Moves(r)
    BY DEF FindCourier, Moves, Results, Errors
  <1>3. call[r].courier \in UserIds
    BY <1>1, RunningParts DEF FindCourier, Claims, CourierNamed, CallType
  <1>4. users[call[r].courier] = NoUser => <<"absent", call[r].courier>> \in seen'[r]
    BY <1>1, <1>3, AbsentFact, LookGrows, RunningParts
  <1>5. /\ handler[r].admin => <<"admin", call[r].by>> \in seen'[r]
        /\ handler[r].finds => <<"present", call[r].user>> \in seen'[r]
    BY <1>1, RunningParts, LookGrows DEF FindCourier, Claims, AdminSeen, UserSeen
  <1>6. Claims(r)'
    <2> USE <1>1, RunningParts DEF HttpInv, HttpTypeOK, FindCourier, Goto, Answer
    <2>1. HasCall(r)' /\ CallerKnown(r)' /\ AuthIsForAdmins(r)'
      BY DEF HasCall, CallerKnown, AuthIsForAdmins, Claims
    <2>2. AdminSeen(r)' /\ UserSeen(r)' /\ CourierNamed(r)'
      BY <1>5 DEF AdminSeen, UserSeen, CourierNamed
    <2>3. ActedAsAdmin(r)' /\ AnswerMatches(r)'
      BY <1>4, <1>5 DEF ActedAsAdmin, AnswerMatches
    <2>4. Routed(r)' /\ LooksUp(r)' /\ GivenByIts(r)'
      BY DEF Claims, Routed, LooksUp, GivenByIts, Given
    <2> QED
      BY <2>1, <2>2, <2>3, <2>4 DEF Claims
  <1> QED
    BY <1>2, <1>6, MoveKeepsInv DEF FindCourier, HttpInv, HttpTypeOK

\* What the last step of a use case needs to show.
LEMMA AnswerKeeps ==
  ASSUME HttpInv, Look, NEW r \in Requests, NEW answer \in Results, pc[r] = "act",
         Answer(r, answer), UNCHANGED <<call, handler>>,
         users' \in [UserIds -> Rows \cup {NoUser}], tokens' \subseteq UserIds,
         answer = "notFound" => ~handler[r].finds, answer \in Given(handler[r]),
         answer = "ok" /\ handler[r].does = "addOrder" /\ call[r].courier # NoUser =>
           users[call[r].courier] # NoUser
  PROVE  HttpInv'
  <1>1. Running(r)
    BY DEF Running
  <1>2. Moves(r)
    BY DEF Moves
  <1>3. /\ handler[r].admin => <<"admin", call[r].by>> \in seen'[r]
        /\ handler[r].finds => <<"present", call[r].user>> \in seen'[r]
    BY <1>1, RunningParts, LookGrows DEF Claims, AdminSeen, UserSeen
  <1>4. call[r].courier # NoUser /\ users[call[r].courier] # NoUser =>
          <<"present", call[r].courier>> \in seen'[r]
    BY <1>1, PresentFact, LookGrows, RunningParts DEF CallType
  <1>5. Claims(r)'
    <2> USE <1>1, RunningParts DEF HttpInv, HttpTypeOK, Answer
    <2>1. /\ HasCall(r)' /\ CallerKnown(r)' /\ AuthIsForAdmins(r)' /\ AdminSeen(r)'
          /\ UserSeen(r)' /\ CourierNamed(r)'
      BY DEF HasCall, CallerKnown, AuthIsForAdmins, AdminSeen, UserSeen, CourierNamed
    <2>2. ActedAsAdmin(r)' /\ AnswerMatches(r)'
      BY <1>3, <1>4 DEF ActedAsAdmin, AnswerMatches
    <2>3. Routed(r)' /\ LooksUp(r)' /\ GivenByIts(r)'
      BY DEF Claims, Routed, LooksUp, GivenByIts
    <2> QED
      BY <2>1, <2>2, <2>3 DEF Claims
  <1> QED
    BY <1>2, <1>5, MoveKeepsInv

LEMMA RefuseKeeps ==
  ASSUME HttpInv, Look, NEW r \in Requests, Refuse(r)
  PROVE  HttpInv'
  <1>1. PICK error \in handler[r].rules : Answer(r, error)
    BY DEF Refuse
  <1>2. Regular(handler[r])
    BY RunningParts DEF Refuse, Running
  <1>3. /\ error \in Results /\ error # "ok"
        /\ error = "notFound" => ~handler[r].finds
        /\ error \in Given(handler[r])
    BY <1>2 DEF Regular, Results, Errors, Given
  <1> QED
    BY <1>1, <1>3, AnswerKeeps DEF Refuse, HttpInv, HttpTypeOK

LEMMA QuietActsKeep ==
  ASSUME HttpInv, Look, NEW r \in Requests,
         Read(r) \/ WriteRow(r) \/ AddOrder(r) \/ CommandFails(r)
  PROVE  HttpInv'
  <1> USE DEF HttpInv, HttpTypeOK, Acts, Results, Given
  <1>1. CASE Read(r)
    BY <1>1, AnswerKeeps DEF Read
  <1>2. CASE WriteRow(r)
    BY <1>2, AnswerKeeps DEF WriteRow
  <1>3. CASE AddOrder(r)
    BY <1>3, AnswerKeeps DEF AddOrder
  <1>4. CASE CommandFails(r)
    BY <1>4, AnswerKeeps DEF CommandFails
  <1> QED
    BY <1>1, <1>2, <1>3, <1>4

LEMMA UserActsKeep ==
  ASSUME HttpInv, Look, NEW r \in Requests,
         SignToken(r) \/ AddUser(r) \/ WriteUser(r) \/ RemoveUser(r)
  PROVE  HttpInv'
  <1>1. pc[r] = "act" /\ Answer(r, "ok") /\ UNCHANGED <<call, handler>>
    BY DEF SignToken, AddUser, WriteUser, RemoveUser, Acts
  <1>2. /\ call[r].user \in UserIds /\ call[r].roles \subseteq Roles
        /\ handler[r].gives \subseteq Roles
    BY <1>1, RunningParts DEF Running, CallType, Regular
  <1>3. handler[r].does # "addOrder"
    BY DEF SignToken, AddUser, WriteUser, RemoveUser, Acts
  <1>4. users' \in [UserIds -> Rows \cup {NoUser}]
    <2> USE <1>2 DEF HttpInv, HttpTypeOK, Rows
    <2>1. CASE SignToken(r)
      BY <2>1 DEF SignToken
    <2>2. CASE AddUser(r)
      BY <2>2 DEF AddUser
    <2>3. CASE WriteUser(r)
      BY <2>3 DEF WriteUser
    <2>4. CASE RemoveUser(r)
      BY <2>4 DEF RemoveUser
    <2> QED
      BY <2>1, <2>2, <2>3, <2>4
  <1>5. tokens' \subseteq UserIds
    BY <1>2 DEF HttpInv, HttpTypeOK, SignToken, AddUser, WriteUser, RemoveUser
  <1> QED
    BY <1>1, <1>3, <1>4, <1>5, AnswerKeeps DEF Results, Given

LEMMA StepKeeps == HttpInv /\ [HttpNext]_httpVars => HttpInv'
  <1> SUFFICES ASSUME HttpInv, [HttpNext]_httpVars PROVE HttpInv'
    OBVIOUS
  <1>1. CASE HttpNext
    <2>1. PICK r \in Requests : Receive(r) \/ Step(r)
      BY <1>1 DEF HttpNext
    <2> QED
      BY <1>1, <2>1, ReceiveKeeps, AdmitKeeps, VerifyRoleKeeps, FindUserKeeps, FindCourierKeeps,
         RefuseKeeps, QuietActsKeep, UserActsKeep DEF HttpNext, Step
  <1>2. CASE UNCHANGED httpVars
    BY <1>2 DEF httpVars, HttpInv, HttpTypeOK, Claims, HasCall, CallerKnown, AuthIsForAdmins,
       AdminSeen, UserSeen, CourierNamed, ActedAsAdmin, AnswerMatches, Routed, LooksUp,
       GivenByIts
  <1> QED
    BY <1>1, <1>2

LEMMA InvHolds == HttpSpec => []HttpInv
  BY InitHolds, StepKeeps, PTL DEF HttpSpec

-----------------------------------------------------------------------------

(* Answers and the documentation *)

\* The status a controller answers an error with.
StatusOf(e, a) ==
  CASE a = "ok" -> e.success
    [] a = "noToken" -> 401
    [] a = "databaseError" -> 500
    [] a \in e.switch -> Exception[a]
    [] OTHER -> 400

\* Every answer of controller e is documented, or one of those known not to be.
Documented(e) ==
  \A a \in Given(e) :
    \/ StatusOf(e, a) \in e.documents \cup {500}
    \/ <<e.name, StatusOf(e, a)>> \in Undocumented

LEMMA UsersDocumented ==
  /\ Documented(CreateUser)
  /\ Documented(Authenticate)
  /\ Documented(ChangeUserPassword)
  /\ Documented(FetchUserDeliveries)
  <1> USE DEF Documented, Given, StatusOf, Missing, Exception, Undocumented, Controller
  <1>1. Documented(CreateUser)
    BY DEF CreateUser
  <1>2. Documented(Authenticate)
    BY DEF Authenticate
  <1>3. Documented(ChangeUserPassword)
    BY DEF ChangeUserPassword
  <1>4. Documented(FetchUserDeliveries)
    BY DEF FetchUserDeliveries
  <1> QED
    BY <1>1, <1>2, <1>3, <1>4

LEMMA OrdersDocumented ==
  /\ Documented(CreateOrder)
  /\ Documented(FetchOrdersNearby)
  /\ Documented(GetOrders)
  /\ Documented(GetOrder)
  /\ Documented(EditOrder)
  /\ Documented(DeleteOrder)
  /\ Documented(UpdateOrderStatus)
  <1> USE DEF Documented, Given, StatusOf, Missing, Exception, Undocumented, Controller, ForAdmins, OfOrder, OfUser
  <1>1. Documented(CreateOrder)
    BY DEF CreateOrder
  <1>2. Documented(FetchOrdersNearby)
    BY DEF FetchOrdersNearby
  <1>3. Documented(GetOrders)
    BY DEF GetOrders
  <1>4. Documented(GetOrder)
    BY DEF GetOrder
  <1>5. Documented(EditOrder)
    BY DEF EditOrder
  <1>6. Documented(DeleteOrder)
    BY DEF DeleteOrder
  <1>7. Documented(UpdateOrderStatus)
    BY DEF UpdateOrderStatus
  <1> QED
    BY <1>1, <1>2, <1>3, <1>4, <1>5, <1>6, <1>7

LEMMA CouriersDocumented ==
  /\ Documented(RegisterCourier)
  /\ Documented(GetCouriers)
  /\ Documented(GetCourier)
  /\ Documented(EditCourier)
  /\ Documented(DeleteCourier)
  <1> USE DEF Documented, Given, StatusOf, Missing, Exception, Undocumented, Controller, ForAdmins, OfUser
  <1>1. Documented(RegisterCourier)
    BY DEF RegisterCourier
  <1>2. Documented(GetCouriers)
    BY DEF GetCouriers
  <1>3. Documented(GetCourier)
    BY DEF GetCourier
  <1>4. Documented(EditCourier)
    BY DEF EditCourier
  <1>5. Documented(DeleteCourier)
    BY DEF DeleteCourier
  <1> QED
    BY <1>1, <1>2, <1>3, <1>4, <1>5

LEMMA RecipientsDocumented ==
  /\ Documented(RegisterRecipient)
  /\ Documented(GetRecipients)
  /\ Documented(GetRecipient)
  /\ Documented(EditRecipient)
  /\ Documented(DeleteRecipient)
  <1> USE DEF Documented, Given, StatusOf, Missing, Exception, Undocumented, Controller, ForAdmins, OfUser
  <1>1. Documented(RegisterRecipient)
    BY DEF RegisterRecipient
  <1>2. Documented(GetRecipients)
    BY DEF GetRecipients
  <1>3. Documented(GetRecipient)
    BY DEF GetRecipient
  <1>4. Documented(EditRecipient)
    BY DEF EditRecipient
  <1>5. Documented(DeleteRecipient)
    BY DEF DeleteRecipient
  <1> QED
    BY <1>1, <1>2, <1>3, <1>4, <1>5

LEMMA OthersDocumented ==
  /\ Documented(UploadAttachment)
  /\ Documented(ReadNotification)
  <1> USE DEF Documented, Given, StatusOf, Missing, Exception, Undocumented, Controller
  <1>1. Documented(UploadAttachment)
    BY DEF UploadAttachment
  <1>2. Documented(ReadNotification)
    BY DEF ReadNotification
  <1> QED
    BY <1>1, <1>2

LEMMA EndpointsDocumented == \A e \in Endpoints : Documented(e)
  <1>1. \A e \in AllControllers : Documented(e)
    BY UsersDocumented, OrdersDocumented, CouriersDocumented, RecipientsDocumented,
       OthersDocumented DEF AllControllers
  <1> QED
    BY <1>1, EndpointsAreControllers

-----------------------------------------------------------------------------

(* Results *)

\* Types, for every table of users, set of calls and number of requests.
THEOREM HttpTypes == HttpSpec => []HttpTypeOK
  <1>1. HttpInv => HttpTypeOK
    BY DEF HttpInv
  <1> QED
    BY <1>1, InvHolds, PTL

\* Past the check of verifyRole there is a moment of the request at which its
\* caller was an admin, whatever users come and go with their tokens left.
THEOREM OnlyAdminsGetPast == HttpSpec => []OnlyAdminsAct
  <1>1. HttpInv => OnlyAdminsAct
    BY DEF HttpInv, Claims, ActedAsAdmin, OnlyAdminsAct
  <1> QED
    BY <1>1, InvHolds, PTL

\* Success and "not found" were true of the users at some moment of the
\* request.
THEOREM AnswersWereTrue == HttpSpec => []AnswersMatchRows
  <1>1. HttpInv => AnswersMatchRows
    BY DEF HttpInv, Claims, AnswerMatches, AnswersMatchRows
  <1> QED
    BY <1>1, InvHolds, PTL

\* A request reaches the controller it is meant for, though GET /orders/:id
\* takes GET /orders/nearby too, and is answered with a status which that
\* controller documents, by one of the six of Undocumented, or by the 500 of a
\* program that fails.
THEOREM StatusesDocumented == HttpSpec => []AnswersAreDocumented
  <1>1. HttpInv => AnswersAreDocumented
    <2> SUFFICES ASSUME HttpInv, NEW r \in Requests, pc[r] = "done"
                 PROVE  \/ Status(r) \in call[r].to.documents \cup {500}
                        \/ <<call[r].to.name, Status(r)>> \in Undocumented
      BY DEF AnswersAreDocumented
    <2>1. handler[r] \in Endpoints /\ handler[r] = call[r].to /\ result[r] \in Given(handler[r])
      BY DEF HttpInv, Claims, HasCall, Routed, GivenByIts
    <2>2. Status(r) = StatusOf(handler[r], result[r])
      BY DEF Status, StatusOf
    <2> QED
      BY <2>1, <2>2, EndpointsDocumented DEF Documented
  <1> QED
    BY <1>1, InvHolds, PTL

=============================================================================
