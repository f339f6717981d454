-------------------------------- MODULE Http --------------------------------
(***************************************************************************)
(* The HTTP layer: a request is routed to a controller, passes the JWT     *)
(* guard and the validation pipes, and the use case of the controller      *)
(* begins with the check of the caller's role and the lookup of the user   *)
(* it is about.  What a use case refuses for reasons of its own (rules)    *)
(* and what it writes besides users is in the other modules; here it is a  *)
(* choice.  An answer is kept as the error it comes from: Status turns it  *)
(* into the number the client sees.                                        *)
(***************************************************************************)
EXTENDS Integers, Sequences

CONSTANTS
  Requests,     \* HTTP requests
  UserIds,      \* ids of users
  Calls,        \* the calls that may arrive
  InitialUsers, \* the row of each user at the start, or NoUser
  InitialTokens,\* users who hold a token at the start
  NoUser,       \* no row; no user named
  NoToken,      \* a request without a token the guard accepts
  NoCall        \* a request that has not arrived

Roles == {"ADMIN", "COURIER", "RECIPIENT"}

\* A user, as far as the role check sees it.
Rows == [roles : SUBSET Roles]

-----------------------------------------------------------------------------

(* Controllers *)

\* A parameter of a path.
Param == ":id"

\* A controller: whether it is public, has validation pipes, begins with
\* verifyRole, and looks up the user of the path (or of the CPF in the body);
\* what it writes and the roles that gives; the errors its use case returns by
\* rules modelled elsewhere, those its switch tells apart from the default
\* (400), and the statuses its ApiResponse decorators name.
Controller(name, method, path, success, documents) ==
  [name |-> name, method |-> method, path |-> path, success |-> success,
   documents |-> documents, public |-> FALSE, checked |-> FALSE, admin |-> FALSE,
   finds |-> FALSE, does |-> "read", gives |-> {}, rules |-> {}, switch |-> {}]

\* A controller whose use case begins with verifyRole.
ForAdmins(controller) == [controller EXCEPT !.admin = TRUE, !.switch = {"adminOnly"}]

\* One that also looks up a row by the id of its path, an order or a user.
OfOrder(controller) ==
  [controller EXCEPT !.rules = {"notFound"}, !.switch = {"adminOnly", "notFound"}]
OfUser(controller) ==
  [controller EXCEPT !.finds = TRUE, !.switch = {"adminOnly", "notFound"}]

CreateUser ==
  [Controller("CreateUser", "POST", <<"users">>, 201, {201, 400, 409}) EXCEPT
     !.public = TRUE, !.checked = TRUE, !.does = "addUser",
     !.rules = {"alreadyExists", "invalidCpf"}, !.switch = {"alreadyExists"}]

Authenticate ==
  [Controller("Authenticate", "POST", <<"sessions">>, 201, {201, 400, 401}) EXCEPT
     !.public = TRUE, !.checked = TRUE, !.finds = TRUE, !.does = "signToken",
     !.rules = {"wrongCredentials"}, !.switch = {"wrongCredentials"}]

\* The switch answers UnauthorizedAdminOnlyError with 400.
ChangeUserPassword ==
  [Controller("ChangeUserPassword", "POST", <<"users", Param, "password">>, 204,
              {400, 401, 404}) EXCEPT
     !.checked = TRUE, !.admin = TRUE, !.finds = TRUE, !.does = "writeUser",
     !.switch = {"notFound"}]

\* Its use case asks for no role.
FetchUserDeliveries ==
  [Controller("FetchUserDeliveries", "GET", <<"users", Param, "deliveries">>, 200,
              {201, 400, 401, 404}) EXCEPT
     !.checked = TRUE, !.finds = TRUE, !.switch = {"adminOnly", "notFound"}]

UserModule == <<CreateUser, Authenticate, ChangeUserPassword, FetchUserDeliveries>>

CreateOrder ==
  [OfUser(ForAdmins(Controller("CreateOrder", "POST", <<"orders", Param>>, 201,
                               {201, 400, 401, 404}))) EXCEPT
     !.checked = TRUE, !.does = "addOrder"]

\* Whatever the use case returns, the answer is a list.
FetchOrdersNearby ==
  [Controller("FetchOrdersNearby", "GET", <<"orders", "nearby">>, 200, {200}) EXCEPT
     !.checked = TRUE]

GetOrders ==
  [ForAdmins(Controller("GetOrders", "GET", <<"orders">>, 200, {200, 400, 401})) EXCEPT
     !.checked = TRUE]

GetOrder ==
  OfOrder(ForAdmins(Controller("GetOrder", "GET", <<"orders", Param>>, 200,
                               {200, 400, 401, 404})))

EditOrder ==
  [OfOrder(ForAdmins(Controller("EditOrder", "PUT", <<"orders", Param>>, 204,
                                {204, 400, 401, 404}))) EXCEPT
     !.checked = TRUE, !.does = "write"]

DeleteOrder ==
  [OfOrder(ForAdmins(Controller("DeleteOrder", "DELETE", <<"orders", Param>>, 204,
                                {204, 400, 401, 404}))) EXCEPT
     !.checked = TRUE, !.does = "write"]

UpdateOrderStatus ==
  [Controller("UpdateOrderStatus", "PUT", <<"orders", Param, "status">>, 204,
              {204, 400, 401, 404}) EXCEPT
     !.checked = TRUE, !.does = "write",
     !.rules = {"notFound", "notAllowed"}, !.switch = {"notFound", "notAllowed"}]

\* Routes in the order of their paths: :id takes /orders/nearby.
OrderModuleByPath ==
  <<GetOrders, CreateOrder, GetOrder, EditOrder, DeleteOrder, UpdateOrderStatus,
    FetchOrdersNearby>>

OrderModule ==
  <<CreateOrder, FetchOrdersNearby, GetOrders, GetOrder, EditOrder, DeleteOrder,
    UpdateOrderStatus>>

\* The refine of the CPF is one of the checks of a registration or an edit.
RegisterCourier ==
  [ForAdmins(Controller("RegisterCourier", "POST", <<"couriers">>, 201,
                        {201, 400, 401, 409})) EXCEPT
     !.checked = TRUE, !.does = "addUser", !.gives = {"COURIER"},
     !.rules = {"alreadyExists"}, !.switch = {"adminOnly", "alreadyExists"}]

GetCouriers ==
  [ForAdmins(Controller("GetCouriers", "GET", <<"couriers">>, 200, {200, 400, 401})) EXCEPT
     !.checked = TRUE]

GetCourier ==
  OfUser(ForAdmins(Controller("GetCourier", "GET", <<"couriers", Param>>, 200,
                              {200, 400, 401, 404})))

EditCourier ==
  [OfUser(ForAdmins(Controller("EditCourier", "PUT", <<"couriers", Param>>, 204,
                               {204, 400, 401, 404}))) EXCEPT
     !.checked = TRUE, !.does = "writeUser", !.gives = {"COURIER"}]

DeleteCourier ==
  [OfUser(ForAdmins(Controller("DeleteCourier", "DELETE", <<"couriers", Param>>, 204,
                               {204, 400, 401, 404}))) EXCEPT
     !.does = "removeUser"]

CourierModule ==
  <<RegisterCourier, GetCouriers, GetCourier, EditCourier, DeleteCourier>>

RegisterRecipient ==
  [ForAdmins(Controller("RegisterRecipient", "POST", <<"recipients">>, 201,
                        {201, 400, 401, 409})) EXCEPT
     !.checked = TRUE, !.does = "addUser", !.gives = {"RECIPIENT"},
     !.rules = {"alreadyExists"}, !.switch = {"adminOnly", "alreadyExists"}]

GetRecipients ==
  [ForAdmins(Controller("GetRecipients", "GET", <<"recipients">>, 200, {200, 400, 401})) EXCEPT
     !.checked = TRUE]

GetRecipient ==
  OfUser(ForAdmins(Controller("GetRecipient", "GET", <<"recipients", Param>>, 200,
                              {200, 400, 401, 404})))

EditRecipient ==
  [OfUser(ForAdmins(Controller("EditRecipient", "PUT", <<"recipients", Param>>, 204,
                               {204, 400, 401, 404}))) EXCEPT
     !.checked = TRUE, !.does = "writeUser", !.gives = {"RECIPIENT"}]

DeleteRecipient ==
  [OfUser(ForAdmins(Controller("DeleteRecipient", "DELETE", <<"recipients", Param>>, 204,
                               {204, 400, 401, 404}))) EXCEPT
     !.does = "removeUser"]

RecipientModule ==
  <<RegisterRecipient, GetRecipients, GetRecipient, EditRecipient, DeleteRecipient>>

UploadAttachment ==
  [Controller("UploadAttachment", "POST", <<"attachments">>, 201, {201, 400}) EXCEPT
     !.checked = TRUE, !.does = "write", !.rules = {"invalidType"}]

AttachmentModule == <<UploadAttachment>>

ReadNotification ==
  [Controller("ReadNotification", "PATCH", <<"notifications", Param, "read">>, 204,
              {204, 400}) EXCEPT
     !.does = "write", !.rules = {"notFound", "notAllowed"}]

NotificationModule == <<ReadNotification>>

\* The routes in the order in which they are tried.
Controllers ==
  UserModule \o OrderModule \o CourierModule \o RecipientModule \o AttachmentModule
    \o NotificationModule

Endpoints == {Controllers[i] : i \in DOMAIN Controllers}

-----------------------------------------------------------------------------

(* Requests *)

\* A call means the controller "to", whose method and path it has, with an id
\* for each parameter.  user is the id of the path, the user the CPF of a login
\* names, or the fresh id a creation will give; courier is the one an order
\* names in its body; valid says whether the pipes accept it.
CallType ==
  [to : Endpoints, by : UserIds \cup {NoToken}, user : UserIds,
   courier : UserIds \cup {NoUser}, valid : BOOLEAN, roles : SUBSET Roles]

ASSUME CallsAssumption == Calls \subseteq CallType
ASSUME NullsAssumption ==
  NoCall \notin CallType /\ NoToken \notin UserIds /\ NoUser \notin UserIds \cup Rows
ASSUME InitialAssumption ==
  /\ InitialUsers \in [UserIds -> Rows \cup {NoUser}]
  /\ InitialTokens \subseteq UserIds

VARIABLES
  users,    \* users and user_roles: the row of each id, or NoUser
  tokens,   \* users for whom a token was signed; tokens do not expire
  call,     \* what each request asks
  handler,  \* the controller it was routed to, or NoCall
  pc,       \* where it waits
  result,   \* how it was answered
  seen      \* history: what held of the users of a request while it ran

httpVars == <<users, tokens, call, handler, pc, result, seen>>

Errors == {"adminOnly", "notFound", "notAllowed", "wrongCredentials", "alreadyExists",
           "invalidCpf", "invalidType"}
Results == Errors \cup {"none", "ok", "noToken", "malformed", "databaseError"}

\* Types.
HttpTypeOK ==
  /\ users \in [UserIds -> Rows \cup {NoUser}]
  /\ tokens \subseteq UserIds
  /\ call \in [Requests -> CallType \cup {NoCall}]
  /\ handler \in [Requests -> Endpoints \cup {NoCall}]
  /\ pc \in [Requests -> {"idle", "guard", "auth", "find", "findCourier", "act", "done"}]
  /\ result \in [Requests -> Results]
  /\ seen \in [Requests -> SUBSET ({"admin", "absent", "present"} \X UserIds)]

HttpInit ==
  /\ users = InitialUsers
  /\ tokens = InitialTokens
  /\ call = [r \in Requests |-> NoCall]
  /\ handler = [r \in Requests |-> NoCall]
  /\ pc = [r \in Requests |-> "idle"]
  /\ result = [r \in Requests |-> "none"]
  /\ seen = [r \in Requests |-> {}]

Goto(r, place) == /\ pc' = [pc EXCEPT ![r] = place]
                  /\ UNCHANGED result

Answer(r, answer) == /\ pc' = [pc EXCEPT ![r] = "done"]
                     /\ result' = [result EXCEPT ![r] = answer]

\* The route of a controller takes the requests meant for e.
Takes(controller, e) ==
  /\ controller.method = e.method
  /\ Len(controller.path) = Len(e.path)
  /\ \A i \in DOMAIN e.path : controller.path[i] \in {Param, e.path[i]}

\* The first route that takes the request; every endpoint has one.
Receive(r) ==
  /\ pc[r] = "idle"
  /\ \E c \in Calls :
       /\ c.by = NoToken \/ c.by \in tokens
       /\ c.to.does = "addUser" =>
            /\ users[c.user] = NoUser
            /\ \A q \in Requests : call[q] # NoCall => call[q].user # c.user
       /\ call' = [call EXCEPT ![r] = c]
       /\ \E i \in DOMAIN Controllers :
            /\ Takes(Controllers[i], c.to)
            /\ \A j \in 1..(i - 1) : ~Takes(Controllers[j], c.to)
            /\ handler' = [handler EXCEPT ![r] = Controllers[i]]
  /\ Goto(r, "guard")
  /\ UNCHANGED <<users, tokens>>

AfterRole(controller) == IF controller.finds THEN "find" ELSE "act"

\* The guard, then the pipes.
Admit(r) ==
  /\ pc[r] = "guard"
  /\ IF ~handler[r].public /\ call[r].by = NoToken THEN Answer(r, "noToken")
     ELSE IF handler[r].checked /\ ~call[r].valid THEN Answer(r, "malformed")
     ELSE Goto(r, IF handler[r].admin THEN "auth" ELSE AfterRole(handler[r]))
  /\ UNCHANGED <<users, tokens, call, handler>>

\* A check that refuses a user without the role, and not a user who is gone.
IsNoAdmin(user) == users[user] # NoUser /\ "ADMIN" \notin users[user].roles

\* The condition of verifyRole.
Unauthorized(user) == users[user] = NoUser \/ "ADMIN" \notin users[user].roles

VerifyRole(r) ==
  /\ pc[r] = "auth"
  /\ IF Unauthorized(call[r].by)
     THEN Answer(r, "adminOnly")
     ELSE Goto(r, AfterRole(handler[r]))
  /\ UNCHANGED <<users, tokens, call, handler>>

Missing(controller) == IF controller.does = "signToken" THEN "wrongCredentials" ELSE "notFound"

AfterUser(r) ==
  IF handler[r].does = "addOrder" /\ call[r].courier # NoUser THEN "findCourier" ELSE "act"

\* A lookup of the caller where the user of the path is meant.
FindCaller(r) ==
  /\ pc[r] = "find"
  /\ IF call[r].by # NoToken /\ users[call[r].by] = NoUser
     THEN Answer(r, Missing(handler[r]))
     ELSE Goto(r, AfterUser(r))
  /\ UNCHANGED <<users, tokens, call, handler>>

\* findById, or findByCpf of a login.
FindUser(r) ==
  /\ pc[r] = "find"
  /\ IF users[call[r].user] = NoUser
     THEN Answer(r, Missing(handler[r]))
     ELSE Goto(r, AfterUser(r))
  /\ UNCHANGED <<users, tokens, call, handler>>

FindCourier(r) ==
  /\ pc[r] = "findCourier"
  /\ IF users[call[r].courier] = NoUser THEN Answer(r, "notFound") ELSE Goto(r, "act")
  /\ UNCHANGED <<users, tokens, call, handler>>

\* An error the use case returns by a rule of its own.
Refuse(r) ==
  /\ pc[r] = "act"
  /\ \E error \in handler[r].rules : Answer(r, error)
  /\ UNCHANGED <<users, tokens, call, handler>>

Acts(r, what) ==
  /\ pc[r] = "act" /\ handler[r].does = what
  /\ Answer(r, "ok")
  /\ UNCHANGED <<call, handler>>

\* Reads, and writes of tables other than users.
Read(r) == Acts(r, "read") /\ UNCHANGED <<users, tokens>>
WriteRow(r) == Acts(r, "write") /\ UNCHANGED <<users, tokens>>

\* A token for whoever asks.
SignForCaller(r) ==
  /\ Acts(r, "signToken")
  /\ tokens' = tokens \cup {call[r].by}
  /\ UNCHANGED users

\* The token names the user that was found, who may be gone by now.
SignToken(r) ==
  /\ Acts(r, "signToken")
  /\ tokens' = tokens \cup {call[r].user}
  /\ UNCHANGED users

\* The foreign keys of an order.
AddOrder(r) ==
  /\ Acts(r, "addOrder")
  /\ users[call[r].user] # NoUser
  /\ call[r].courier # NoUser => users[call[r].courier] # NoUser
  /\ UNCHANGED <<users, tokens>>

\* POST /users takes the roles from its body.
AddUser(r) ==
  /\ Acts(r, "addUser")
  /\ users' = [users EXCEPT ![call[r].user] =
       [roles |-> IF handler[r].gives = {} THEN call[r].roles ELSE handler[r].gives]]
  /\ UNCHANGED tokens

\* save: an UPDATE by id, with the role rows of the mapper.
WriteUser(r) ==
  /\ Acts(r, "writeUser")
  /\ users[call[r].user] # NoUser
  /\ users' = [users EXCEPT ![call[r].user].roles = @ \cup handler[r].gives]
  /\ UNCHANGED tokens

RemoveUser(r) ==
  /\ Acts(r, "removeUser")
  /\ users[call[r].user] # NoUser
  /\ users' = [users EXCEPT ![call[r].user] = NoUser]
  /\ UNCHANGED tokens

\* The database refuses a write: the row is gone, a unique index or a foreign
\* key is in the way.  No controller catches it.
CommandFails(r) ==
  /\ pc[r] = "act" /\ handler[r].does \notin {"read", "signToken"}
  /\ Answer(r, "databaseError")
  /\ UNCHANGED <<users, tokens, call, handler>>

Step(r) ==
  \/ Admit(r) \/ VerifyRole(r) \/ FindUser(r) \/ FindCourier(r) \/ Refuse(r)
  \/ Read(r) \/ WriteRow(r) \/ SignToken(r) \/ AddOrder(r)
  \/ AddUser(r) \/ WriteUser(r) \/ RemoveUser(r) \/ CommandFails(r)

-----------------------------------------------------------------------------

(* History *)

Running(r) == pc[r] \notin {"idle", "done"}

\* What holds of the caller and of the users a call names.
Facts(c) ==
  {fact \in {"admin", "absent", "present"} \X UserIds :
     LET u == fact[2] IN
     CASE fact[1] = "admin" -> u = c.by /\ users[u] # NoUser /\ "ADMIN" \in users[u].roles
       [] fact[1] = "absent" -> u \in {c.user, c.courier} /\ users[u] = NoUser
       [] fact[1] = "present" -> u \in {c.user, c.courier} /\ users[u] # NoUser}

\* Every state that a running request goes through is looked at.
Look == seen' = [r \in Requests |-> IF Running(r) THEN seen[r] \cup Facts(call[r]) ELSE seen[r]]

HttpNext == (\E r \in Requests : Receive(r) \/ Step(r)) /\ Look

HttpSpec == HttpInit /\ [][HttpNext]_httpVars

-----------------------------------------------------------------------------

\* The exception that a case of a switch throws.
Exception ==
  [adminOnly |-> 401, notFound |-> 404, notAllowed |-> 401, wrongCredentials |-> 401,
   alreadyExists |-> 409]

Status(r) ==
  CASE result[r] = "ok" -> handler[r].success
    [] result[r] = "noToken" -> 401
    [] result[r] = "databaseError" -> 500
    [] result[r] \in handler[r].switch -> Exception[result[r]]
    [] OTHER -> 400

\* A use case for admins gets past its first check only if its caller was,
\* while the request ran, a user with the role ADMIN: a token outlives the
\* user it names, and no role is read from it.
OnlyAdminsAct ==
  \A r \in Requests :
    /\ pc[r] = "done" /\ handler[r].admin
    /\ result[r] \notin {"noToken", "malformed", "adminOnly"}
    => <<"admin", call[r].by>> \in seen[r]

\* An answer about a user was true at some moment of the request: success of
\* one who was there, a recipient and a courier of a new order both; "not
\* found" of one who was not.
AnswersMatchRows ==
  \A r \in Requests :
    LET Saw(fact, user) == <<fact, user>> \in seen[r] IN
    /\ pc[r] = "done" /\ handler[r].finds
    => /\ result[r] = "ok" => Saw("present", call[r].user)
       /\ result[r] = "ok" /\ handler[r].does = "addOrder" /\ call[r].courier # NoUser =>
            Saw("present", call[r].courier)
       /\ result[r] = "notFound" => Saw("absent", call[r].user) \/ Saw("absent", call[r].courier)

\* The answers that the API documentation of a controller leaves out.
Undocumented ==
  {<<"ChangeUserPassword", 204>>, <<"FetchUserDeliveries", 200>>,
   <<"FetchOrdersNearby", 400>>, <<"FetchOrdersNearby", 401>>,
   <<"ReadNotification", 401>>, <<"UploadAttachment", 401>>}

\* Whoever calls an endpoint is answered by its controller with a status that
\* its documentation names: routing, guard, pipes and switches bring no other,
\* except those above and the 500 of a refused write.
AnswersAreDocumented ==
  \A r \in Requests :
    pc[r] = "done" =>
      \/ Status(r) \in call[r].to.documents \cup {500}
      \/ <<call[r].to.name, Status(r)>> \in Undocumented

=============================================================================
