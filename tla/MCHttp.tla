------------------------------- MODULE MCHttp -------------------------------
(***************************************************************************)
(* Small instances of Http: three requests at a time by an admin, by a     *)
(* second admin and by a courier, any of whom may be deleted on the way.   *)
(***************************************************************************)
EXTENDS Http, TLC

CONSTANTS r1, r2, r3, root, boss, ana, new

MCUserIds == {root, boss, ana, new}
MCUsers == (root :> [roles |-> {"ADMIN"}]) @@ (boss :> [roles |-> {"ADMIN", "COURIER"}]) @@
           (ana :> [roles |-> {"COURIER"}]) @@ (new :> NoUser)

Call(to, by, user) ==
  [to |-> to, by |-> by, user |-> user, courier |-> NoUser, valid |-> TRUE, roles |-> {}]

\* Every endpoint, called by an admin about a user who is there.
ByAdmin == {Call(e, boss, IF e.does = "addUser" THEN new ELSE ana) : e \in Endpoints}

\* What those without the role, and those without a token, may ask.
ByOthers ==
  {Call(e, ana, boss) : e \in {FetchOrdersNearby, FetchUserDeliveries, GetOrder, EditRecipient}} \cup
  {Call(e, NoToken, ana) : e \in {FetchOrdersNearby, ReadNotification, UploadAttachment, Authenticate}}

\* An admin who creates another, deletes one, looks for one who may be gone.
AboutAdmins ==
  {[Call(CreateUser, NoToken, new) EXCEPT !.roles = {"ADMIN"}],
   Call(Authenticate, NoToken, new),
   Call(DeleteCourier, root, boss), Call(DeleteRecipient, new, ana),
   Call(GetCourier, root, boss), Call(EditCourier, boss, boss),
   [Call(CreateOrder, root, boss) EXCEPT !.courier = ana]}

\* What the pipes refuse.
Malformed ==
  {[Call(e, ana, ana) EXCEPT !.valid = FALSE] : e \in {FetchOrdersNearby, EditCourier, GetCourier}}

MCCalls == ByAdmin \cup ByOthers \cup AboutAdmins \cup Malformed

Interchangeable == Permutations({r1, r2, r3})

=============================================================================
