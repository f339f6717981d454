------------------------------ MODULE MCOrders ------------------------------
(***************************************************************************)
(* Small instances of Orders: two orders (o2 does not exist at first), a   *)
(* courier who has o1, another courier, a recipient and an admin.          *)
(***************************************************************************)
EXTENDS Orders, TLC

CONSTANTS o1, o2, admin, ana, bia, rui, p1, p2, s1, s2

MCOrderIds == {o1, o2}
MCUsers == {admin, ana, bia, rui}
MCAdmins == {admin}
MCPhotos == {p1, p2}
MCSlugs == {s1, s2}

Row(status, courier, slug) ==
  [status |-> status, courier |-> courier, recipient |-> rui, slug |-> slug]

OneOrder == [o \in MCOrderIds |-> IF o = o1 THEN Row("PENDING", NoUser, s1) ELSE NoRow]
PickedUp == [o \in MCOrderIds |-> IF o = o1 THEN Row("PICKED_UP", ana, s1) ELSE NoRow]
LoosePhotos == [p \in MCPhotos |-> NoOrder]

\* A call about o1 by the admin, with the fields an operation ignores filled in.
Blank == [op |-> "get", by |-> admin, order |-> o1, status |-> "PENDING",
          courier |-> NoUser, recipient |-> rui, slug |-> s1, photos |-> {},
          user |-> ana]

PickUp(c) == [Blank EXCEPT !.op = "status", !.status = "PICKED_UP", !.courier = c]
Return == [Blank EXCEPT !.op = "status", !.status = "RETURNED"]
Deliver(o, c, ps) ==
  [Blank EXCEPT !.op = "status", !.status = "DELIVERED", !.order = o,
                !.courier = c, !.photos = ps]
Edit(sl, ps) == [Blank EXCEPT !.op = "edit", !.slug = sl, !.photos = ps]
Get == Blank
DeleteOf(o) == [Blank EXCEPT !.op = "delete", !.order = o]
Create(c, sl) == [Blank EXCEPT !.op = "create", !.order = o2, !.courier = c, !.slug = sl]
Dismiss(u) == [Blank EXCEPT !.op = "deleteUser", !.user = u]

\* Three requests at once: pick-ups by two couriers, deliveries with and
\* without a photo and a courier, edits, a deletion of the order and of a
\* courier, a read by an admin and one by someone who is none.
BusyCalls == {PickUp(ana), PickUp(bia), PickUp(NoUser), Deliver(o1, ana, {p1}),
              Deliver(o1, NoUser, {}), Edit(s1, {p2}), Edit(s2, {}), DeleteOf(o1),
              Dismiss(ana), Get, [Get EXCEPT !.by = ana]}

\* Requests are interchangeable: no action or safety property orders them.
Interchangeable == Permutations(Requests)

\* The order returned, deleted, or its slug wanted by a new one; its recipient
\* deleted while the notification of the return is under way.
LifecycleCalls == {Return, Create(ana, s1), DeleteOf(o1), Dismiss(rui)}

\* Pick-ups, a return, deliveries, edits and reads.
EditCalls == {PickUp(ana), PickUp(bia), Return, Deliver(o1, ana, {p1}),
                Deliver(o1, bia, {}), Edit(s1, {p2}), Get}

\* The same with both attachments on the order from the start.
AttachedPhotos == [p \in MCPhotos |-> o1]

\* A delivery whose body names no courier.
DeliverCalls == {Deliver(o1, NoUser, {p1}), Deliver(o1, bia, {p1})}

\* Status changes of one order against each other and against a reader.
RaceCalls == {Get, Return, PickUp(bia)}

=============================================================================
