----------------------------- MODULE MCServices -----------------------------
(***************************************************************************)
(* Small instances of Lists, Notifications and Uploads, and of the values  *)
(* of MCValues.  The four share no table, no object and no event, so       *)
(* nothing one does is visible to another: a behaviour runs one of them,   *)
(* chosen at the start.                                                    *)
(***************************************************************************)
EXTENDS Lists, Notifications, Uploads, MCValues, TLC

CONSTANTS admin, ana, rui, zoe, o1, o2, o3, o4, o5, cpf1, cpf2, cpf3, cpf4

VARIABLE service

\* Types, of all four.
ServicesTypeOK ==
  /\ service \in {"lists", "notifications", "uploads", "values"}
  /\ ListsTypeOK /\ NotificationsTypeOK /\ UploadsTypeOK /\ ValuesTypeOK

ServicesInit ==
  /\ service \in {"lists", "notifications", "uploads", "values"}
  /\ ListsInit /\ NotificationsInit /\ UploadsInit
  /\ IF service = "values" THEN ValuesInit ELSE NoValues

ServicesNext ==
  /\ UNCHANGED service
  /\ \/ service = "lists" /\ ListsNext /\ UNCHANGED <<noticeVars, uploadVars, valueVars>>
     \/ service = "notifications" /\ NotificationsNext /\ UNCHANGED <<listVars, uploadVars, valueVars>>
     \/ service = "uploads" /\ UploadsNext /\ UNCHANGED <<listVars, noticeVars, valueVars>>
     \/ service = "values" /\ ValuesNext /\ UNCHANGED <<listVars, noticeVars, uploadVars>>

ServicesSpec ==
  ServicesInit /\ [][ServicesNext]_<<service, listVars, noticeVars, uploadVars, valueVars>>

-----------------------------------------------------------------------------

MCUsers == {admin, ana, rui, zoe}
MCOrders == {o1, o2, o3, o4, o5}
MCCpfs == {cpf1, cpf2, cpf3, cpf4}
MCAdmins == {admin}

\* Two orders of one Date, one of them still to come.
Dates == (o1 :> 1) @@ (o2 :> 2) @@ (o3 :> 3) @@ (o4 :> 3) @@ (o5 :> 4) @@
         (admin :> 1) @@ (ana :> 2) @@ (rui :> 3) @@ (zoe :> 4)

Row(courier, near) == [recipient |-> rui, courier |-> courier, near |-> near]
MCOrderRows == {Row(NoUser, TRUE), Row(ana, TRUE), Row(rui, FALSE)}

ThreeOrders == (o1 :> Row(NoUser, TRUE)) @@ (o2 :> Row(ana, TRUE)) @@
               (o3 :> Row(NoUser, TRUE)) @@ (o4 :> NoOrder) @@ (o5 :> NoOrder)
ThreeUsers == (admin :> cpf1) @@ (ana :> cpf2) @@ (rui :> cpf3) @@ (zoe :> NoCpf)

Walk(l, by, user) == [list |-> l, by |-> by, user |-> user]

\* Every list, by the admin; the orders by a courier, who is refused; the
\* deliveries of a courier and of a recipient.
MCAsks == {Walk(l, admin, ana) : l \in Lists} \cup
          {Walk("orders", ana, ana), Walk("deliveries", ana, rui)}

=============================================================================
