---------------------------- MODULE Notifications ----------------------------
(***************************************************************************)
(* Reading notifications: PATCH /notifications/:notificationId/read, from  *)
(* several devices at once, while SendNotification adds rows.  No code      *)
(* deletes a notification, and its recipient cannot be deleted (RESTRICT).  *)
(***************************************************************************)
EXTENDS Naturals

CONSTANTS
  Devices,          \* clients, each of which makes one request
  NotificationIds,
  Recipients,       \* users
  Unread,           \* null in the column read_at
  NoNotification,   \* no row
  NoRead,           \* a device that has asked for nothing
  MaxTime           \* bound: the clock

Times == 0..MaxTime
Notices == [recipient : Recipients, readAt : Times \cup {Unread}]
ReadType == [by : Recipients, id : NotificationIds]

ASSUME NotificationNullsAssumption ==
  /\ Unread \notin Nat
  /\ NoNotification \notin Notices
  /\ NoRead \notin ReadType
ASSUME MaxTimeAssumption == MaxTime \in Nat

VARIABLES
  notifications,  \* notifications table: row of each id, or NoNotification
  now,            \* the clock
  read,           \* what each device asked for
  step,           \* where its request waits, or how it was answered
  notice          \* the Notification object of the request

noticeVars == <<notifications, now, read, step, notice>>

NotificationsTypeOK ==
  /\ notifications \in [NotificationIds -> Notices \cup {NoNotification}]
  /\ now \in Times
  /\ read \in [Devices -> ReadType \cup {NoRead}]
  /\ step \in [Devices -> {"idle", "find", "save", "ok", "badRequest"}]
  /\ notice \in [Devices -> Notices \cup {NoNotification}]

NotificationsInit ==
  /\ notifications = [n \in NotificationIds |-> NoNotification]
  /\ now = 0
  /\ read = [d \in Devices |-> NoRead]
  /\ step = [d \in Devices |-> "idle"]
  /\ notice = [d \in Devices |-> NoNotification]

-----------------------------------------------------------------------------

Tick ==
  /\ now < MaxTime
  /\ now' = now + 1
  /\ UNCHANGED <<notifications, read, step, notice>>

\* SendNotification, which the subscriber of status changes calls.
Send(n) ==
  /\ notifications[n] = NoNotification
  /\ \E u \in Recipients :
       notifications' = [notifications EXCEPT ![n] = [recipient |-> u, readAt |-> Unread]]
  /\ UNCHANGED <<now, read, step, notice>>

AskToRead(d) ==
  /\ step[d] = "idle"
  /\ \E ask \in ReadType : read' = [read EXCEPT ![d] = ask]
  /\ step' = [step EXCEPT ![d] = "find"]
  /\ UNCHANGED <<notifications, now, notice>>

\* A use case that forgets to compare the recipient.
RefusedWhenMissing(n, u) == n = NoNotification

\* The rules of the use case, for the row n and the caller u.
Refused(n, u) == n = NoNotification \/ n.recipient # u

\* A read() that works as a switch.
ReadToggles(n) == [n EXCEPT !.readAt = IF @ = Unread THEN now ELSE Unread]

\* Notification.read, with the Date of the moment it runs.
ReadNow(n) == [n EXCEPT !.readAt = now]

\* findById, the rules and read() with no await in between; a refusal is
\* answered 400 whatever its reason.
FindNotification(d) ==
  /\ step[d] = "find"
  /\ LET n == notifications[read[d].id] IN
     IF Refused(n, read[d].by)
     THEN /\ step' = [step EXCEPT ![d] = "badRequest"]
          /\ UNCHANGED notice
     ELSE /\ step' = [step EXCEPT ![d] = "save"]
          /\ notice' = [notice EXCEPT ![d] = ReadNow(n)]
  /\ UNCHANGED <<notifications, now, read>>

\* The UPDATE writes every column of the object.
SaveNotification(d) ==
  /\ step[d] = "save"
  /\ notifications' = [notifications EXCEPT ![read[d].id] = notice[d]]
  /\ step' = [step EXCEPT ![d] = "ok"]
  /\ UNCHANGED <<now, read, notice>>

NotificationsNext ==
  \/ Tick
  \/ \E n \in NotificationIds : Send(n)
  \/ \E d \in Devices : AskToRead(d) \/ FindNotification(d) \/ SaveNotification(d)

NotificationsSpec == NotificationsInit /\ [][NotificationsNext]_noticeVars

-----------------------------------------------------------------------------

\* However the saves of several devices overtake each other, a notification one
\* of them was told is read stays read, at the time of one of those reads.
AnsweredIsRead ==
  \A d \in Devices :
    step[d] = "ok" =>
      \E e \in Devices :
        /\ step[e] = "ok" /\ read[e].id = read[d].id
        /\ notice[e].readAt # Unread
        /\ notifications[read[d].id] = notice[e]

\* A notification is read only because its recipient asked to read it.
ReadByRecipient ==
  \A n \in NotificationIds :
    notifications[n] # NoNotification /\ notifications[n].readAt # Unread =>
      \E d \in Devices :
        /\ step[d] = "ok" /\ read[d].id = n
        /\ read[d].by = notifications[n].recipient

=============================================================================
