--------------------------- MODULE ServicesProofs ---------------------------
(***************************************************************************)
(* Theorems about Notifications and Uploads, for any number of devices,    *)
(* notifications, uploads and file names, and about MCServices, which runs *)
(* them with Lists and the values.                                         *)
(***************************************************************************)
EXTENDS MCServices, ListsProofs, ValuesProofs

(* Notifications *)

\* A request that will save, or has saved, holds the notification it asked for
\* with a date, on behalf of its recipient.
NoticesOfRecipients ==
  \A d \in Devices :
    step[d] \in {"save", "ok"} =>
      /\ read[d] \in ReadType
      /\ notice[d] \in Notices
      /\ notice[d].readAt # Unread
      /\ notice[d].recipient = read[d].by
      /\ notifications[read[d].id] # NoNotification
      /\ notifications[read[d].id].recipient = read[d].by

\* A request that is under way names a notification.
AskedFor == \A d \in Devices : step[d] # "idle" => read[d] \in ReadType

NotificationsInv ==
  /\ NotificationsTypeOK
  /\ AskedFor
  /\ NoticesOfRecipients
  /\ AnsweredIsRead
  /\ ReadByRecipient

USE DEF Notices, ReadType, Times

\* At the start nothing is asked for and there is no notification.
LEMMA NotificationsStart ==
  NotificationsInit => NotificationsInv
  BY NotificationNullsAssumption, MaxTimeAssumption
  DEF NotificationsInit, NotificationsInv, NotificationsTypeOK, AskedFor,
      NoticesOfRecipients, AnsweredIsRead, ReadByRecipient

\* The clock, a request that arrives: no row and no object changes.
LEMMA ArrivalPreserves ==
  ASSUME NotificationsInv,
         \/ Tick
         \/ \E d \in Devices : AskToRead(d)
         \/ UNCHANGED noticeVars
  PROVE  NotificationsInv'
  BY MaxTimeAssumption
  DEF NotificationsInv, NotificationsTypeOK, AskedFor, NoticesOfRecipients,
      AnsweredIsRead, ReadByRecipient, Tick, AskToRead, noticeVars

\* A notification that is sent is a new row: nobody has been told it is read.
LEMMA SendPreserves ==
  ASSUME NotificationsInv, NEW n \in NotificationIds, Send(n)
  PROVE  NotificationsInv'
  <1>1. PICK u \in Recipients :
          notifications' = [notifications EXCEPT ![n] = [recipient |-> u, readAt |-> Unread]]
    BY DEF Send
  <1>2. notifications[n] = NoNotification /\ UNCHANGED <<now, read, step, notice>>
    BY DEF Send
  <1>3. \A m \in NotificationIds \ {n} : notifications'[m] = notifications[m]
    BY <1>1 DEF NotificationsInv, NotificationsTypeOK
  <1>4. notifications'[n] = [recipient |-> u, readAt |-> Unread]
    BY <1>1 DEF NotificationsInv, NotificationsTypeOK
  <1>5. NotificationsTypeOK'
    BY <1>1, <1>2 DEF NotificationsInv, NotificationsTypeOK
  <1>6. \A d \in Devices : step[d] \in {"save", "ok"} => read[d].id \in NotificationIds \ {n}
    BY <1>2 DEF NotificationsInv, NoticesOfRecipients
  <1>7. AskedFor' /\ NoticesOfRecipients'
    BY <1>2, <1>3, <1>6 DEF NotificationsInv, AskedFor, NoticesOfRecipients
  <1>8. AnsweredIsRead'
    BY <1>2, <1>3, <1>6 DEF NotificationsInv, AnsweredIsRead
  <1>9. ReadByRecipient'
    BY <1>2, <1>3, <1>4 DEF NotificationsInv, ReadByRecipient
  <1> QED BY <1>5, <1>7, <1>8, <1>9 DEF NotificationsInv

\* findById and read() touch only the object of the request.
LEMMA FindPreserves ==
  ASSUME NotificationsInv, NEW d \in Devices, FindNotification(d)
  PROVE  NotificationsInv'
  <1> DEFINE n == notifications[read[d].id]
  <1>1. step[d] = "find" /\ read[d] \in ReadType /\ UNCHANGED <<notifications, now, read>>
    BY DEF FindNotification, NotificationsInv, AskedFor
  <1>2. n \in Notices \cup {NoNotification} /\ now \in Times
    BY <1>1 DEF NotificationsInv, NotificationsTypeOK
  <1>3. \A e \in Devices \ {d} : step'[e] = step[e] /\ notice'[e] = notice[e]
    BY DEF FindNotification, NotificationsInv, NotificationsTypeOK
  <1>4. CASE Refused(n, read[d].by)
    <2>1. step' = [step EXCEPT ![d] = "badRequest"] /\ notice' = notice
      BY <1>4 DEF FindNotification
    <2> QED BY <1>1, <1>3, <2>1
        DEF NotificationsInv, NotificationsTypeOK, AskedFor, NoticesOfRecipients,
            AnsweredIsRead, ReadByRecipient
  <1>5. CASE ~Refused(n, read[d].by)
    <2>1. step' = [step EXCEPT ![d] = "save"] /\ notice' = [notice EXCEPT ![d] = ReadNow(n)]
      BY <1>5 DEF FindNotification
    <2>2. n \in Notices /\ n.recipient = read[d].by /\ n # NoNotification
      BY <1>2, <1>5 DEF Refused
    <2>3. ReadNow(n) = [recipient |-> n.recipient, readAt |-> now]
      BY <2>2 DEF ReadNow
    <2>4. now # Unread
      BY <1>2, MaxTimeAssumption, NotificationNullsAssumption
    <2>5. step'[d] = "save" /\ notice'[d] = ReadNow(n)
      BY <2>1 DEF NotificationsInv, NotificationsTypeOK
    <2>6. ReadNow(n) \in Notices
      BY <1>2, <2>2, <2>3
    <2>7. NotificationsTypeOK'
      BY <1>1, <2>1, <2>6 DEF NotificationsInv, NotificationsTypeOK
    <2>8. AskedFor' /\ NoticesOfRecipients'
      BY <1>1, <1>3, <2>2, <2>3, <2>4, <2>5, <2>6
      DEF NotificationsInv, AskedFor, NoticesOfRecipients
    <2>9. AnsweredIsRead' /\ ReadByRecipient'
      BY <1>1, <1>3, <2>5 DEF NotificationsInv, AnsweredIsRead, ReadByRecipient
    <2> QED BY <2>7, <2>8, <2>9 DEF NotificationsInv
  <1> QED BY <1>4, <1>5

\* A save puts the object of the request in the row, whatever was there.
LEMMA SavePreserves ==
  ASSUME NotificationsInv, NEW d \in Devices, SaveNotification(d)
  PROVE  NotificationsInv'
  <1> DEFINE id == read[d].id
  <1>1. /\ step[d] = "save"
        /\ notifications' = [notifications EXCEPT ![id] = notice[d]]
        /\ step' = [step EXCEPT ![d] = "ok"]
        /\ UNCHANGED <<now, read, notice>>
    BY DEF SaveNotification
  <1>2. /\ read[d] \in ReadType /\ notice[d] \in Notices /\ notice[d].readAt # Unread
        /\ notice[d].recipient = read[d].by
        /\ notifications[id].recipient = read[d].by
    BY <1>1 DEF NotificationsInv, NoticesOfRecipients
  <1>3. notifications'[id] = notice[d] /\ step'[d] = "ok"
    BY <1>1, <1>2 DEF NotificationsInv, NotificationsTypeOK
  <1>4. \A m \in NotificationIds \ {id} : notifications'[m] = notifications[m]
    BY <1>1 DEF NotificationsInv, NotificationsTypeOK
  <1>5. \A e \in Devices \ {d} : step'[e] = step[e]
    BY <1>1 DEF NotificationsInv, NotificationsTypeOK
  <1>6. NotificationsTypeOK'
    BY <1>1, <1>2 DEF NotificationsInv, NotificationsTypeOK
  <1>7. AskedFor'
    BY <1>1, <1>2, <1>5 DEF NotificationsInv, AskedFor
  <1>8. NoticesOfRecipients'
    <2> SUFFICES ASSUME NEW e \in Devices, step'[e] \in {"save", "ok"}
                 PROVE  /\ read[e] \in ReadType /\ notice[e] \in Notices
                        /\ notice[e].readAt # Unread
                        /\ notice[e].recipient = read[e].by
                        /\ notifications'[read[e].id] # NoNotification
                        /\ notifications'[read[e].id].recipient = read[e].by
      BY <1>1 DEF NoticesOfRecipients
    <2>1. step[e] \in {"save", "ok"}
      BY <1>1, <1>5
    <2>2. /\ read[e] \in ReadType /\ notice[e] \in Notices /\ notice[e].readAt # Unread
          /\ notice[e].recipient = read[e].by
          /\ notifications[read[e].id] # NoNotification
          /\ notifications[read[e].id].recipient = read[e].by
      BY <2>1 DEF NotificationsInv, NoticesOfRecipients
    <2>3. notice[d] # NoNotification
      BY <1>2, NotificationNullsAssumption
    <2> QED BY <1>2, <1>3, <1>4, <2>2, <2>3
  <1>9. AnsweredIsRead'
    <2> SUFFICES ASSUME NEW e \in Devices, step'[e] = "ok"
                 PROVE  \E f \in Devices :
                          /\ step'[f] = "ok" /\ read[f].id = read[e].id
                          /\ notice[f].readAt # Unread
                          /\ notifications'[read[e].id] = notice[f]
      BY <1>1 DEF AnsweredIsRead
    <2>1. CASE read[e].id = id
      BY <1>2, <1>3, <2>1
    <2>2. CASE read[e].id # id
      <3>1. step[e] = "ok" /\ read[e] \in ReadType
        BY <1>5, <2>2 DEF NotificationsInv, NoticesOfRecipients
      <3>2. PICK f \in Devices : /\ step[f] = "ok" /\ read[f].id = read[e].id
                                 /\ notice[f].readAt # Unread
                                 /\ notifications[read[e].id] = notice[f]
        BY <3>1 DEF NotificationsInv, AnsweredIsRead
      <3> QED BY <1>3, <1>4, <1>5, <2>2, <3>1, <3>2
    <2> QED BY <2>1, <2>2
  <1>10. ReadByRecipient'
    <2> SUFFICES ASSUME NEW m \in NotificationIds, notifications'[m] # NoNotification,
                        notifications'[m].readAt # Unread
                 PROVE  \E e \in Devices : /\ step'[e] = "ok" /\ read[e].id = m
                                           /\ read[e].by = notifications'[m].recipient
      BY <1>1 DEF ReadByRecipient
    <2>1. CASE m = id
      BY <1>2, <1>3, <2>1
    <2>2. CASE m # id
      <3>1. PICK e \in Devices : /\ step[e] = "ok" /\ read[e].id = m
                                 /\ read[e].by = notifications[m].recipient
        BY <1>4, <2>2 DEF NotificationsInv, ReadByRecipient
      <3> QED BY <1>3, <1>4, <1>5, <2>2, <3>1
    <2> QED BY <2>1, <2>2
  <1> QED BY <1>6, <1>7, <1>8, <1>9, <1>10 DEF NotificationsInv

\* However many devices read however many notifications at once, one that was
\* answered stays read, and only its recipient's requests read it.
THEOREM NotificationsInvariant ==
  NotificationsSpec => [](NotificationsTypeOK /\ AnsweredIsRead /\ ReadByRecipient)
  <1>1. NotificationsInv /\ [NotificationsNext]_noticeVars => NotificationsInv'
    BY ArrivalPreserves, SendPreserves, FindPreserves, SavePreserves DEF NotificationsNext
  <1>2. NotificationsInv => NotificationsTypeOK /\ AnsweredIsRead /\ ReadByRecipient
    BY DEF NotificationsInv
  <1> QED BY NotificationsStart, <1>1, <1>2, PTL DEF NotificationsSpec

-----------------------------------------------------------------------------

(* Uploads *)

\* An upload whose file passed both checks.
Accepted(c) == place[c] \in {"put", "insert", "created", "error"}

\* An upload that was accepted has a file and a key of its own.
KeysAreOwn ==
  \A c \in Uploaders : Accepted(c) =>
    /\ file[c] \in Files
    /\ uuid[c] \in Uuids
    /\ \A d \in Uploaders \ {c} : Accepted(d) => uuid[d] # uuid[c]

\* Every file is under the key of its upload, which has got past the bucket.
FilesUnderTheirKeys ==
  /\ \A k \in Keys : bucket[k] # NoFile =>
       /\ k = KeyOf(bucket[k])
       /\ place[bucket[k]] \in {"insert", "created", "error"}
  /\ \A c \in Uploaders : place[c] \in {"insert", "created"} => bucket[KeyOf(c)] = c

\* Every row leads to the file of its upload; an upload that was answered 201
\* has one.
RowsOfUploads ==
  /\ \A a \in attachments :
       /\ a.url = KeyOf(a.of)
       /\ bucket[a.url] = a.of
       /\ place[a.of] \in {"created", "error"}
  /\ \A c \in Uploaders : place[c] = "created" => [of |-> c, url |-> KeyOf(c)] \in attachments

UploadsInv ==
  /\ UploadsTypeOK
  /\ KeysAreOwn
  /\ FilesUnderTheirKeys
  /\ RowsOfUploads

\* At the start there is no file and no row.
LEMMA UploadsStart ==
  UploadsInit => UploadsInv
  BY DEF UploadsInit, UploadsInv, UploadsTypeOK, Accepted, KeysAreOwn,
         FilesUnderTheirKeys, RowsOfUploads

\* The key of an accepted upload is a key, and no other upload has it.
LEMMA KeyOfUpload ==
  ASSUME UploadsInv, NEW c \in Uploaders, Accepted(c)
  PROVE  /\ KeyOf(c) \in Keys
         /\ KeyOf(c)[2] = file[c].name
         /\ \A d \in Uploaders \ {c} : Accepted(d) => KeyOf(d) # KeyOf(c)
  <1>1. file[c].name \in FileNames /\ uuid[c] \in Uuids
    BY DEF UploadsInv, KeysAreOwn, Files
  <1> QED BY <1>1 DEF UploadsInv, KeysAreOwn, KeyOf, Keys

\* An upload that arrives has no file in the bucket and no row, and takes a
\* uuid nobody has.
LEMMA UploadPreserves ==
  ASSUME UploadsInv, NEW c \in Uploaders, Upload(c)
  PROVE  UploadsInv'
  <1>1. PICK f \in Files : file' = [file EXCEPT ![c] = f]
    BY DEF Upload
  <1>2. place[c] = "idle" /\ UNCHANGED <<bucket, attachments>>
    BY DEF Upload
  <1>3. \/ /\ place' = [place EXCEPT ![c] = "put"]
           /\ \E id \in Uuids \ {uuid[d] : d \in Uploaders} : uuid' = [uuid EXCEPT ![c] = id]
        \/ place' = [place EXCEPT ![c] = "badRequest"] /\ uuid' = uuid
    BY DEF Upload
  <1>4. UploadsTypeOK'
    BY <1>1, <1>2, <1>3 DEF UploadsInv, UploadsTypeOK
  <1>5. \A d \in Uploaders \ {c} : /\ place'[d] = place[d] /\ uuid'[d] = uuid[d]
                                   /\ file'[d] = file[d]
    BY <1>1, <1>3 DEF UploadsInv, UploadsTypeOK
  <1>6. /\ place'[c] \in {"put", "badRequest"} /\ file'[c] \in Files
        /\ place'[c] = "put" => /\ uuid'[c] \in Uuids
                                /\ \A d \in Uploaders : uuid[d] # uuid'[c]
    BY <1>1, <1>3 DEF UploadsInv, UploadsTypeOK
  <1>7. KeysAreOwn'
    BY <1>5, <1>6 DEF UploadsInv, KeysAreOwn, Accepted
  <1>8. \A d \in Uploaders \ {c} : KeyOf(d)' = KeyOf(d)
    BY <1>5 DEF KeyOf
  <1>9. FilesUnderTheirKeys'
    <2>1. \A k \in Keys : bucket[k] # NoFile => bucket[k] \in Uploaders \ {c}
      BY <1>2 DEF UploadsInv, UploadsTypeOK, FilesUnderTheirKeys
    <2> QED BY <1>2, <1>5, <1>6, <1>8, <2>1 DEF UploadsInv, FilesUnderTheirKeys, KeyOf
  <1>10. RowsOfUploads'
    <2>1. \A a \in attachments : a.of \in Uploaders \ {c}
      BY <1>2 DEF UploadsInv, UploadsTypeOK, RowsOfUploads
    <2> QED BY <1>2, <1>5, <1>6, <1>8, <2>1 DEF UploadsInv, RowsOfUploads, KeyOf
  <1> QED BY <1>4, <1>7, <1>9, <1>10 DEF UploadsInv

\* The file is put under the key of the upload, or not at all when it fails.
LEMMA PutPreserves ==
  ASSUME UploadsInv, NEW c \in Uploaders, place[c] = "put",
         \/ /\ bucket' = [bucket EXCEPT ![KeyOf(c)] = c]
            /\ place' = [place EXCEPT ![c] = "insert"]
         \/ /\ bucket' \in {bucket, [bucket EXCEPT ![KeyOf(c)] = c]}
            /\ place' = [place EXCEPT ![c] = "error"],
         UNCHANGED <<attachments, file, uuid>>
  PROVE  UploadsInv'
  <1>1. /\ Accepted(c)
        /\ KeyOf(c) \in Keys
        /\ \A d \in Uploaders \ {c} : Accepted(d) => KeyOf(d) # KeyOf(c)
    BY KeyOfUpload DEF Accepted
  <1>2. \A d \in Uploaders : KeyOf(d)' = KeyOf(d)
    BY DEF KeyOf
  <1>3. UploadsTypeOK'
    BY <1>1 DEF UploadsInv, UploadsTypeOK
  <1>4. /\ \A d \in Uploaders \ {c} : place'[d] = place[d]
        /\ place'[c] \in {"insert", "error"}
    BY DEF UploadsInv, UploadsTypeOK
  <1>5. /\ \A k \in Keys \ {KeyOf(c)} : bucket'[k] = bucket[k]
        /\ bucket'[KeyOf(c)] \in {bucket[KeyOf(c)], c}
        /\ place'[c] = "insert" => bucket'[KeyOf(c)] = c
    BY <1>1 DEF UploadsInv, UploadsTypeOK
  <1>6. KeysAreOwn'
    BY <1>1, <1>4 DEF UploadsInv, KeysAreOwn, Accepted
  <1>7. \A k \in Keys : bucket[k] # NoFile => bucket[k] \in Uploaders \ {c}
    BY DEF UploadsInv, UploadsTypeOK, FilesUnderTheirKeys
  <1>8. \A d \in Uploaders \ {c} : Accepted(d) => KeyOf(d) \in Keys \ {KeyOf(c)}
    BY <1>1, KeyOfUpload
  <1>9. FilesUnderTheirKeys'
    <2>1. \A k \in Keys : bucket'[k] # NoFile =>
            /\ k = KeyOf(bucket'[k])
            /\ place'[bucket'[k]] \in {"insert", "created", "error"}
      BY <1>4, <1>5, <1>7 DEF UploadsInv, FilesUnderTheirKeys
    <2>2. \A d \in Uploaders : place'[d] \in {"insert", "created"} => bucket'[KeyOf(d)] = d
      BY <1>4, <1>5, <1>8 DEF UploadsInv, FilesUnderTheirKeys, Accepted
    <2> QED BY <2>1, <2>2 DEF FilesUnderTheirKeys, KeyOf, Keys
  <1>10. RowsOfUploads'
    <2>1. \A a \in attachments : /\ a.of \in Uploaders \ {c} /\ Accepted(a.of)
                                 /\ a.url = KeyOf(a.of) /\ bucket[a.url] = a.of
      BY DEF UploadsInv, UploadsTypeOK, RowsOfUploads, Accepted
    <2>2. \A a \in attachments : bucket'[a.url] = a.of
      BY <1>5, <1>8, <2>1
    <2> QED BY <1>2, <1>4, <2>1, <2>2 DEF UploadsInv, RowsOfUploads, KeyOf
  <1> QED BY <1>3, <1>6, <1>9, <1>10 DEF UploadsInv

\* The row is of the upload and names its key; a failure may leave it out.
LEMMA InsertPreserves ==
  ASSUME UploadsInv, NEW c \in Uploaders, place[c] = "insert",
         \/ /\ attachments' = attachments \cup {[of |-> c, url |-> KeyOf(c)]}
            /\ place' = [place EXCEPT ![c] = "created"]
         \/ /\ attachments' \in {attachments, attachments \cup {[of |-> c, url |-> KeyOf(c)]}}
            /\ place' = [place EXCEPT ![c] = "error"],
         UNCHANGED <<bucket, file, uuid>>
  PROVE  UploadsInv'
  <1>1. Accepted(c) /\ KeyOf(c) \in Keys /\ bucket[KeyOf(c)] = c
    BY KeyOfUpload DEF Accepted, UploadsInv, FilesUnderTheirKeys
  <1>2. \A d \in Uploaders : KeyOf(d)' = KeyOf(d)
    BY DEF KeyOf
  <1>3. UploadsTypeOK'
    BY <1>1 DEF UploadsInv, UploadsTypeOK
  <1>4. /\ \A d \in Uploaders \ {c} : place'[d] = place[d]
        /\ place'[c] \in {"created", "error"}
        /\ place'[c] = "created" => [of |-> c, url |-> KeyOf(c)] \in attachments'
    BY DEF UploadsInv, UploadsTypeOK
  <1>5. /\ attachments \subseteq attachments'
        /\ \A a \in attachments' : a \in attachments \/ a = [of |-> c, url |-> KeyOf(c)]
    OBVIOUS
  <1>6. KeysAreOwn'
    BY <1>1, <1>4 DEF UploadsInv, KeysAreOwn, Accepted
  <1>7. FilesUnderTheirKeys'
    <2>1. \A k \in Keys : bucket[k] # NoFile => bucket[k] \in Uploaders
      BY DEF UploadsInv, UploadsTypeOK
    <2> QED BY <1>1, <1>4, <2>1 DEF UploadsInv, FilesUnderTheirKeys, KeyOf
  <1>8. RowsOfUploads'
    <2>1. \A a \in attachments' : /\ a.of \in Uploaders /\ a.url = KeyOf(a.of)
                                  /\ bucket[a.url] = a.of
                                  /\ place'[a.of] \in {"created", "error"}
      BY <1>1, <1>4, <1>5 DEF UploadsInv, UploadsTypeOK, RowsOfUploads
    <2>2. \A d \in Uploaders : place'[d] = "created" => [of |-> d, url |-> KeyOf(d)] \in attachments'
      BY <1>4, <1>5 DEF UploadsInv, RowsOfUploads
    <2> QED BY <2>1, <2>2 DEF RowsOfUploads, KeyOf
  <1> QED BY <1>3, <1>6, <1>7, <1>8 DEF UploadsInv

\* However many uploads overlap or fail half way, the url of an attachment
\* leads to the file that was uploaded for it, and a file without an attachment
\* is of an upload that is under way or failed.
THEOREM UploadsInvariant ==
  UploadsSpec => [](UploadsTypeOK /\ AttachmentHasItsFile /\ OrphansAreFailures)
  <1>1. UploadsInv /\ [UploadsNext]_uploadVars => UploadsInv'
    <2> SUFFICES ASSUME UploadsInv, [UploadsNext]_uploadVars PROVE UploadsInv'
      OBVIOUS
    <2>1. CASE UNCHANGED uploadVars
      BY <2>1 DEF uploadVars, UploadsInv, UploadsTypeOK, Accepted, KeysAreOwn,
                  FilesUnderTheirKeys, RowsOfUploads, KeyOf
    <2>2. ASSUME NEW c \in Uploaders, Upload(c) PROVE UploadsInv'
      BY <2>2, UploadPreserves
    <2>3. ASSUME NEW c \in Uploaders, Put(c) PROVE UploadsInv'
      BY <2>3, PutPreserves DEF Put
    <2>4. ASSUME NEW c \in Uploaders, InsertAttachment(c) PROVE UploadsInv'
      BY <2>4, InsertPreserves DEF InsertAttachment
    <2>5. ASSUME NEW c \in Uploaders, UploadFails(c) PROVE UploadsInv'
      BY <2>5, PutPreserves, InsertPreserves DEF UploadFails
    <2> QED BY <2>1, <2>2, <2>3, <2>4, <2>5 DEF UploadsNext
  <1>2. UploadsInv => UploadsTypeOK /\ AttachmentHasItsFile /\ OrphansAreFailures
    <2> SUFFICES ASSUME UploadsInv
                 PROVE  UploadsTypeOK /\ AttachmentHasItsFile /\ OrphansAreFailures
      OBVIOUS
    <2>1. AttachmentHasItsFile
      <3> SUFFICES ASSUME NEW a \in attachments
                   PROVE  bucket[a.url] = a.of /\ a.url[2] = file[a.of].name
        BY DEF AttachmentHasItsFile
      <3>1. /\ a.of \in Uploaders /\ a.url = KeyOf(a.of) /\ bucket[a.url] = a.of
            /\ Accepted(a.of)
        BY DEF UploadsInv, UploadsTypeOK, RowsOfUploads, Accepted
      <3> QED BY <3>1, KeyOfUpload
    <2>2. OrphansAreFailures
      <3> SUFFICES ASSUME NEW k \in Keys, bucket[k] # NoFile,
                          \A a \in attachments : a.url # k
                   PROVE  place[bucket[k]] \in {"insert", "error"}
        BY DEF OrphansAreFailures
      <3>1. bucket[k] \in Uploaders
        BY DEF UploadsInv, UploadsTypeOK
      <3> QED BY <3>1 DEF UploadsInv, FilesUnderTheirKeys, RowsOfUploads
    <2> QED BY <2>1, <2>2 DEF UploadsInv
  <1> QED BY UploadsStart, <1>1, <1>2, PTL DEF UploadsSpec

-----------------------------------------------------------------------------

(* The composition *)

allVars == <<service, listVars, noticeVars, uploadVars, valueVars>>

\* A step of the composition is one of a single service; the others stutter.
LEMMA ServicesStep ==
  ASSUME [ServicesNext]_allVars
  PROVE  /\ [ListsNext]_listVars
         /\ [NotificationsNext]_noticeVars
         /\ [UploadsNext]_uploadVars
         /\ [Next]_vars /\ [CpfNext]_cpfVars /\ [SlugNext]_slugVars
         /\ UNCHANGED service
         /\ UNCHANGED object
  <1>1. CASE ServicesNext
    <2>1. UNCHANGED service
      BY <1>1 DEF ServicesNext
    <2>2. CASE ListsNext /\ UNCHANGED <<noticeVars, uploadVars, valueVars>>
      BY <2>1, <2>2 DEF valueVars
    <2>3. CASE NotificationsNext /\ UNCHANGED <<listVars, uploadVars, valueVars>>
      BY <2>1, <2>3 DEF valueVars
    <2>4. CASE UploadsNext /\ UNCHANGED <<listVars, noticeVars, valueVars>>
      BY <2>1, <2>4 DEF valueVars
    <2>5. CASE ValuesNext /\ UNCHANGED <<listVars, noticeVars, uploadVars>>
      BY <2>1, <2>5 DEF ValuesNext
    <2> QED
      BY <1>1, <2>2, <2>3, <2>4, <2>5 DEF ServicesNext
  <1>2. CASE UNCHANGED allVars
    BY <1>2 DEF allVars, valueVars
  <1> QED
    BY <1>1, <1>2

\* The composition adds nothing to its parts: each of its behaviours is one of
\* the lists, of the notifications, of the uploads, of a watched list and of a
\* slug.  (Of a CPF only when the values run: without a text there is none.)
THEOREM ServicesRunTheirParts ==
  ServicesSpec => ListsSpec /\ NotificationsSpec /\ UploadsSpec /\ Spec /\ SlugSpec
  <1>1. ServicesInit => ListsInit /\ NotificationsInit /\ UploadsInit
    BY DEF ServicesInit
  <1>2. ServicesInit => Init /\ SlugInit
    <2>1. loaded = {} /\ list = ConstructedEmpty /\ history = "constructed" => Init
      BY DEF Init
    <2>2. title = <<>> /\ slug = <<>> => SlugInit
      <3>1. CreateFromText(<<>>) = <<>>
        <4>1. <<>> \in Seq(SlugChars) /\ ~EndsIn(<<>>, "-") /\ NoDoubles(<<>>)
          BY EmptySeq DEF EndsIn, NoDoubles
        <4> QED
          BY <4>1, SlugsAreTheirOwn
      <3> QED
        BY <3>1 DEF SlugInit
    <2> QED
      BY <2>1, <2>2 DEF ServicesInit, ValuesInit, NoValues
  <1>3. [ServicesNext]_allVars =>
          /\ [ListsNext]_listVars /\ [NotificationsNext]_noticeVars
          /\ [UploadsNext]_uploadVars /\ [Next]_vars /\ [SlugNext]_slugVars
    BY ServicesStep
  <1> QED
    BY <1>1, <1>2, <1>3, PTL
    DEF ServicesSpec, ListsSpec, NotificationsSpec, UploadsSpec, Spec, SlugSpec, allVars

\* What the composition chooses at the start, and the CPF it may be about.
ChoicesOK ==
  /\ service \in {"lists", "notifications", "uploads", "values"}
  /\ object \in {"list", "cpf", "slug"}
  /\ CpfInv

LEMMA ChoicesHold == ServicesSpec => []ChoicesOK
  <1>1. ServicesInit => ChoicesOK
    <2>1. text = <<>> /\ made = NoObject /\ outcome = "waiting" /\ first = <<>> => CpfInv
      BY CleanEmpty, EmptySeq DEF CpfInv, CpfTypeOK, CpfFollowsRules
    <2> QED
      BY <2>1, CpfInitHolds DEF ServicesInit, ValuesInit, NoValues, ChoicesOK
  <1>2. ChoicesOK /\ [ServicesNext]_allVars => ChoicesOK'
    BY ServicesStep, CpfStepKeeps DEF ChoicesOK
  <1> QED
    BY <1>1, <1>2, PTL DEF ServicesSpec, allVars

\* Every variable of the four services keeps its type, for any tables, texts,
\* items and bounds.
THEOREM ServicesTypes == ServicesSpec => []ServicesTypeOK
  <1>1. /\ ChoicesOK /\ ListsTypeOK
        /\ NotificationsTypeOK /\ AnsweredIsRead /\ ReadByRecipient
        /\ UploadsTypeOK /\ AttachmentHasItsFile /\ OrphansAreFailures
        /\ TypeOK /\ DifferenceIsConsistent /\ OneUpdateIsExact
        /\ SlugTypeOK
        => ServicesTypeOK
    BY DEF ServicesTypeOK, ValuesTypeOK, ChoicesOK, CpfInv
  <1> QED
    BY <1>1, ServicesRunTheirParts, ChoicesHold, ListsTypes, NotificationsInvariant,
       UploadsInvariant, WatchedListInvariant, SlugsTypes, PTL

-----------------------------------------------------------------------------

(* The parts of the invariants, one by one *)

\* Only requests of its recipient mark a notification read, for any devices.
COROLLARY RecipientsRead == NotificationsSpec => []ReadByRecipient
  <1>1. (NotificationsTypeOK /\ AnsweredIsRead /\ ReadByRecipient) => ReadByRecipient
    OBVIOUS
  <1> QED
    BY <1>1, NotificationsInvariant, PTL

\* A file without an attachment is of an upload that is under way or failed.
COROLLARY OrphansHaveFailed == UploadsSpec => []OrphansAreFailures
  <1>1. (UploadsTypeOK /\ AttachmentHasItsFile /\ OrphansAreFailures) => OrphansAreFailures
    OBVIOUS
  <1> QED
    BY <1>1, UploadsInvariant, PTL

=============================================================================
