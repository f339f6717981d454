------------------------------- MODULE Uploads -------------------------------
(***************************************************************************)
(* POST /attachments: a file is put into the R2 bucket and a row into the  *)
(* table attachments, two commands without a transaction, for several      *)
(* uploads at once.                                                        *)
(***************************************************************************)
EXTENDS FiniteSets

CONSTANTS
  Uploaders,   \* clients, each of which uploads one file
  FileNames,
  Uuids,       \* what randomUUID may return
  NoFile       \* no object under a key, or nothing uploaded yet

\* "image/jpg" passes the pipe of the controller and not the use case.
FileTypes == {"image/jpeg", "image/png", "application/pdf", "image/jpg", "text/plain"}
Files == [name : FileNames, type : FileTypes, big : BOOLEAN]

ASSUME NoFileAssumption == NoFile \notin Files /\ NoFile \notin Uploaders

VARIABLES
  bucket,       \* whose file is stored under each key
  attachments,  \* attachments table: the upload a row is of and its url
  file,         \* what each client uploads
  place,        \* where its request waits, or how it was answered
  uuid          \* the random part of its key

uploadVars == <<bucket, attachments, file, place, uuid>>

Keys == Uuids \X FileNames

UploadsTypeOK ==
  /\ bucket \in [Keys -> Uploaders \cup {NoFile}]
  /\ attachments \subseteq [of : Uploaders, url : Keys]
  /\ file \in [Uploaders -> Files \cup {NoFile}]
  /\ place \in [Uploaders -> {"idle", "put", "insert", "created", "badRequest", "error"}]
  /\ uuid \in [Uploaders -> Uuids \cup {NoFile}]

UploadsInit ==
  /\ bucket = [k \in Keys |-> NoFile]
  /\ attachments = {}
  /\ file = [c \in Uploaders |-> NoFile]
  /\ place = [c \in Uploaders |-> "idle"]
  /\ uuid = [c \in Uploaders |-> NoFile]

-----------------------------------------------------------------------------

\* ParseFilePipe: the pattern is searched for in the type of the file.
PassesPipe(f) == ~f.big /\ f.type # "text/plain"

\* UploadAndCreateAttachmentUseCase takes these types.
PassesUseCase(f) == f.type \in {"image/jpeg", "image/png", "application/pdf"}

\* randomUUID returns what it has not returned before.
Upload(c) ==
  /\ place[c] = "idle"
  /\ \E f \in Files :
       /\ file' = [file EXCEPT ![c] = f]
       /\ IF PassesPipe(f) /\ PassesUseCase(f)
          THEN /\ \E id \in Uuids \ {uuid[d] : d \in Uploaders} :
                    uuid' = [uuid EXCEPT ![c] = id]
               /\ place' = [place EXCEPT ![c] = "put"]
          ELSE /\ place' = [place EXCEPT ![c] = "badRequest"]
               /\ UNCHANGED uuid
  /\ UNCHANGED <<bucket, attachments>>

\* A storage that keeps the name of the file as it is.
KeyByName(c) == <<CHOOSE id \in Uuids : TRUE, file[c].name>>

KeyOf(c) == <<uuid[c], file[c].name>>

\* The PutObjectCommand.
Put(c) ==
  /\ place[c] = "put"
  /\ bucket' = [bucket EXCEPT ![KeyOf(c)] = c]
  /\ place' = [place EXCEPT ![c] = "insert"]
  /\ UNCHANGED <<attachments, file, uuid>>

\* A use case that answers without the INSERT.
InsertForgotten(c) ==
  /\ place[c] = "insert"
  /\ place' = [place EXCEPT ![c] = "created"]
  /\ UNCHANGED <<bucket, attachments, file, uuid>>

\* The INSERT of the row, which belongs to no order yet.
InsertAttachment(c) ==
  /\ place[c] = "insert"
  /\ attachments' = attachments \cup {[of |-> c, url |-> KeyOf(c)]}
  /\ place' = [place EXCEPT ![c] = "created"]
  /\ UNCHANGED <<bucket, file, uuid>>

\* The bucket or the database fails, or the process goes down with the request;
\* the command may have been carried out, and nothing takes anything back.
UploadFails(c) ==
  /\ place' = [place EXCEPT ![c] = "error"]
  /\ \/ /\ place[c] = "put"
        /\ bucket' \in {bucket, [bucket EXCEPT ![KeyOf(c)] = c]}
        /\ UNCHANGED attachments
     \/ /\ place[c] = "insert"
        /\ attachments' \in {attachments, attachments \cup {[of |-> c, url |-> KeyOf(c)]}}
        /\ UNCHANGED bucket
  /\ UNCHANGED <<file, uuid>>

UploadsNext ==
  \E c \in Uploaders : Upload(c) \/ Put(c) \/ InsertAttachment(c) \/ UploadFails(c)

UploadsSpec == UploadsInit /\ [][UploadsNext]_uploadVars

-----------------------------------------------------------------------------

\* The url of an attachment leads to the file that was uploaded for it, also
\* when other uploads of the same name overlap or fail half way.
AttachmentHasItsFile ==
  \A a \in attachments : bucket[a.url] = a.of /\ a.url[2] = file[a.of].name

\* A file that no attachment refers to is of an upload that is under way or
\* was answered with an error.
OrphansAreFailures ==
  \A k \in Keys :
    bucket[k] # NoFile /\ (\A a \in attachments : a.url # k) =>
      place[bucket[k]] \in {"insert", "error"}

=============================================================================
