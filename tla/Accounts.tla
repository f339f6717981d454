------------------------------ MODULE Accounts ------------------------------
(***************************************************************************)
(* User accounts: three repositories over the tables users and user_roles. *)
(* A user is created by anyone, a courier or a recipient registered by an  *)
(* admin; couriers and recipients are any users, read through one mapper   *)
(* or the other.  As in Orders a request waits at a place (pc), and an     *)
(* action is one command of PostgreSQL or the code up to the next await.   *)
(***************************************************************************)
EXTENDS Integers, Sequences, FiniteSets

CONSTANTS
  Requests,        \* HTTP requests
  UserIds,         \* ids of users
  Cpfs,            \* eleven characters that may be a CPF
  ValidCpfs,       \* those whose check digits are right
  Emails,
  Passwords,
  Calls,           \* the calls that may arrive
  InitialAccounts, \* the rows of users at the start
  InitialRoles,    \* how many rows of user_roles each user has of each role
  Named,           \* users that an order or a notification names as recipient
  NoRow,           \* no row
  NoCall           \* a request that has not arrived

Roles == {"ADMIN", "COURIER", "RECIPIENT"}
Kinds == {"COURIER", "RECIPIENT"}
Ops == {"create", "login", "register", "get", "edit", "delete", "password"}
Creations == {"create", "register"}

\* A CPF as text: its digits, typed plain or with dots and a dash.
CpfTexts == Cpfs \X {"raw", "formatted"}

Rows == [cpf : CpfTexts, email : Emails, password : Passwords]
RoleRows == [Roles -> Nat]

\* What a request carries; an operation reads the fields it needs.
CallType ==
  [op : Ops, kind : Kinds, by : UserIds, user : UserIds, cpf : CpfTexts,
   email : Emails, password : Passwords, roles : RoleRows]

\* The body of a registration or an edit is refused unless its CPF is valid;
\* POST /users and /sessions take eleven characters.
ASSUME CallsAssumption ==
  /\ Calls \subseteq CallType
  /\ \A c \in Calls : c.op \in {"register", "edit"} => c.cpf[1] \in ValidCpfs
  /\ \A c \in Calls : c.op \in {"create", "login"} => c.cpf[2] = "raw"
ASSUME NullsAssumption == NoRow \notin Rows /\ NoCall \notin CallType
ASSUME InitialAssumption ==
  /\ InitialAccounts \in [UserIds -> Rows \cup {NoRow}]
  /\ InitialRoles \in [UserIds -> RoleRows]
  /\ \A u \in UserIds :
       IF InitialAccounts[u] = NoRow
       THEN \A role \in Roles : InitialRoles[u][role] = 0
       ELSE InitialAccounts[u].cpf[2] = "raw"
  /\ \A u, v \in UserIds :
       /\ InitialAccounts[u] # NoRow /\ InitialAccounts[v] # NoRow /\ u # v
       => InitialAccounts[u].cpf # InitialAccounts[v].cpf

VARIABLES
  accounts,  \* users table: row of each id, or NoRow
  roles,     \* user_roles table: rows of each user by role
  call,      \* what each request asked for
  pc,        \* where each request waits
  copy,      \* the row and the roles each request loaded and may write back
  result,    \* how each request was answered
  markedAggregates, domainEvents, handlersMap, raised, called

-----------------------------------------------------------------------------

Objects == Requests \X UserIds
EventClasses == {"CourierRegistered", "UserPasswordChanged"}

\* No module of the application provides a subscriber to these events.
Registry == INSTANCE DomainEvents WITH
  Aggregates <- Objects,
  Ids <- UserIds,
  IdOf <- [object \in Objects |-> object[2]],
  Classes <- EventClasses,
  Handlers <- {},
  MaxEvents <- 1

eventVars == <<markedAggregates, domainEvents, handlersMap, raised, called>>
vars == <<accounts, roles, call, pc, copy, result, eventVars>>

UserOf(r) == <<r, call[r].user>>

Waits == {"auth", "cpf", "email", "hash", "insert", "find", "update", "remove", "written"}
Results == {"none", "ok", "unauthorized", "wrongCredentials", "notFound",
            "conflict", "invalid", "error"}
Copies == [row : Rows, roles : RoleRows]

TypeOK ==
  /\ accounts \in [UserIds -> Rows \cup {NoRow}]
  /\ roles \in [UserIds -> RoleRows]
  /\ call \in [Requests -> CallType \cup {NoCall}]
  /\ pc \in [Requests -> {"idle", "done"} \cup Waits]
  /\ copy \in [Requests -> Copies \cup {NoRow}]
  /\ result \in [Requests -> Results]
  /\ Registry!TypeOK

Init ==
  /\ accounts = InitialAccounts
  /\ roles = InitialRoles
  /\ call = [r \in Requests |-> NoCall]
  /\ pc = [r \in Requests |-> "idle"]
  /\ copy = [r \in Requests |-> NoRow]
  /\ result = [r \in Requests |-> "none"]
  /\ Registry!Init

Goto(r, place) == /\ pc' = [pc EXCEPT ![r] = place]
                  /\ UNCHANGED result

Finish(r, answer) == /\ pc' = [pc EXCEPT ![r] = "done"]
                     /\ result' = [result EXCEPT ![r] = answer]

\* A creation names the fresh UUID its user will get.
Receive(r) ==
  /\ pc[r] = "idle"
  /\ \E c \in Calls :
       /\ c.op \in Creations =>
            /\ accounts[c.user] = NoRow
            /\ \A q \in Requests : call[q] # NoCall => call[q].user # c.user
       /\ call' = [call EXCEPT ![r] = c]
       /\ Goto(r, IF c.op \in {"create", "login"} THEN "cpf" ELSE "auth")
  /\ UNCHANGED <<accounts, roles, copy, eventVars>>

VerifyRole(r) ==
  /\ pc[r] = "auth"
  /\ LET by == call[r].by IN
     IF accounts[by] # NoRow /\ roles[by]["ADMIN"] > 0
     THEN Goto(r, IF call[r].op = "register" THEN "cpf" ELSE "find")
     ELSE Finish(r, "unauthorized")
  /\ UNCHANGED <<accounts, roles, call, copy, eventVars>>

-----------------------------------------------------------------------------

(* Creating a user, registering a courier or a recipient: lookups, the hash  *)
(* of the password, the INSERT.                                              *)

\* PrismaCourierMapper.toDomain calls Courier.create, which raises an event on
\* every read; the other mappers raise none.
LoadKind(r, user) ==
  IF call[r].kind = "COURIER"
  THEN Registry!AddDomainEvents(<<r, user>>, <<"CourierRegistered">>)
  ELSE UNCHANGED eventVars

\* The lookup compares the text of the request with the column.
WithCpf(text) == {u \in UserIds : accounts[u] # NoRow /\ accounts[u].cpf = text}

FindByCpf(r) ==
  /\ pc[r] = "cpf" /\ call[r].op = "create"
  /\ IF WithCpf(call[r].cpf) # {} THEN Finish(r, "conflict") ELSE Goto(r, "email")
  /\ UNCHANGED <<accounts, roles, call, copy, eventVars>>

FindByEmail(r) ==
  /\ pc[r] = "email"
  /\ IF \E u \in UserIds : accounts[u] # NoRow /\ accounts[u].email = call[r].email
     THEN Finish(r, "conflict")
     ELSE Goto(r, "hash")
  /\ UNCHANGED <<accounts, roles, call, copy, eventVars>>

\* The CPF is looked at once the password is hashed.
CreateUser(r) ==
  /\ pc[r] = "hash" /\ call[r].op = "create"
  /\ IF call[r].cpf[1] \in ValidCpfs THEN Goto(r, "insert") ELSE Finish(r, "invalid")
  /\ UNCHANGED <<accounts, roles, call, copy, eventVars>>

\* A registration looks for its CPF and not for its e-mail.
FindSameCpf(r) ==
  /\ pc[r] = "cpf" /\ call[r].op = "register"
  /\ \/ /\ WithCpf(call[r].cpf) = {}
        /\ Goto(r, "hash")
        /\ UNCHANGED eventVars
     \/ \E user \in WithCpf(call[r].cpf) :
        /\ Finish(r, "conflict")
        /\ LoadKind(r, user)
  /\ UNCHANGED <<accounts, roles, call, copy>>

\* Courier.create or Recipient.create.
Register(r) ==
  /\ pc[r] = "hash" /\ call[r].op = "register"
  /\ LoadKind(r, call[r].user)
  /\ Goto(r, "insert")
  /\ UNCHANGED <<accounts, roles, call, copy>>

\* A mapper that writes the CPF as it was typed.
CleanNothing(text) == text

\* CPF.create keeps the digits, and getRaw writes them.
Clean(text) == <<text[1], "raw">>

\* A users table without a unique index on cpf.
AcceptsAnyCpf(u, row) ==
  \A v \in UserIds \ {u} : accounts[v] # NoRow => accounts[v].email # row.email

\* The unique indexes of users.
Accepts(u, row) ==
  \A v \in UserIds \ {u} :
    accounts[v] # NoRow => accounts[v].cpf # row.cpf /\ accounts[v].email # row.email

\* The role rows toPrisma nests in every write of a courier or a recipient.
OneRole(kind) == [role \in Roles |-> IF role = kind THEN 1 ELSE 0]

\* The row and its role rows are one nested write, a transaction.
Insert(r, given) ==
  LET u == call[r].user
      row == [cpf |-> Clean(call[r].cpf), email |-> call[r].email,
              password |-> call[r].password]
  IN /\ Accepts(u, row)
     /\ accounts' = [accounts EXCEPT ![u] = row]
     /\ roles' = [roles EXCEPT ![u] = given]
     /\ UNCHANGED <<call, copy, eventVars>>

InsertUser(r) ==
  /\ pc[r] = "insert" /\ call[r].op = "create"
  /\ Insert(r, call[r].roles)
  /\ Finish(r, "ok")

InsertRegistered(r) ==
  /\ pc[r] = "insert" /\ call[r].op = "register"
  /\ Insert(r, OneRole(call[r].kind))
  /\ Goto(r, "written")

\* A duplicate the lookups missed is an error of the database.
InsertRefused(r) ==
  /\ pc[r] = "insert"
  /\ ~Accepts(call[r].user, [cpf |-> Clean(call[r].cpf), email |-> call[r].email])
  /\ Finish(r, "error")
  /\ UNCHANGED <<accounts, roles, call, copy, eventVars>>

-----------------------------------------------------------------------------

(* Reading, editing and deleting couriers and recipients, changing a         *)
(* password: findById, then the write of what was loaded.                    *)

NotFound(r) ==
  /\ pc[r] = "find"
  /\ accounts[call[r].user] = NoRow
  /\ Finish(r, "notFound")
  /\ UNCHANGED <<accounts, roles, call, copy, eventVars>>

Load(r, row) == copy' = [copy EXCEPT ![r] = [row |-> row, roles |-> roles[call[r].user]]]

GetUser(r) ==
  /\ pc[r] = "find" /\ call[r].op = "get"
  /\ accounts[call[r].user] # NoRow
  /\ LoadKind(r, call[r].user)
  /\ Finish(r, "ok")
  /\ UNCHANGED <<accounts, roles, call, copy>>

\* An edit that does not ask whether the user was found.
EditUnchecked(r) ==
  /\ pc[r] = "find" /\ call[r].op = "edit"
  /\ Load(r, accounts[call[r].user])
  /\ LoadKind(r, call[r].user)
  /\ Goto(r, "update")
  /\ UNCHANGED <<accounts, roles, call>>

\* The setters follow the read without an await.
Edit(r) ==
  /\ pc[r] = "find" /\ call[r].op = "edit"
  /\ LET row == accounts[call[r].user] IN
     /\ row # NoRow
     /\ Load(r, [row EXCEPT !.cpf = Clean(call[r].cpf), !.email = call[r].email])
  /\ LoadKind(r, call[r].user)
  /\ Goto(r, "update")
  /\ UNCHANGED <<accounts, roles, call>>

Delete(r) ==
  /\ pc[r] = "find" /\ call[r].op = "delete"
  /\ accounts[call[r].user] # NoRow
  /\ LoadKind(r, call[r].user)
  /\ Goto(r, "remove")
  /\ UNCHANGED <<accounts, roles, call, copy>>

\* PrismaUsersRepository.findById reads the roles with the row.
FindUser(r) ==
  /\ pc[r] = "find" /\ call[r].op = "password"
  /\ accounts[call[r].user] # NoRow
  /\ Load(r, accounts[call[r].user])
  /\ Goto(r, "hash")
  /\ UNCHANGED <<accounts, roles, call, eventVars>>

\* A password that is set on the entity and not on its row.
ChangePasswordUnsaved(r) ==
  /\ pc[r] = "hash" /\ call[r].op = "password"
  /\ Registry!AddDomainEvents(UserOf(r), <<"UserPasswordChanged">>)
  /\ Goto(r, "update")
  /\ UNCHANGED <<accounts, roles, call, copy>>

\* User.changePassword, once the hash is there.
ChangePassword(r) ==
  /\ pc[r] = "hash" /\ call[r].op = "password"
  /\ copy' = [copy EXCEPT ![r].row.password = call[r].password]
  /\ Registry!AddDomainEvents(UserOf(r), <<"UserPasswordChanged">>)
  /\ Goto(r, "update")
  /\ UNCHANGED <<accounts, roles, call>>

\* A save that inserts a row which is not there.
UpsertRow(r, added) ==
  LET u == call[r].user IN
  /\ Accepts(u, copy[r].row)
  /\ accounts' = [accounts EXCEPT ![u] = copy[r].row]
  /\ roles' = [roles EXCEPT ![u] = [role \in Roles |-> roles[u][role] + added[role]]]
  /\ UNCHANGED <<call, copy, eventVars>>

\* The UPDATE of save writes every column of the entity and inserts the role
\* rows toPrisma nests in it.
UpdateRow(r, added) ==
  LET u == call[r].user IN
  /\ accounts[u] # NoRow /\ Accepts(u, copy[r].row)
  /\ accounts' = [accounts EXCEPT ![u] = copy[r].row]
  /\ roles' = [roles EXCEPT ![u] = [role \in Roles |-> roles[u][role] + added[role]]]
  /\ UNCHANGED <<call, copy, eventVars>>

\* A PrismaUserMapper that writes COURIER whatever the roles.
SaveUserAsCourier(r) ==
  /\ pc[r] = "update" /\ call[r].op = "password"
  /\ UpdateRow(r, OneRole("COURIER"))
  /\ Finish(r, "ok")

\* The roles of the user are inserted again, and nothing is dispatched.
SaveUser(r) ==
  /\ pc[r] = "update" /\ call[r].op = "password"
  /\ UpdateRow(r, copy[r].roles)
  /\ Finish(r, "ok")

SaveEdited(r) ==
  /\ pc[r] = "update" /\ call[r].op = "edit"
  /\ UpdateRow(r, OneRole(call[r].kind))
  /\ Goto(r, "written")

\* The user was deleted, or the CPF or the e-mail is taken.
SaveRefused(r) ==
  /\ pc[r] = "update"
  /\ accounts[call[r].user] = NoRow \/ ~Accepts(call[r].user, copy[r].row)
  /\ Finish(r, "error")
  /\ UNCHANGED <<accounts, roles, call, copy, eventVars>>

\* A repository that clears the events of the entity it saved.
DispatchClearing(r) ==
  /\ pc[r] = "written"
  /\ domainEvents' = [domainEvents EXCEPT ![UserOf(r)] = <<>>]
  /\ Finish(r, "ok")
  /\ UNCHANGED <<accounts, roles, call, copy, markedAggregates, handlersMap, raised, called>>

\* create and save of couriers and recipients end with a dispatch by id.
Dispatch(r) ==
  /\ pc[r] = "written"
  /\ Registry!DispatchEventsForAggregate(call[r].user)
  /\ Finish(r, "ok")
  /\ UNCHANGED <<accounts, roles, call, copy>>

\* The role rows go with the user (ON DELETE CASCADE); the recipient of an
\* order or of a notification cannot go (RESTRICT).
Remove(r) ==
  /\ pc[r] = "remove"
  /\ LET u == call[r].user IN
     IF accounts[u] # NoRow /\ u \notin Named
     THEN /\ accounts' = [accounts EXCEPT ![u] = NoRow]
          /\ roles' = [roles EXCEPT ![u] = [role \in Roles |-> 0]]
          /\ Finish(r, "ok")
     ELSE Finish(r, "error") /\ UNCHANGED <<accounts, roles>>
  /\ UNCHANGED <<call, copy, eventVars>>

\* AuthenticateUseCase reads once; comparing the hash and signing the token
\* use what was read.
Login(r) ==
  /\ pc[r] = "cpf" /\ call[r].op = "login"
  /\ Finish(r, IF \E u \in WithCpf(call[r].cpf) : accounts[u].password = call[r].password
               THEN "ok" ELSE "wrongCredentials")
  /\ UNCHANGED <<accounts, roles, call, copy, eventVars>>

-----------------------------------------------------------------------------

Step(r) ==
  \/ VerifyRole(r)
  \/ FindByCpf(r) \/ FindByEmail(r) \/ CreateUser(r) \/ InsertUser(r)
  \/ FindSameCpf(r) \/ Register(r) \/ InsertRegistered(r) \/ InsertRefused(r)
  \/ NotFound(r) \/ GetUser(r)
  \/ Edit(r) \/ SaveEdited(r) \/ SaveRefused(r) \/ Dispatch(r)
  \/ Delete(r) \/ Remove(r)
  \/ FindUser(r) \/ ChangePassword(r) \/ SaveUser(r)
  \/ Login(r)

Next == \E r \in Requests : Receive(r) \/ Step(r)

Spec == Init /\ [][Next]_vars

-----------------------------------------------------------------------------

(* Safety *)

\* The command of the request that changes the tables has been carried out.
Written(r) == result[r] = "ok" \/ pc[r] = "written"

\* One account for each CPF, however its digits were typed: the lookup by text
\* misses a formatted duplicate, so this rests on what is written and on the
\* unique index.
OneAccountPerCpf ==
  \A u, v \in UserIds :
    /\ accounts[u] # NoRow /\ accounts[v] # NoRow /\ u # v
    => accounts[u].cpf[1] # accounts[v].cpf[1]

\* Of overlapping creations with one CPF one succeeds: a second needs an edit
\* or a deletion of the first account.
OneCreationPerCpf ==
  \A r, q \in Requests :
    /\ r # q /\ Written(r) /\ Written(q)
    /\ call[r].op \in Creations /\ call[q].op \in Creations
    /\ call[r].cpf[1] = call[q].cpf[1]
    => \E s \in Requests : /\ Written(s) /\ call[s].op \in {"edit", "delete"}
                           /\ call[s].user \in {call[r].user, call[q].user}

\* No account has a role it was not given: the save of a changed password,
\* which writes role rows too, repeats those the account has.
RolesAreGiven ==
  \A u \in UserIds, role \in Roles :
    roles[u][role] > 0 =>
      \/ InitialRoles[u][role] > 0
      \/ \E r \in Requests :
           /\ Written(r) /\ call[r].user = u
           /\ \/ call[r].op = "create" /\ call[r].roles[role] > 0
              \/ call[r].op \in {"register", "edit"} /\ call[r].kind = role

\* A password change that was answered is undone only by a request that wrote
\* back another password: one changed at the same time, or the one an edit
\* had loaded before.
PasswordLossNeedsRival ==
  \A r \in Requests :
    LET u == call[r].user IN
    /\ result[r] = "ok" /\ call[r].op = "password"
    /\ accounts[u] # NoRow /\ accounts[u].password # call[r].password
    => \E q \in Requests \ {r} :
         /\ Written(q) /\ call[q].user = u /\ call[q].op \in {"edit", "password"}
         /\ copy[q].row.password # call[r].password

\* What was deleted stays deleted, with its roles: a save of a copy loaded
\* before the deletion brings nothing back.
DeletedStaysDeleted ==
  \A r \in Requests :
    result[r] = "ok" /\ call[r].op = "delete" =>
      /\ accounts[call[r].user] = NoRow
      /\ \A role \in Roles : roles[call[r].user][role] = 0

\* Every step of the accounts is a step of the event registry or leaves it
\* alone, though three repositories raise, mark and dispatch under one id.
RegistrySpec == Registry!Spec

=============================================================================
