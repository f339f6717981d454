--------------------------- MODULE AccountsProofs ---------------------------
(***************************************************************************)
(* Proofs about Accounts, for any requests, users, CPFs and calls.         *)
(***************************************************************************)
EXTENDS Accounts, TLAPS

\* The proofs about the registry, with the parameters Accounts gives it.
RegistryProofs == INSTANCE DomainEventsProofs WITH
  Aggregates <- Objects,
  Ids <- UserIds,
  IdOf <- [object \in Objects |-> object[2]],
  Classes <- EventClasses,
  Handlers <- {},
  MaxEvents <- 1

-----------------------------------------------------------------------------

(* The inductive invariant, part by part. *)

\* TypeOK without the registry's.
TableTypes ==
  /\ accounts \in [UserIds -> Rows \cup {NoRow}]
  /\ roles \in [UserIds -> RoleRows]

RequestTypes ==
  /\ call \in [Requests -> CallType \cup {NoCall}]
  /\ pc \in [Requests -> {"idle", "done"} \cup Waits]
  /\ copy \in [Requests -> Copies \cup {NoRow}]
  /\ result \in [Requests -> Results]

\* Which operation can be at which place.
Fits(place, c) ==
  /\ place = "auth" => c.op \notin {"create", "login"}
  /\ place = "cpf" => c.op \in Creations \cup {"login"}
  /\ place = "email" => c.op = "create"
  /\ place = "hash" => c.op \in Creations \cup {"password"}
  /\ place = "insert" => c.op \in Creations
  /\ place = "find" => c.op \in {"get", "edit", "delete", "password"}
  /\ place = "update" => c.op \in {"edit", "password"}
  /\ place = "remove" => c.op = "delete"
  /\ place = "written" => c.op \in {"register", "edit"}

\* A password change that holds a copy it will write back.
Held(r) == call[r] # NoCall /\ call[r].op = "password" /\ pc[r] \in {"hash", "update"}

ControlOf(r) ==
  /\ pc[r] = "idle" <=> call[r] = NoCall
  /\ pc[r] # "done" => result[r] = "none"
  /\ Fits(pc[r], call[r])
  /\ Held(r) \/ pc[r] = "update" => copy[r] \in Copies /\ copy[r].row.cpf[2] = "raw"
  /\ Held(r) /\ pc[r] = "update" => copy[r].row.password = call[r].password

\* A creation that has not inserted its row.
Pending(r) ==
  /\ call[r] # NoCall /\ call[r].op \in Creations
  /\ pc[r] \in {"auth", "cpf", "email", "hash", "insert"}

\* The request has found its user, or has done with it.
Reached(r) == pc[r] \in {"hash", "update", "remove", "written"} \/ result[r] = "ok"

\* The id of a pending creation names no row, no other creation has it, and no
\* request has found a user of that id.
FreshIds ==
  /\ \A r \in Requests : Pending(r) => accounts[call[r].user] = NoRow
  /\ \A r, q \in Requests :
       /\ call[r] # NoCall /\ call[q] # NoCall /\ r # q
       /\ call[r].op \in Creations /\ call[q].op \in Creations
       => call[r].user # call[q].user
  /\ \A r, q \in Requests :
       /\ Pending(r) /\ call[q] # NoCall /\ r # q
       /\ call[q].user = call[r].user /\ call[q].op # "login"
       => ~Reached(q)

\* Columns hold the digits of a CPF, and the unique index holds.
CleanAndUnique ==
  /\ \A u \in UserIds : accounts[u] # NoRow => accounts[u].cpf[2] = "raw"
  /\ \A u, v \in UserIds :
       /\ accounts[u] # NoRow /\ accounts[v] # NoRow /\ u # v
       => accounts[u].cpf # accounts[v].cpf

\* The user was given the role.
Given(u, role) ==
  \/ InitialRoles[u][role] > 0
  \/ \E r \in Requests :
       /\ Written(r) /\ call[r].user = u
       /\ \/ call[r].op = "create" /\ call[r].roles[role] > 0
          \/ call[r].op \in {"register", "edit"} /\ call[r].kind = role

\* A copy that will be written back holds roles that were given.
CopiesGiven ==
  \A r \in Requests, role \in Roles :
    Held(r) /\ copy[r].roles[role] > 0 => Given(call[r].user, role)

\* A created account keeps its CPF, in its row and in the copies a password
\* change holds, until an edit or a deletion.
CreationHolds ==
  \A r \in Requests :
    call[r] # NoCall /\ call[r].op \in Creations /\ Written(r) =>
      LET u == call[r].user IN
      \/ \E s \in Requests :
           /\ call[s] # NoCall /\ Written(s)
           /\ call[s].op \in {"edit", "delete"} /\ call[s].user = u
      \/ /\ accounts[u] # NoRow /\ accounts[u].cpf = Clean(call[r].cpf)
         /\ \A q \in Requests :
              Held(q) /\ call[q].user = u => copy[q].row.cpf = Clean(call[r].cpf)

AccountsInv ==
  /\ TableTypes
  /\ RequestTypes
  /\ \A r \in Requests : ControlOf(r)
  /\ FreshIds
  /\ CleanAndUnique
  /\ RolesAreGiven
  /\ CopiesGiven
  /\ PasswordLossNeedsRival
  /\ DeletedStaysDeleted
  /\ CreationHolds

-----------------------------------------------------------------------------

(* What every step of a request has in common. *)

LEMMA Going ==
  ASSUME RequestTypes, NEW r \in Requests, NEW place \in Waits, Goto(r, place)
  PROVE  /\ pc' \in [Requests -> {"idle", "done"} \cup Waits]
         /\ pc'[r] = place
         /\ \A q \in Requests \ {r} : pc'[q] = pc[q]
         /\ result' = result
         /\ result' \in [Requests -> Results]
  BY DEF RequestTypes, Goto

LEMMA Finishing ==
  ASSUME RequestTypes, NEW r \in Requests, NEW answer \in Results, Finish(r, answer)
  PROVE  /\ pc' \in [Requests -> {"idle", "done"} \cup Waits]
         /\ pc'[r] = "done"
         /\ \A q \in Requests \ {r} : pc'[q] = pc[q]
         /\ result' \in [Requests -> Results]
         /\ result'[r] = answer
         /\ \A q \in Requests \ {r} : result'[q] = result[q]
  BY DEF RequestTypes, Finish

LEMMA CallParts ==
  ASSUME RequestTypes, NEW r \in Requests, call[r] # NoCall
  PROVE  /\ call[r] \in CallType
         /\ call[r].op \in Ops
         /\ call[r].kind \in Kinds
         /\ call[r].by \in UserIds
         /\ call[r].user \in UserIds
         /\ call[r].cpf \in CpfTexts
         /\ call[r].email \in Emails
         /\ call[r].password \in Passwords
         /\ call[r].roles \in RoleRows
  BY DEF RequestTypes, CallType

\* The request moves to another place and touches no other request; what it
\* wrote stays written, it reaches a user it finds, and makes none but its own.
Moves(r) ==
  /\ pc[r] \in Waits
  /\ call' = call
  /\ \A q \in Requests \ {r} :
       pc'[q] = pc[q] /\ copy'[q] = copy[q] /\ result'[q] = result[q]
  /\ Written(r) => Written(r)'
  /\ Pending(r)' => Pending(r)
  /\ Reached(r)' /\ call[r].op \notin Creations \cup {"login"} =>
       Reached(r) \/ accounts[call[r].user] # NoRow
  /\ \A u \in UserIds : accounts[u] = NoRow /\ accounts'[u] # NoRow =>
       call[r].op \in Creations /\ call[r].user = u /\ ~Pending(r)'

LEMMA WrittenStays ==
  ASSUME NEW r \in Requests, Moves(r)
  PROVE  /\ \A q \in Requests : Written(q) => Written(q)'
         /\ \A u \in UserIds, role \in Roles : Given(u, role) => Given(u, role)'
  <1>1. ASSUME NEW q \in Requests, Written(q)
        PROVE  Written(q)'
    BY <1>1 DEF Moves, Written
  <1>2. ASSUME NEW u \in UserIds, NEW role \in Roles, Given(u, role)
        PROVE  Given(u, role)'
    BY <1>1, <1>2 DEF Given, Moves
  <1> QED
    BY <1>1, <1>2

LEMMA MovesPreserves ==
  ASSUME AccountsInv, NEW r \in Requests, Moves(r), ControlOf(r)'
  PROVE  FreshIds' /\ \A q \in Requests : ControlOf(q)'
  <1> USE DEF AccountsInv
  <1>1. /\ call' = call
        /\ \A q \in Requests \ {r} :
             pc'[q] = pc[q] /\ copy'[q] = copy[q] /\ result'[q] = result[q]
    BY DEF Moves
  <1>2. \A q \in Requests : ControlOf(q)'
    BY <1>1 DEF ControlOf, Held
  <1>3. call[r] # NoCall
    BY DEF Moves, ControlOf, Waits
  <1>4. \A q \in Requests : Pending(q)' => Pending(q)
    BY <1>1 DEF Pending, Moves
  <1>5. ASSUME NEW q \in Requests, Pending(q)'
        PROVE  accounts'[call[q].user] = NoRow
    <2>1. Pending(q) /\ call[q].user \in UserIds /\ accounts[call[q].user] = NoRow
      BY <1>4, <1>5, CallParts DEF FreshIds, Pending
    <2> SUFFICES ASSUME accounts'[call[q].user] # NoRow PROVE FALSE
      OBVIOUS
    <2>2. call[r].op \in Creations /\ call[r].user = call[q].user /\ ~Pending(r)'
      BY <2>1 DEF Moves
    <2>3. q # r
      BY <1>5, <2>2
    <2> QED
      BY <2>1, <2>2, <2>3, <1>3 DEF FreshIds, Pending
  <1>6. ASSUME NEW p \in Requests, NEW q \in Requests, Pending(p)', call[q] # NoCall,
               p # q, call[q].user = call[p].user, call[q].op # "login", Reached(q)'
        PROVE  FALSE
    <2>1. Pending(p) /\ ~Reached(q) /\ accounts[call[p].user] = NoRow
      BY <1>4, <1>6 DEF FreshIds
    <2>2. q = r
      BY <2>1, <1>1, <1>6 DEF Reached
    <2>3. call[q].op \notin Creations
      BY <2>1, <1>6 DEF FreshIds, Pending
    <2> QED
      BY <2>1, <2>2, <2>3, <1>6 DEF Moves
  <1>7. FreshIds'
    BY <1>1, <1>5, <1>6 DEF FreshIds
  <1> QED
    BY <1>2, <1>7

-----------------------------------------------------------------------------

(* Steps that leave the tables alone. *)

\* It has written nothing it had not, and a password change holds what it held
\* or what it has just read.
Quiet(r) ==
  /\ Moves(r)
  /\ UNCHANGED <<accounts, roles>>
  /\ Written(r) => copy'[r] = copy[r]
  /\ Written(r)' => Written(r) \/ call[r].op \in {"login", "get"}
  /\ Held(r)' =>
       \/ /\ Held(r)
          /\ copy'[r].row.cpf = copy[r].row.cpf /\ copy'[r].roles = copy[r].roles
       \/ /\ accounts[call[r].user] # NoRow
          /\ copy'[r].row.cpf = accounts[call[r].user].cpf
          /\ copy'[r].roles = roles[call[r].user]

LEMMA QuietPreserves ==
  ASSUME AccountsInv, NEW r \in Requests, Quiet(r), RequestTypes', ControlOf(r)'
  PROVE  AccountsInv'
  <1> USE DEF AccountsInv
  <1>1. /\ Moves(r) /\ call' = call
        /\ accounts' = accounts /\ roles' = roles
        /\ \A q \in Requests \ {r} :
             pc'[q] = pc[q] /\ copy'[q] = copy[q] /\ result'[q] = result[q]
        /\ call[r] # NoCall /\ pc[r] # "done"
    BY DEF Quiet, Moves, ControlOf, Waits
  <1>2. /\ FreshIds' /\ \A q \in Requests : ControlOf(q)'
        /\ \A q \in Requests : Written(q) => Written(q)'
        /\ \A u \in UserIds, role \in Roles : Given(u, role) => Given(u, role)'
    BY <1>1, MovesPreserves, WrittenStays
  <1>3. call[r].user \in UserIds
    BY <1>1, CallParts
  <1>4. TableTypes' /\ CleanAndUnique'
    BY <1>1 DEF TableTypes, CleanAndUnique
  <1>5. RolesAreGiven'
    BY <1>1, <1>2 DEF RolesAreGiven, Given
  <1>6. CopiesGiven'
    <2> SUFFICES ASSUME NEW q \in Requests, NEW role \in Roles,
                        Held(q)', copy'[q].roles[role] > 0
                 PROVE  Given(call[q].user, role)'
      BY <1>1 DEF CopiesGiven
    <2>1. call[q].user \in UserIds
      BY <1>1, CallParts DEF Held
    <2>2. CASE q # r
      BY <2>1, <2>2, <1>1, <1>2 DEF CopiesGiven, Held
    <2>3. CASE q = r
      <3>1. \/ Held(r) /\ copy'[r].roles = copy[r].roles
            \/ copy'[r].roles = roles[call[r].user]
        BY <2>3 DEF Quiet
      <3>2. Given(call[r].user, role)
        BY <3>1, <2>3, <1>3 DEF CopiesGiven, RolesAreGiven, Given
      <3> QED
        BY <3>2, <2>1, <2>3, <1>1, <1>2
    <2> QED
      BY <2>2, <2>3
  <1>7. PasswordLossNeedsRival'
    <2> SUFFICES ASSUME NEW p \in Requests, result'[p] = "ok", call[p].op = "password",
                        accounts[call[p].user] # NoRow,
                        accounts[call[p].user].password # call[p].password
                 PROVE  \E q \in Requests \ {p} :
                          /\ Written(q)' /\ call[q].user = call[p].user
                          /\ call[q].op \in {"edit", "password"}
                          /\ copy'[q].row.password # call[p].password
      BY <1>1 DEF PasswordLossNeedsRival
    <2>1. result[p] = "ok"
      BY <1>1 DEF Quiet, Written, ControlOf, Fits, Waits
    <2>2. PICK q \in Requests \ {p} :
            /\ Written(q) /\ call[q].user = call[p].user
            /\ call[q].op \in {"edit", "password"}
            /\ copy[q].row.password # call[p].password
      BY <2>1 DEF PasswordLossNeedsRival
    <2>3. copy'[q] = copy[q]
      BY <2>2, <1>1 DEF Quiet
    <2> QED
      BY <2>2, <2>3, <1>2
  <1>8. DeletedStaysDeleted'
    <2>1. ASSUME NEW p \in Requests, result'[p] = "ok", call[p].op = "delete"
          PROVE  result[p] = "ok"
      BY <1>1, <2>1 DEF Quiet, Written, ControlOf, Fits, Waits
    <2> QED
      BY <1>1, <2>1 DEF DeletedStaysDeleted
  <1>9. CreationHolds'
    <2> SUFFICES ASSUME NEW p \in Requests, call[p] # NoCall, call[p].op \in Creations,
                        Written(p)',
                        ~\E s \in Requests :
                           /\ call[s] # NoCall /\ Written(s)'
                           /\ call[s].op \in {"edit", "delete"}
                           /\ call[s].user = call[p].user
                 PROVE  /\ accounts[call[p].user] # NoRow
                        /\ accounts[call[p].user].cpf = Clean(call[p].cpf)
                        /\ \A q \in Requests : Held(q)' /\ call[q].user = call[p].user =>
                             copy'[q].row.cpf = Clean(call[p].cpf)
      BY <1>1 DEF CreationHolds
    <2>1. Written(p)
      BY <1>1 DEF Quiet, Written, Creations
    <2>2. /\ accounts[call[p].user] # NoRow
          /\ accounts[call[p].user].cpf = Clean(call[p].cpf)
          /\ \A q \in Requests : Held(q) /\ call[q].user = call[p].user =>
               copy[q].row.cpf = Clean(call[p].cpf)
      BY <2>1, <1>2 DEF CreationHolds
    <2>3. ASSUME NEW q \in Requests, Held(q)', call[q].user = call[p].user
          PROVE  copy'[q].row.cpf = Clean(call[p].cpf)
      <3>1. CASE q # r
        BY <2>2, <2>3, <3>1, <1>1 DEF Held
      <3>2. CASE q = r
        BY <2>2, <2>3, <3>2 DEF Quiet
      <3> QED
        BY <3>1, <3>2
    <2> QED
      BY <2>2, <2>3
  <1> QED
    BY <1>2, <1>4, <1>5, <1>6, <1>7, <1>8, <1>9

\* A quiet step to another place.
LEMMA Advance ==
  ASSUME AccountsInv, NEW r \in Requests, NEW place \in Waits \ {"written"},
         pc[r] \in Waits \ {"written"}, Goto(r, place), Fits(place, call[r]),
         UNCHANGED <<accounts, roles, call>>,
         copy' \in [Requests -> Copies \cup {NoRow}],
         \A q \in Requests \ {r} : copy'[q] = copy[q],
         place \in {"hash", "update", "remove"} /\ call[r].op \notin Creations =>
           pc[r] \in {"hash", "update"} \/ accounts[call[r].user] # NoRow,
         place = "update" \/ (place = "hash" /\ call[r].op = "password") =>
           copy'[r] \in Copies /\ copy'[r].row.cpf[2] = "raw",
         place = "update" /\ call[r].op = "password" =>
           copy'[r].row.password = call[r].password,
         place \in {"hash", "update"} /\ call[r].op = "password" =>
           \/ /\ Held(r)
              /\ copy'[r].row.cpf = copy[r].row.cpf /\ copy'[r].roles = copy[r].roles
           \/ /\ accounts[call[r].user] # NoRow
              /\ copy'[r].row.cpf = accounts[call[r].user].cpf
              /\ copy'[r].roles = roles[call[r].user]
  PROVE  AccountsInv'
  <1> USE DEF AccountsInv
  <1>1. /\ pc' \in [Requests -> {"idle", "done"} \cup Waits]
        /\ pc'[r] = place
        /\ \A q \in Requests \ {r} : pc'[q] = pc[q]
        /\ result' = result
    BY Going
  <1>2. RequestTypes'
    BY <1>1 DEF RequestTypes
  <1>3. call[r] # NoCall /\ result[r] = "none"
    BY DEF ControlOf, Waits
  <1>4. ControlOf(r)'
    BY <1>1, <1>3 DEF ControlOf, Held, Waits, Fits
  <1>5. Moves(r)
    <2>1. Pending(r)' => Pending(r)
      BY <1>3 DEF Pending, ControlOf, Fits, Waits, Creations
    <2>2. ~Written(r) /\ ~Written(r)'
      BY <1>1, <1>3 DEF Written
    <2>3. Reached(r)' /\ call[r].op \notin Creations \cup {"login"} =>
            Reached(r) \/ accounts[call[r].user] # NoRow
      BY <1>1, <1>3 DEF Reached
    <2> QED
      BY <1>1, <2>1, <2>2, <2>3 DEF Moves
  <1>6. Quiet(r)
    BY <1>1, <1>3, <1>5 DEF Quiet, Written, Held
  <1> QED
    BY <1>2, <1>4, <1>6, QuietPreserves

\* A quiet step that answers the request.
LEMMA Answer ==
  ASSUME AccountsInv, NEW r \in Requests, NEW answer \in Results,
         pc[r] \in Waits, Finish(r, answer),
         UNCHANGED <<accounts, roles, call, copy>>,
         pc[r] = "written" => answer = "ok",
         answer = "ok" =>
           \/ pc[r] = "written" \/ call[r].op = "login"
           \/ call[r].op = "get" /\ accounts[call[r].user] # NoRow
  PROVE  AccountsInv'
  <1> USE DEF AccountsInv
  <1>1. /\ pc' \in [Requests -> {"idle", "done"} \cup Waits]
        /\ pc'[r] = "done"
        /\ \A q \in Requests \ {r} : pc'[q] = pc[q]
        /\ result' \in [Requests -> Results]
        /\ result'[r] = answer
        /\ \A q \in Requests \ {r} : result'[q] = result[q]
    BY Finishing
  <1>2. RequestTypes'
    BY <1>1 DEF RequestTypes
  <1>3. call[r] # NoCall /\ result[r] = "none"
    BY DEF ControlOf, Waits
  <1>4. ControlOf(r)'
    BY <1>1, <1>3 DEF ControlOf, Held, Waits, Fits
  <1>5. Moves(r)
    BY <1>1, <1>3 DEF Moves, Pending, Written, Reached
  <1>6. Quiet(r)
    BY <1>1, <1>3, <1>5 DEF Quiet, Written, Held
  <1> QED
    BY <1>2, <1>4, <1>6, QuietPreserves

-----------------------------------------------------------------------------

(* The quiet actions. *)

LEMMA VerifyRolePreserves ==
  ASSUME AccountsInv, NEW r \in Requests, VerifyRole(r)
  PROVE  AccountsInv'
  <1> USE DEF AccountsInv
  <1>1. /\ pc[r] = "auth" /\ pc[r] \in Waits \ {"written"}
        /\ UNCHANGED <<accounts, roles, call, copy>>
        /\ copy' \in [Requests -> Copies \cup {NoRow}]
        /\ call[r].op \in Ops \ {"create", "login"}
    BY CallParts DEF VerifyRole, Waits, ControlOf, Fits, RequestTypes
  <1>2. CASE Goto(r, "cpf") /\ call[r].op = "register"
    BY <1>1, <1>2, Advance DEF Fits, Creations, Waits
  <1>3. CASE Goto(r, "find") /\ call[r].op # "register"
    BY <1>1, <1>3, Advance DEF Fits, Waits, Ops
  <1>4. CASE Finish(r, "unauthorized")
    BY <1>1, <1>4, Answer DEF Results
  <1> QED
    BY <1>2, <1>3, <1>4 DEF VerifyRole

LEMMA FindByCpfPreserves ==
  ASSUME AccountsInv, NEW r \in Requests, FindByCpf(r)
  PROVE  AccountsInv'
  <1> USE DEF AccountsInv
  <1>1. /\ pc[r] \in Waits \ {"written"} /\ call[r].op = "create"
        /\ UNCHANGED <<accounts, roles, call, copy>>
        /\ copy' \in [Requests -> Copies \cup {NoRow}]
    BY DEF FindByCpf, Waits, RequestTypes
  <1>2. CASE Goto(r, "email")
    BY <1>1, <1>2, Advance DEF Fits, Waits
  <1>3. CASE Finish(r, "conflict")
    BY <1>1, <1>3, Answer DEF Results
  <1> QED
    BY <1>2, <1>3 DEF FindByCpf

LEMMA FindByEmailPreserves ==
  ASSUME AccountsInv, NEW r \in Requests, FindByEmail(r)
  PROVE  AccountsInv'
  <1> USE DEF AccountsInv
  <1>1. /\ pc[r] \in Waits \ {"written"} /\ call[r].op = "create"
        /\ UNCHANGED <<accounts, roles, call, copy>>
        /\ copy' \in [Requests -> Copies \cup {NoRow}]
    BY DEF FindByEmail, Waits, RequestTypes, ControlOf, Fits
  <1>2. CASE Goto(r, "hash")
    BY <1>1, <1>2, Advance DEF Fits, Waits, Creations
  <1>3. CASE Finish(r, "conflict")
    BY <1>1, <1>3, Answer DEF Results
  <1> QED
    BY <1>2, <1>3 DEF FindByEmail

LEMMA CreateUserPreserves ==
  ASSUME AccountsInv, NEW r \in Requests, CreateUser(r)
  PROVE  AccountsInv'
  <1> USE DEF AccountsInv
  <1>1. /\ pc[r] \in Waits \ {"written"} /\ call[r].op = "create"
        /\ UNCHANGED <<accounts, roles, call, copy>>
        /\ copy' \in [Requests -> Copies \cup {NoRow}]
    BY DEF CreateUser, Waits, RequestTypes
  <1>2. CASE Goto(r, "insert")
    BY <1>1, <1>2, Advance DEF Fits, Waits, Creations
  <1>3. CASE Finish(r, "invalid")
    BY <1>1, <1>3, Answer DEF Results
  <1> QED
    BY <1>2, <1>3 DEF CreateUser

LEMMA FindSameCpfPreserves ==
  ASSUME AccountsInv, NEW r \in Requests, FindSameCpf(r)
  PROVE  AccountsInv'
  <1> USE DEF AccountsInv
  <1>1. /\ pc[r] \in Waits \ {"written"} /\ call[r].op = "register"
        /\ UNCHANGED <<accounts, roles, call, copy>>
        /\ copy' \in [Requests -> Copies \cup {NoRow}]
    BY DEF FindSameCpf, Waits, RequestTypes
  <1>2. CASE Goto(r, "hash")
    BY <1>1, <1>2, Advance DEF Fits, Waits, Creations
  <1>3. CASE Finish(r, "conflict")
    BY <1>1, <1>3, Answer DEF Results
  <1> QED
    BY <1>2, <1>3 DEF FindSameCpf

LEMMA RegisterPreserves ==
  ASSUME AccountsInv, NEW r \in Requests, Register(r)
  PROVE  AccountsInv'
  <1> USE DEF AccountsInv
  <1>1. /\ pc[r] \in Waits \ {"written"} /\ call[r].op = "register"
        /\ UNCHANGED <<accounts, roles, call, copy>>
        /\ copy' \in [Requests -> Copies \cup {NoRow}]
        /\ Goto(r, "insert")
    BY DEF Register, Waits, RequestTypes
  <1> QED
    BY <1>1, Advance DEF Fits, Waits, Creations

\* The database, or the use case, answers with a failure; a read or a login
\* with success; what was written has been dispatched.
LEMMA FinishPreserves ==
  ASSUME AccountsInv, NEW r \in Requests,
         \/ InsertRefused(r) \/ NotFound(r) \/ GetUser(r)
         \/ SaveRefused(r) \/ Dispatch(r) \/ Login(r)
  PROVE  AccountsInv'
  <1> USE DEF AccountsInv
  <1>1. CASE InsertRefused(r) \/ SaveRefused(r)
    BY <1>1, Answer DEF InsertRefused, SaveRefused, Waits, Results
  <1>2. CASE NotFound(r)
    BY <1>2, Answer DEF NotFound, Waits, Results
  <1>3. CASE GetUser(r)
    BY <1>3, Answer DEF GetUser, Waits, Results
  <1>4. CASE Dispatch(r)
    BY <1>4, Answer DEF Dispatch, Waits, Results
  <1>5. CASE Login(r)
    <2>1. PICK answer \in {"ok", "wrongCredentials"} : Finish(r, answer)
      BY <1>5 DEF Login
    <2> QED
      BY <1>5, <2>1, Answer DEF Login, Waits, Results
  <1> QED
    BY <1>1, <1>2, <1>3, <1>4, <1>5

\* A row that is edited is a row, and the CPF it is given is clean.
LEMMA EditPreserves ==
  ASSUME AccountsInv, NEW r \in Requests, Edit(r)
  PROVE  AccountsInv'
  <1> USE DEF AccountsInv
  <1> DEFINE c == call[r]
             u == c.user
             row == accounts[u]
             edited == [row EXCEPT !.cpf = Clean(c.cpf), !.email = c.email]
             loaded == [row |-> edited, roles |-> roles[u]]
  <1>1. /\ pc[r] = "find" /\ c.op = "edit" /\ row # NoRow
        /\ copy' = [copy EXCEPT ![r] = loaded]
        /\ Goto(r, "update")
        /\ UNCHANGED <<accounts, roles, call>>
    BY DEF Edit, Load
  <1>2. u \in UserIds /\ c.cpf \in CpfTexts /\ c.email \in Emails
    BY <1>1, CallParts DEF ControlOf
  <1>3. row \in Rows /\ roles[u] \in RoleRows
    BY <1>1, <1>2 DEF TableTypes
  <1>4. Clean(c.cpf) \in CpfTexts /\ Clean(c.cpf)[2] = "raw"
    BY <1>2 DEF Clean, CpfTexts
  <1>5. edited \in Rows /\ edited.cpf = Clean(c.cpf)
    BY <1>2, <1>3, <1>4 DEF Rows
  <1>6. loaded \in Copies
    BY <1>3, <1>5 DEF Copies
  <1> HIDE DEF edited
  <1>7. /\ copy' \in [Requests -> Copies \cup {NoRow}]
        /\ copy'[r] = loaded
        /\ \A q \in Requests \ {r} : copy'[q] = copy[q]
    BY <1>1, <1>6 DEF RequestTypes
  <1> QED
    BY <1>1, <1>4, <1>5, <1>6, <1>7, Advance DEF Fits, Waits

LEMMA DeletePreserves ==
  ASSUME AccountsInv, NEW r \in Requests, Delete(r)
  PROVE  AccountsInv'
  <1> USE DEF AccountsInv
  <1>1. /\ pc[r] \in Waits \ {"written"} /\ call[r].op = "delete"
        /\ accounts[call[r].user] # NoRow
        /\ UNCHANGED <<accounts, roles, call, copy>>
        /\ copy' \in [Requests -> Copies \cup {NoRow}]
        /\ Goto(r, "remove")
    BY DEF Delete, Waits, RequestTypes
  <1> QED
    BY <1>1, Advance DEF Fits, Waits

LEMMA FindUserPreserves ==
  ASSUME AccountsInv, NEW r \in Requests, FindUser(r)
  PROVE  AccountsInv'
  <1> USE DEF AccountsInv
  <1> DEFINE u == call[r].user
             loaded == [row |-> accounts[u], roles |-> roles[u]]
  <1>1. /\ pc[r] = "find" /\ call[r].op = "password" /\ accounts[u] # NoRow
        /\ copy' = [copy EXCEPT ![r] = loaded]
        /\ Goto(r, "hash")
        /\ UNCHANGED <<accounts, roles, call>>
    BY DEF FindUser, Load
  <1>2. u \in UserIds
    BY <1>1, CallParts DEF ControlOf
  <1>3. loaded \in Copies /\ accounts[u].cpf[2] = "raw"
    BY <1>1, <1>2 DEF TableTypes, Copies, CleanAndUnique
  <1>4. /\ copy' \in [Requests -> Copies \cup {NoRow}]
        /\ copy'[r] = loaded
        /\ \A q \in Requests \ {r} : copy'[q] = copy[q]
    BY <1>1, <1>3 DEF RequestTypes
  <1> QED
    BY <1>1, <1>3, <1>4, Advance DEF Fits, Waits

LEMMA ChangePasswordPreserves ==
  ASSUME AccountsInv, NEW r \in Requests, ChangePassword(r)
  PROVE  AccountsInv'
  <1> USE DEF AccountsInv
  <1> DEFINE changed == [copy[r] EXCEPT !.row.password = call[r].password]
  <1>1. /\ pc[r] = "hash" /\ call[r].op = "password"
        /\ copy' = [copy EXCEPT ![r].row.password = call[r].password]
        /\ Goto(r, "update")
        /\ UNCHANGED <<accounts, roles, call>>
    BY DEF ChangePassword
  <1>2. Held(r) /\ copy[r] \in Copies /\ copy[r].row.cpf[2] = "raw"
    BY <1>1 DEF ControlOf, Held
  <1>3. call[r].password \in Passwords
    BY <1>2, CallParts DEF Held
  <1>4. /\ changed \in Copies
        /\ changed.row.cpf = copy[r].row.cpf /\ changed.roles = copy[r].roles
        /\ changed.row.password = call[r].password
    BY <1>2, <1>3 DEF Copies, Rows
  <1>5. copy' = [copy EXCEPT ![r] = changed]
    BY <1>1, <1>2 DEF RequestTypes
  <1> HIDE DEF changed
  <1>6. /\ copy' \in [Requests -> Copies \cup {NoRow}]
        /\ copy'[r] = changed
        /\ \A q \in Requests \ {r} : copy'[q] = copy[q]
    BY <1>4, <1>5 DEF RequestTypes
  <1> QED
    BY <1>1, <1>2, <1>4, <1>6, Advance DEF Fits, Waits

-----------------------------------------------------------------------------

(* The actions that write the tables. *)

\* The row of a creation is new and its user nobody else's; what it is given
\* are the roles of the call.
LEMMA InsertPreserves ==
  ASSUME AccountsInv, NEW r \in Requests, NEW given \in RoleRows,
         pc[r] = "insert", Insert(r, given),
         \/ call[r].op = "create" /\ given = call[r].roles /\ Finish(r, "ok")
         \/ call[r].op = "register" /\ given = OneRole(call[r].kind) /\ Goto(r, "written")
  PROVE  AccountsInv'
  <1> USE DEF AccountsInv
  <1> DEFINE c == call[r]
             u == c.user
             row == [cpf |-> Clean(c.cpf), email |-> c.email, password |-> c.password]
  <1>1. /\ c # NoCall /\ c.op \in Creations /\ result[r] = "none"
        /\ u \in UserIds /\ c.cpf \in CpfTexts /\ row \in Rows
        /\ row.cpf = Clean(c.cpf) /\ row.cpf[2] = "raw"
    <2>1. c # NoCall /\ c.op \in Creations /\ result[r] = "none"
      BY DEF ControlOf, Creations
    <2> QED
      BY <2>1, CallParts DEF Rows, Clean, CpfTexts
  <1>2. /\ pc'[r] \in {"done", "written"} /\ Written(r)'
        /\ pc' \in [Requests -> {"idle", "done"} \cup Waits]
        /\ result' \in [Requests -> Results]
        /\ \A q \in Requests \ {r} : pc'[q] = pc[q] /\ result'[q] = result[q]
        /\ pc'[r] = "written" => c.op = "register" /\ result'[r] = "none"
    <2>1. "ok" \in Results /\ "written" \in Waits
      BY DEF Results, Waits
    <2>2. CASE Finish(r, "ok")
      BY <2>1, <2>2, Finishing DEF Written
    <2>3. CASE Goto(r, "written") /\ c.op = "register"
      BY <2>1, <2>3, <1>1, Going DEF Written
    <2> QED
      BY <2>2, <2>3
  <1>3. /\ Accepts(u, row)
        /\ accounts' = [accounts EXCEPT ![u] = row]
        /\ roles' = [roles EXCEPT ![u] = given]
        /\ call' = call /\ copy' = copy
    BY DEF Insert
  <1> HIDE DEF row
  <1>4. /\ TableTypes' /\ RequestTypes'
        /\ accounts'[u] = row /\ roles'[u] = given
        /\ \A v \in UserIds \ {u} : accounts'[v] = accounts[v] /\ roles'[v] = roles[v]
    BY <1>1, <1>2, <1>3 DEF TableTypes, RequestTypes
  <1>5. Pending(r) /\ accounts[u] = NoRow
    BY <1>1 DEF Pending, FreshIds
  <1>6. ControlOf(r)'
    BY <1>1, <1>2, <1>3 DEF ControlOf, Fits, Held
  <1>7. Moves(r)
    BY <1>1, <1>2, <1>3, <1>4 DEF Moves, Pending, Waits
  <1>8. /\ FreshIds' /\ \A q \in Requests : ControlOf(q)'
        /\ \A q \in Requests : Written(q) => Written(q)'
        /\ \A v \in UserIds, role \in Roles : Given(v, role) => Given(v, role)'
    BY <1>6, <1>7, MovesPreserves, WrittenStays
  <1>9. \A q \in Requests \ {r} :
          /\ call[q] # NoCall /\ call[q].op # "login"
          /\ Reached(q) \/ call[q].op \in Creations
          => call[q].user # u
    BY <1>1, <1>5 DEF FreshIds
  <1>10. CleanAndUnique'
    BY <1>1, <1>3, <1>4 DEF CleanAndUnique, Accepts
  <1>11. RolesAreGiven'
    <2> SUFFICES ASSUME NEW v \in UserIds, NEW role \in Roles, roles'[v][role] > 0
                 PROVE  Given(v, role)'
      BY <1>3 DEF RolesAreGiven, Given
    <2>1. CASE v # u
      BY <2>1, <1>4, <1>8 DEF RolesAreGiven, Given
    <2>2. CASE v = u
      <3>1. \/ c.op = "create" /\ c.roles[role] > 0
            \/ c.op = "register" /\ c.kind = role
        BY <2>2, <1>4 DEF OneRole
      <3> QED
        BY <2>2, <3>1, <1>2, <1>3 DEF Given
    <2> QED
      BY <2>1, <2>2
  <1>12. CopiesGiven'
    <2> SUFFICES ASSUME NEW q \in Requests, NEW role \in Roles,
                        Held(q)', copy[q].roles[role] > 0
                 PROVE  Given(call[q].user, role)'
      BY <1>3 DEF CopiesGiven
    <2>1. q # r /\ Held(q)
      BY <1>2, <1>3 DEF Held
    <2>2. call[q].user \in UserIds
      BY <2>1, CallParts DEF Held
    <2> QED
      BY <2>1, <2>2, <1>3, <1>8 DEF CopiesGiven
  <1>13. PasswordLossNeedsRival'
    <2> SUFFICES ASSUME NEW p \in Requests, result'[p] = "ok", call[p].op = "password",
                        accounts'[call[p].user] # NoRow,
                        accounts'[call[p].user].password # call[p].password
                 PROVE  \E q \in Requests \ {p} :
                          /\ Written(q)' /\ call[q].user = call[p].user
                          /\ call[q].op \in {"edit", "password"}
                          /\ copy[q].row.password # call[p].password
      BY <1>3 DEF PasswordLossNeedsRival
    <2>1. p # r /\ result[p] = "ok" /\ call[p] # NoCall
      BY <1>1, <1>2 DEF Creations, ControlOf
    <2>2. call[p].user \in UserIds \ {u}
      BY <2>1, <1>9, CallParts DEF Reached
    <2> QED
      BY <2>1, <2>2, <1>4, <1>8 DEF PasswordLossNeedsRival
  <1>14. DeletedStaysDeleted'
    <2> SUFFICES ASSUME NEW p \in Requests, result'[p] = "ok", call[p].op = "delete"
                 PROVE  /\ accounts'[call[p].user] = NoRow
                        /\ \A role \in Roles : roles'[call[p].user][role] = 0
      BY <1>3 DEF DeletedStaysDeleted
    <2>1. p # r /\ result[p] = "ok" /\ call[p] # NoCall
      BY <1>1, <1>2 DEF Creations, ControlOf
    <2>2. call[p].user \in UserIds \ {u}
      BY <2>1, <1>9, CallParts DEF Reached
    <2> QED
      BY <2>1, <2>2, <1>4 DEF DeletedStaysDeleted
  <1>15. CreationHolds'
    <2> SUFFICES ASSUME NEW p \in Requests, call[p] # NoCall, call[p].op \in Creations,
                        Written(p)',
                        ~\E s \in Requests :
                           /\ call[s] # NoCall /\ Written(s)'
                           /\ call[s].op \in {"edit", "delete"}
                           /\ call[s].user = call[p].user
                 PROVE  /\ accounts'[call[p].user] # NoRow
                        /\ accounts'[call[p].user].cpf = Clean(call[p].cpf)
                        /\ \A q \in Requests : Held(q)' /\ call[q].user = call[p].user =>
                             copy[q].row.cpf = Clean(call[p].cpf)
      BY <1>3 DEF CreationHolds
    <2>1. \A q \in Requests : Held(q)' => Held(q) /\ q # r
      BY <1>1, <1>2, <1>3 DEF Held, Creations
    <2>2. CASE p = r
      <3>1. \A q \in Requests : Held(q) => call[q].user # u
        BY <1>1, <1>9 DEF Held, Reached, Creations
      <3> QED
        BY <2>1, <2>2, <3>1, <1>1, <1>4, NullsAssumption
    <2>3. CASE p # r
      <3>1. Written(p) /\ call[p].user \in UserIds \ {u}
        BY <2>3, <1>2, <1>9, CallParts DEF Written, Creations
      <3> QED
        BY <2>1, <3>1, <1>4, <1>8 DEF CreationHolds
    <2> QED
      BY <2>2, <2>3
  <1> QED
    BY <1>4, <1>8, <1>10, <1>11, <1>12, <1>13, <1>14, <1>15

\* A copy that is written back holds a clean CPF, roles that were given, and
\* the password its request was asked for, unless the request is an edit.
LEMMA UpdatePreserves ==
  ASSUME AccountsInv, NEW r \in Requests, NEW added \in RoleRows,
         pc[r] = "update", UpdateRow(r, added),
         \/ call[r].op = "password" /\ added = copy[r].roles /\ Finish(r, "ok")
         \/ call[r].op = "edit" /\ added = OneRole(call[r].kind) /\ Goto(r, "written")
  PROVE  AccountsInv'
  <1> USE DEF AccountsInv
  <1> DEFINE c == call[r]
             u == c.user
             row == copy[r].row
             sum == [role \in Roles |-> roles[u][role] + added[role]]
  <1>1. /\ c # NoCall /\ c.op \in {"password", "edit"} /\ result[r] = "none"
        /\ u \in UserIds /\ copy[r] \in Copies /\ row \in Rows /\ row.cpf[2] = "raw"
        /\ c.op = "password" => Held(r) /\ row.password = c.password
    <2>1. c # NoCall /\ c.op \in {"password", "edit"} /\ result[r] = "none"
      BY DEF ControlOf
    <2>2. c.op = "password" => Held(r)
      BY <2>1 DEF Held
    <2>3. copy[r] \in Copies /\ row.cpf[2] = "raw"
      BY DEF ControlOf
    <2> QED
      BY <2>1, <2>2, <2>3, CallParts DEF ControlOf, Copies
  <1>2. /\ pc'[r] \in {"done", "written"} /\ Written(r)'
        /\ pc' \in [Requests -> {"idle", "done"} \cup Waits]
        /\ result' \in [Requests -> Results]
        /\ \A q \in Requests \ {r} : pc'[q] = pc[q] /\ result'[q] = result[q]
        /\ pc'[r] = "written" => c.op = "edit" /\ result'[r] = "none"
    <2>1. "ok" \in Results /\ "written" \in Waits
      BY DEF Results, Waits
    <2>2. CASE Finish(r, "ok")
      BY <2>1, <2>2, Finishing DEF Written
    <2>3. CASE Goto(r, "written") /\ c.op = "edit"
      BY <2>1, <2>3, <1>1, Going DEF Written
    <2> QED
      BY <2>2, <2>3
  <1>3. /\ accounts[u] # NoRow /\ Accepts(u, row)
        /\ accounts' = [accounts EXCEPT ![u] = row]
        /\ roles' = [roles EXCEPT ![u] = sum]
        /\ call' = call /\ copy' = copy
    BY DEF UpdateRow
  <1>4. sum \in RoleRows
    BY <1>1 DEF TableTypes, RoleRows
  <1>5. /\ TableTypes' /\ RequestTypes'
        /\ accounts'[u] = row
        /\ \A role \in Roles : roles'[u][role] = roles[u][role] + added[role]
        /\ \A v \in UserIds \ {u} : accounts'[v] = accounts[v] /\ roles'[v] = roles[v]
    BY <1>1, <1>2, <1>3, <1>4 DEF TableTypes, RequestTypes
  <1> HIDE DEF row, sum
  <1>6. ControlOf(r)'
    BY <1>1, <1>2, <1>3 DEF ControlOf, Fits, Held
  <1>7. Moves(r)
    BY <1>1, <1>2, <1>3, <1>5 DEF Moves, Pending, Waits, Creations
  <1>8. /\ FreshIds' /\ \A q \in Requests : ControlOf(q)'
        /\ \A q \in Requests : Written(q) => Written(q)'
        /\ \A v \in UserIds, role \in Roles : Given(v, role) => Given(v, role)'
    BY <1>6, <1>7, MovesPreserves, WrittenStays
  <1>9. \A q \in Requests : Held(q)' => Held(q) /\ q # r
    BY <1>2, <1>3 DEF Held
  <1>10. CleanAndUnique'
    BY <1>1, <1>3, <1>5 DEF CleanAndUnique, Accepts
  <1>11. RolesAreGiven'
    <2> SUFFICES ASSUME NEW v \in UserIds, NEW role \in Roles, roles'[v][role] > 0
                 PROVE  Given(v, role)'
      BY <1>3 DEF RolesAreGiven, Given
    <2>1. CASE v # u \/ roles[u][role] > 0
      BY <2>1, <1>5, <1>8 DEF RolesAreGiven, Given
    <2>2. CASE v = u /\ ~(roles[u][role] > 0)
      <3>1. added[role] > 0
        BY <2>2, <1>1, <1>5 DEF TableTypes, RoleRows
      <3>2. CASE c.op = "password" /\ added = copy[r].roles
        BY <2>2, <3>1, <3>2, <1>1, <1>8 DEF CopiesGiven
      <3>3. CASE c.op = "edit" /\ added = OneRole(c.kind)
        <4>1. c.kind = role
          BY <3>1, <3>3 DEF OneRole
        <4> QED
          BY <2>2, <3>3, <4>1, <1>2, <1>3 DEF Given
      <3> QED
        BY <3>2, <3>3
    <2> QED
      BY <2>1, <2>2
  <1>12. CopiesGiven'
    <2> SUFFICES ASSUME NEW q \in Requests, NEW role \in Roles,
                        Held(q)', copy[q].roles[role] > 0
                 PROVE  Given(call[q].user, role)'
      BY <1>3 DEF CopiesGiven
    <2>1. call[q].user \in UserIds /\ Held(q)
      BY <1>9, CallParts DEF Held
    <2> QED
      BY <2>1, <1>3, <1>8 DEF CopiesGiven
  <1>13. PasswordLossNeedsRival'
    <2> SUFFICES ASSUME NEW p \in Requests, result'[p] = "ok", call[p].op = "password",
                        accounts'[call[p].user] # NoRow,
                        accounts'[call[p].user].password # call[p].password
                 PROVE  \E q \in Requests \ {p} :
                          /\ Written(q)' /\ call[q].user = call[p].user
                          /\ call[q].op \in {"edit", "password"}
                          /\ copy[q].row.password # call[p].password
      BY <1>3 DEF PasswordLossNeedsRival
    <2>1. p # r
      BY <1>1, <1>5
    <2>2. result[p] = "ok" /\ call[p].user \in UserIds
      BY <2>1, <1>2, CallParts DEF ControlOf
    <2>3. CASE call[p].user = u
      BY <2>1, <2>3, <1>1, <1>2, <1>5 DEF row
    <2>4. CASE call[p].user # u
      BY <2>2, <2>4, <1>5, <1>8 DEF PasswordLossNeedsRival
    <2> QED
      BY <2>3, <2>4
  <1>14. DeletedStaysDeleted'
    <2> SUFFICES ASSUME NEW p \in Requests, result'[p] = "ok", call[p].op = "delete"
                 PROVE  /\ accounts'[call[p].user] = NoRow
                        /\ \A role \in Roles : roles'[call[p].user][role] = 0
      BY <1>3 DEF DeletedStaysDeleted
    <2>1. result[p] = "ok" /\ call[p].user \in UserIds
      BY <1>1, <1>2, CallParts DEF ControlOf
    <2>2. call[p].user # u
      BY <2>1, <1>3 DEF DeletedStaysDeleted
    <2> QED
      BY <2>1, <2>2, <1>5 DEF DeletedStaysDeleted
  <1>15. CreationHolds'
    <2> SUFFICES ASSUME NEW p \in Requests, call[p] # NoCall, call[p].op \in Creations,
                        Written(p)',
                        ~\E s \in Requests :
                           /\ call[s] # NoCall /\ Written(s)'
                           /\ call[s].op \in {"edit", "delete"}
                           /\ call[s].user = call[p].user
                 PROVE  /\ accounts'[call[p].user] # NoRow
                        /\ accounts'[call[p].user].cpf = Clean(call[p].cpf)
                        /\ \A q \in Requests : Held(q)' /\ call[q].user = call[p].user =>
                             copy[q].row.cpf = Clean(call[p].cpf)
      BY <1>3 DEF CreationHolds
    <2>1. Written(p) /\ call[p].user \in UserIds
      BY <1>1, <1>2, CallParts DEF Written, Creations
    <2>2. /\ accounts[call[p].user] # NoRow
          /\ accounts[call[p].user].cpf = Clean(call[p].cpf)
          /\ \A q \in Requests : Held(q) /\ call[q].user = call[p].user =>
               copy[q].row.cpf = Clean(call[p].cpf)
      BY <2>1, <1>8 DEF CreationHolds
    <2>3. CASE call[p].user # u
      BY <2>1, <2>2, <2>3, <1>5, <1>9
    <2>4. CASE call[p].user = u
      <3>1. c.op = "password"
        BY <2>4, <1>1, <1>2
      <3>2. row.cpf = Clean(call[p].cpf)
        BY <2>2, <2>4, <3>1, <1>1 DEF row
      <3> QED
        BY <2>2, <2>4, <3>2, <1>1, <1>5, <1>9, NullsAssumption
    <2> QED
      BY <2>3, <2>4
  <1> QED
    BY <1>5, <1>8, <1>10, <1>11, <1>12, <1>13, <1>14, <1>15

\* A deletion empties the row and the roles, or is refused.
LEMMA RemovePreserves ==
  ASSUME AccountsInv, NEW r \in Requests, Remove(r)
  PROVE  AccountsInv'
  <1> USE DEF AccountsInv
  <1> DEFINE u == call[r].user
             none == [role \in Roles |-> 0]
  <1>1. CASE Finish(r, "error") /\ UNCHANGED <<accounts, roles>>
    BY <1>1, Answer DEF Remove, Waits, Results
  <1>2. CASE /\ accounts[u] # NoRow
             /\ accounts' = [accounts EXCEPT ![u] = NoRow]
             /\ roles' = [roles EXCEPT ![u] = none]
             /\ Finish(r, "ok")
    <2>1. /\ pc[r] = "remove" /\ call[r] # NoCall /\ call[r].op = "delete"
          /\ result[r] = "none" /\ u \in UserIds
          /\ call' = call /\ copy' = copy
      BY CallParts DEF Remove, ControlOf, Fits
    <2>2. /\ pc' \in [Requests -> {"idle", "done"} \cup Waits]
          /\ pc'[r] = "done"
          /\ result' \in [Requests -> Results]
          /\ result'[r] = "ok" /\ Written(r)'
          /\ \A q \in Requests \ {r} : pc'[q] = pc[q] /\ result'[q] = result[q]
      BY <1>2, Finishing DEF Results, Written
    <2>3. none \in RoleRows
      BY DEF RoleRows
    <2>4. /\ TableTypes' /\ RequestTypes'
          /\ accounts'[u] = NoRow
          /\ \A role \in Roles : roles'[u][role] = 0
          /\ \A v \in UserIds \ {u} : accounts'[v] = accounts[v] /\ roles'[v] = roles[v]
      BY <1>2, <2>1, <2>2, <2>3 DEF TableTypes, RequestTypes
    <2>5. ControlOf(r)'
      BY <2>1, <2>2 DEF ControlOf, Fits, Held
    <2>6. Moves(r)
      BY <2>1, <2>2, <2>4, <1>2 DEF Moves, Pending, Waits, Creations
    <2>7. /\ FreshIds' /\ \A q \in Requests : ControlOf(q)'
          /\ \A q \in Requests : Written(q) => Written(q)'
          /\ \A v \in UserIds, role \in Roles : Given(v, role) => Given(v, role)'
      BY <2>5, <2>6, MovesPreserves, WrittenStays
    <2>8. \A q \in Requests : Held(q)' => Held(q) /\ q # r
      BY <2>1, <2>2 DEF Held
    <2>9. CleanAndUnique'
      BY <2>4 DEF CleanAndUnique
    <2>10. RolesAreGiven'
      <3> SUFFICES ASSUME NEW v \in UserIds, NEW role \in Roles, roles'[v][role] > 0
                   PROVE  Given(v, role)'
        BY <2>1 DEF RolesAreGiven, Given
      <3> QED
        BY <2>4, <2>7 DEF RolesAreGiven, Given
    <2>11. CopiesGiven'
      <3> SUFFICES ASSUME NEW q \in Requests, NEW role \in Roles,
                          Held(q)', copy[q].roles[role] > 0
                   PROVE  Given(call[q].user, role)'
        BY <2>1 DEF CopiesGiven
      <3>1. call[q].user \in UserIds /\ Held(q)
        BY <2>8, CallParts DEF Held
      <3> QED
        BY <3>1, <2>1, <2>7 DEF CopiesGiven
    <2>12. PasswordLossNeedsRival'
      <3> SUFFICES ASSUME NEW p \in Requests, result'[p] = "ok", call[p].op = "password",
                          accounts'[call[p].user] # NoRow,
                          accounts'[call[p].user].password # call[p].password
                   PROVE  \E q \in Requests \ {p} :
                            /\ Written(q)' /\ call[q].user = call[p].user
                            /\ call[q].op \in {"edit", "password"}
                            /\ copy[q].row.password # call[p].password
        BY <2>1 DEF PasswordLossNeedsRival
      <3>1. p # r /\ result[p] = "ok"
        BY <2>1, <2>2
      <3>2. call[p].user \in UserIds \ {u}
        BY <3>1, <2>4, CallParts DEF ControlOf
      <3> QED
        BY <3>1, <3>2, <2>4, <2>7 DEF PasswordLossNeedsRival
    <2>13. DeletedStaysDeleted'
      <3> SUFFICES ASSUME NEW p \in Requests, result'[p] = "ok", call[p].op = "delete"
                   PROVE  /\ accounts'[call[p].user] = NoRow
                          /\ \A role \in Roles : roles'[call[p].user][role] = 0
        BY <2>1 DEF DeletedStaysDeleted
      <3>1. CASE call[p].user = u
        BY <3>1, <2>4
      <3>2. CASE call[p].user # u
        <4>1. result[p] = "ok" /\ call[p].user \in UserIds
          BY <3>2, <2>2, CallParts DEF ControlOf
        <4> QED
          BY <3>2, <4>1, <2>4 DEF DeletedStaysDeleted
      <3> QED
        BY <3>1, <3>2
    <2>14. CreationHolds'
      <3> SUFFICES ASSUME NEW p \in Requests, call[p] # NoCall, call[p].op \in Creations,
                          Written(p)',
                          ~\E s \in Requests :
                             /\ call[s] # NoCall /\ Written(s)'
                             /\ call[s].op \in {"edit", "delete"}
                             /\ call[s].user = call[p].user
                   PROVE  /\ accounts'[call[p].user] # NoRow
                          /\ accounts'[call[p].user].cpf = Clean(call[p].cpf)
                          /\ \A q \in Requests : Held(q)' /\ call[q].user = call[p].user =>
                               copy[q].row.cpf = Clean(call[p].cpf)
        BY <2>1 DEF CreationHolds
      <3>1. call[p].user # u
        BY <2>1, <2>2
      <3>2. Written(p) /\ call[p].user \in UserIds
        BY <2>1, <2>2, CallParts DEF Written, Creations
      <3> QED
        BY <3>1, <3>2, <2>4, <2>7, <2>8 DEF CreationHolds
    <2> QED
      BY <2>4, <2>7, <2>9, <2>10, <2>11, <2>12, <2>13, <2>14
  <1> QED
    BY <1>1, <1>2 DEF Remove

LEMMA WritePreserves ==
  ASSUME AccountsInv, NEW r \in Requests,
         InsertUser(r) \/ InsertRegistered(r) \/ SaveUser(r) \/ SaveEdited(r)
  PROVE  AccountsInv'
  <1> USE DEF AccountsInv
  <1>1. \A kind : OneRole(kind) \in RoleRows
    BY DEF OneRole, RoleRows
  <1>2. CASE InsertUser(r)
    <2>1. call[r].roles \in RoleRows
      BY <1>2, CallParts DEF InsertUser, ControlOf
    <2> QED
      BY <1>2, <2>1, InsertPreserves DEF InsertUser
  <1>3. CASE InsertRegistered(r)
    BY <1>3, <1>1, InsertPreserves DEF InsertRegistered
  <1>4. CASE SaveUser(r)
    <2>1. copy[r].roles \in RoleRows
      BY <1>4 DEF SaveUser, ControlOf, Copies
    <2> QED
      BY <1>4, <2>1, UpdatePreserves DEF SaveUser
  <1>5. CASE SaveEdited(r)
    BY <1>5, <1>1, UpdatePreserves DEF SaveEdited
  <1> QED
    BY <1>2, <1>3, <1>4, <1>5

-----------------------------------------------------------------------------

(* A request arrives. *)

LEMMA ReceivePreserves ==
  ASSUME AccountsInv, NEW r \in Requests, Receive(r)
  PROVE  AccountsInv'
  <1> USE DEF AccountsInv
  <1>1. PICK c \in Calls :
          /\ c.op \in Creations =>
               /\ accounts[c.user] = NoRow
               /\ \A q \in Requests : call[q] # NoCall => call[q].user # c.user
          /\ call' = [call EXCEPT ![r] = c]
          /\ Goto(r, IF c.op \in {"create", "login"} THEN "cpf" ELSE "auth")
    BY DEF Receive
  <1>2. /\ pc[r] = "idle" /\ call[r] = NoCall /\ result[r] = "none"
        /\ UNCHANGED <<accounts, roles, copy>>
    BY DEF Receive, ControlOf
  <1>3. /\ c \in CallType /\ c # NoCall /\ c.op \in Ops
        /\ call'[r] = c
        /\ \A q \in Requests \ {r} : call'[q] = call[q]
        /\ call' \in [Requests -> CallType \cup {NoCall}]
    BY <1>1, CallsAssumption, NullsAssumption DEF RequestTypes, CallType
  <1>4. /\ pc'[r] = IF c.op \in {"create", "login"} THEN "cpf" ELSE "auth"
        /\ \A q \in Requests \ {r} : pc'[q] = pc[q]
        /\ pc' \in [Requests -> {"idle", "done"} \cup Waits]
        /\ result' = result
    BY <1>1, Going DEF Waits
  <1>5. TableTypes' /\ RequestTypes' /\ CleanAndUnique'
    BY <1>2, <1>3, <1>4 DEF TableTypes, RequestTypes, CleanAndUnique
  <1>6. /\ \A q \in Requests : Held(q)' => Held(q) /\ q # r
        /\ \A q \in Requests : Written(q) => Written(q)' /\ q # r
        /\ \A q \in Requests : Written(q)' => Written(q)
    BY <1>2, <1>3, <1>4 DEF Held, Written
  <1>7. \A q \in Requests : ControlOf(q)'
    <2>1. ControlOf(r)'
      BY <1>2, <1>3, <1>4, <1>6 DEF ControlOf, Fits, Creations
    <2> QED
      BY <2>1, <1>2, <1>3, <1>4 DEF ControlOf, Held
  <1>8. FreshIds'
    <2>1. ASSUME NEW q \in Requests, Pending(q)'
          PROVE  accounts[call'[q].user] = NoRow
      BY <2>1, <1>1, <1>3, <1>4 DEF FreshIds, Pending
    <2>2. ASSUME NEW p \in Requests, NEW q \in Requests,
                 call'[p] # NoCall, call'[q] # NoCall, p # q,
                 call'[p].op \in Creations, call'[q].op \in Creations
          PROVE  call'[p].user # call'[q].user
      BY <2>2, <1>1, <1>3 DEF FreshIds
    <2>3. ASSUME NEW p \in Requests, NEW q \in Requests,
                 Pending(p)', call'[q] # NoCall, p # q,
                 call'[q].user = call'[p].user, call'[q].op # "login"
          PROVE  ~Reached(q)'
      <3>1. CASE q = r
        BY <3>1, <1>2, <1>4 DEF Reached
      <3>2. CASE p = r
        BY <2>3, <3>2, <1>1, <1>3 DEF Pending
      <3>3. CASE q # r /\ p # r
        BY <2>3, <3>3, <1>3, <1>4 DEF FreshIds, Pending, Reached
      <3> QED
        BY <3>1, <3>2, <3>3
    <2> QED
      BY <2>1, <2>2, <2>3, <1>2 DEF FreshIds
  <1>9. ASSUME NEW u, NEW role, Given(u, role)
        PROVE  Given(u, role)'
    BY <1>9, <1>3, <1>6 DEF Given
  <1>10. RolesAreGiven'
    <2> SUFFICES ASSUME NEW u \in UserIds, NEW role \in Roles, roles[u][role] > 0
                 PROVE  Given(u, role)'
      BY <1>2 DEF RolesAreGiven, Given
    <2> QED
      BY <1>9 DEF RolesAreGiven, Given
  <1>11. CopiesGiven'
    <2> SUFFICES ASSUME NEW q \in Requests, NEW role \in Roles,
                        Held(q)', copy[q].roles[role] > 0
                 PROVE  Given(call[q].user, role)'
      BY <1>2 DEF CopiesGiven
    <2>1. Held(q) /\ call'[q] = call[q] /\ Given(call[q].user, role)
      BY <1>3, <1>6 DEF CopiesGiven
    <2> QED
      BY <2>1, <1>3, <1>6 DEF Given
  <1>12. PasswordLossNeedsRival'
    BY <1>2, <1>3, <1>4, <1>6 DEF PasswordLossNeedsRival
  <1>13. DeletedStaysDeleted'
    BY <1>2, <1>3, <1>4 DEF DeletedStaysDeleted
  <1>14. CreationHolds'
    BY <1>2, <1>3, <1>6 DEF CreationHolds
  <1> QED
    BY <1>5, <1>7, <1>8, <1>10, <1>11, <1>12, <1>13, <1>14

LEMMA InitEstablishes == Init => AccountsInv
  <1> SUFFICES ASSUME Init PROVE AccountsInv
    OBVIOUS
  <1> USE DEF Init
  <1>1. TableTypes /\ RequestTypes
    BY InitialAssumption DEF TableTypes, RequestTypes, Results
  <1>2. \A r \in Requests : ControlOf(r) /\ ~Held(r) /\ ~Written(r) /\ ~Pending(r)
    BY DEF ControlOf, Fits, Held, Written, Pending
  <1>3. FreshIds /\ CreationHolds /\ PasswordLossNeedsRival /\ DeletedStaysDeleted
    BY <1>2 DEF FreshIds, CreationHolds, PasswordLossNeedsRival, DeletedStaysDeleted, Written
  <1>4. CleanAndUnique
    BY InitialAssumption DEF CleanAndUnique
  <1>5. RolesAreGiven /\ CopiesGiven
    BY <1>2 DEF RolesAreGiven, CopiesGiven
  <1> QED
    BY <1>1, <1>2, <1>3, <1>4, <1>5 DEF AccountsInv

LEMMA StepPreserves == AccountsInv /\ [Next]_vars => AccountsInv'
  <1> SUFFICES ASSUME AccountsInv, [Next]_vars PROVE AccountsInv'
    OBVIOUS
  <1>1. ASSUME NEW r \in Requests, Step(r)
        PROVE  AccountsInv'
    BY <1>1, VerifyRolePreserves, FindByCpfPreserves, FindByEmailPreserves,
       CreateUserPreserves, FindSameCpfPreserves, RegisterPreserves, FinishPreserves,
       EditPreserves, DeletePreserves, FindUserPreserves, ChangePasswordPreserves,
       WritePreserves, RemovePreserves DEF Step
  <1>2. CASE UNCHANGED vars
    <2>1. UNCHANGED <<accounts, roles, call, pc, copy, result>>
      BY <1>2 DEF vars
    <2> QED
      BY <2>1 DEF AccountsInv, TableTypes, RequestTypes, ControlOf, Fits, Held, FreshIds,
         Pending, Reached, CleanAndUnique, RolesAreGiven, CopiesGiven, Given, Written,
         PasswordLossNeedsRival, DeletedStaysDeleted, CreationHolds
  <1> QED
    BY <1>1, <1>2, ReceivePreserves DEF Next

-----------------------------------------------------------------------------

(* The registry as Accounts uses it. *)

LEMMA RegistryAssumptions ==
  RegistryProofs!IdOfAssumption /\ RegistryProofs!MaxEventsAssumption
  BY DEF RegistryProofs!IdOfAssumption, RegistryProofs!MaxEventsAssumption, Objects

\* An operation on Accounts' instance is that operation of the proved module.
LEMMA SameRegistry ==
  /\ Registry!Init => RegistryProofs!Init
  /\ \A a, cs : Registry!AddDomainEvents(a, cs) => RegistryProofs!AddDomainEvents(a, cs)
  /\ \A id : Registry!DispatchEventsForAggregate(id) =>
             RegistryProofs!DispatchEventsForAggregate(id)
  /\ RegistryProofs!TypeOK => Registry!TypeOK
  <1>1. \A id : Registry!MarkedAt(id) = RegistryProofs!MarkedAt(id)
    BY DEF Registry!MarkedAt, RegistryProofs!MarkedAt
  <1>2. \A id : Registry!FirstMarked(id) = RegistryProofs!FirstMarked(id)
    BY DEF Registry!MarkedAt, RegistryProofs!MarkedAt, Registry!FirstMarked, RegistryProofs!FirstMarked
  <1>3. \A a, cs : Registry!AddDomainEvents(a, cs) => RegistryProofs!AddDomainEvents(a, cs)
    BY DEF Registry!AddDomainEvents, RegistryProofs!AddDomainEvents,
       Registry!NewEvents, RegistryProofs!NewEvents, Registry!Mark,
       RegistryProofs!Mark, Registry!MarkedAt, RegistryProofs!MarkedAt
  <1>4. \A id : Registry!DispatchEventsForAggregate(id) =>
                RegistryProofs!DispatchEventsForAggregate(id)
    <2>1. \A a : Registry!CallsFor(a) = RegistryProofs!CallsFor(a)
      BY DEF Registry!CallsFor, RegistryProofs!CallsFor, Registry!Range, RegistryProofs!Range
    <2>2. \A f, i : Registry!RemoveAt(f, i) = RegistryProofs!RemoveAt(f, i)
      BY DEF Registry!RemoveAt, RegistryProofs!RemoveAt
    <2> QED
      BY <1>1, <1>2, <2>1, <2>2 DEF Registry!vars, RegistryProofs!vars,
         Registry!DispatchEventsForAggregate, RegistryProofs!DispatchEventsForAggregate
  <1>5. (Registry!Init => RegistryProofs!Init) /\ (RegistryProofs!TypeOK => Registry!TypeOK)
    BY DEF Registry!Init, RegistryProofs!Init, Registry!TypeOK, RegistryProofs!TypeOK,
       Registry!Events, RegistryProofs!Events
  <1> QED
    BY <1>3, <1>4, <1>5

\* What a step of the accounts does to the registry.
Raises == \E a \in Objects, c \in EventClasses : Registry!AddDomainEvents(a, <<c>>)
Dispatches == \E id \in UserIds : Registry!DispatchEventsForAggregate(id)

LEMMA LoadKindRaises ==
  ASSUME NEW r \in Requests, NEW user \in UserIds, LoadKind(r, user)
  PROVE  Raises \/ UNCHANGED eventVars
  <1>1. <<r, user>> \in Objects /\ "CourierRegistered" \in EventClasses
    BY DEF Objects, EventClasses
  <1> QED
    BY <1>1 DEF LoadKind, Raises

LEMMA UseOfRegistry ==
  ASSUME AccountsInv, [Next]_vars
  PROVE  Raises \/ Dispatches \/ UNCHANGED eventVars
  <1> USE DEF AccountsInv
  <1>1. ASSUME NEW r \in Requests, Step(r)
        PROVE  Raises \/ Dispatches \/ UNCHANGED eventVars
    <2>1. call[r].user \in UserIds
      <3>1. pc[r] # "idle"
        BY <1>1 DEF Step, VerifyRole, FindByCpf, FindByEmail, CreateUser, InsertUser,
           FindSameCpf, Register, InsertRegistered, InsertRefused, NotFound, GetUser,
           Edit, SaveEdited, SaveRefused, Dispatch, Delete, Remove, FindUser,
           ChangePassword, SaveUser, Login
      <3> QED
        BY <3>1, CallParts DEF ControlOf
    <2>2. CASE FindSameCpf(r)
      BY <2>2, LoadKindRaises DEF FindSameCpf, WithCpf
    <2>3. CASE Register(r) \/ GetUser(r) \/ Edit(r) \/ Delete(r)
      BY <2>1, <2>3, LoadKindRaises DEF Register, GetUser, Edit, Delete
    <2>4. CASE ChangePassword(r)
      <3>1. UserOf(r) \in Objects /\ "UserPasswordChanged" \in EventClasses
        BY <2>1 DEF UserOf, Objects, EventClasses
      <3> QED
        BY <2>4, <3>1 DEF ChangePassword, Raises
    <2>5. CASE Dispatch(r)
      BY <2>1, <2>5 DEF Dispatch, Dispatches
    <2> QED
      BY <1>1, <2>2, <2>3, <2>4, <2>5 DEF Step, VerifyRole, FindByCpf, FindByEmail,
         CreateUser, Insert, InsertUser, InsertRegistered, InsertRefused, NotFound,
         UpdateRow, SaveEdited, SaveRefused, Remove, FindUser, SaveUser, Login
  <1> QED
    BY <1>1 DEF Next, Receive, vars

LEMMA RegistryPreserved ==
  ASSUME AccountsInv, RegistryProofs!IInv, [Next]_vars
  PROVE  RegistryProofs!IInv'
  <1>1. CASE Raises
    <2>1. PICK a \in Objects, c \in EventClasses : Registry!AddDomainEvents(a, <<c>>)
      BY <1>1 DEF Raises
    <2>2. RegistryProofs!Next
      BY <2>1, SameRegistry DEF RegistryProofs!Next
    <2> QED
      BY <2>2, RegistryAssumptions, RegistryProofs!StepPreserves
  <1>2. CASE Dispatches
    <2>1. RegistryProofs!Next
      BY <1>2, SameRegistry DEF Dispatches, RegistryProofs!Next
    <2> QED
      BY <2>1, RegistryAssumptions, RegistryProofs!StepPreserves
  <1>3. CASE UNCHANGED eventVars
    BY <1>3, RegistryAssumptions, RegistryProofs!StepPreserves
       DEF eventVars, RegistryProofs!vars
  <1> QED
    BY <1>1, <1>2, <1>3, UseOfRegistry

-----------------------------------------------------------------------------

\* However many requests on whatever users overlap: one account for each CPF;
\* of creations with one CPF a second needs an edit or a deletion of the first;
\* no account has a role it was not given; a password change that was answered
\* is lost only to a rival write of another password; what was deleted stays
\* deleted.
THEOREM AccountsInvariant ==
  Spec => [](/\ TypeOK /\ OneAccountPerCpf /\ OneCreationPerCpf /\ RolesAreGiven
             /\ PasswordLossNeedsRival /\ DeletedStaysDeleted)
  <1>1. ASSUME AccountsInv, RegistryProofs!IInv
        PROVE  /\ TypeOK /\ OneAccountPerCpf /\ OneCreationPerCpf /\ RolesAreGiven
               /\ PasswordLossNeedsRival /\ DeletedStaysDeleted
    <2> USE <1>1 DEF AccountsInv
    <2>1. TypeOK
      BY SameRegistry DEF TypeOK, TableTypes, RequestTypes, RegistryProofs!IInv
    <2>2. OneAccountPerCpf
      <3>1. \A u \in UserIds : accounts[u] # NoRow => accounts[u].cpf \in CpfTexts
        BY DEF TableTypes, Rows
      <3>2. \A s, t \in CpfTexts : s[1] = t[1] /\ s[2] = t[2] => s = t
        BY DEF CpfTexts
      <3> QED
        BY <3>1, <3>2 DEF OneAccountPerCpf, CleanAndUnique
    <2>3. OneCreationPerCpf
      <3> SUFFICES ASSUME NEW r \in Requests, NEW q \in Requests,
                          r # q, Written(r), Written(q),
                          call[r].op \in Creations, call[q].op \in Creations,
                          call[r].cpf[1] = call[q].cpf[1],
                          ~\E s \in Requests :
                             /\ Written(s) /\ call[s].op \in {"edit", "delete"}
                             /\ call[s].user \in {call[r].user, call[q].user}
                   PROVE  FALSE
        BY DEF OneCreationPerCpf
      <3>1. call[r] # NoCall /\ call[q] # NoCall
        BY DEF Written, ControlOf
      <3>2. call[r].user # call[q].user /\ call[r].user \in UserIds /\ call[q].user \in UserIds
        BY <3>1, CallParts DEF FreshIds
      <3>3. /\ accounts[call[r].user] # NoRow /\ accounts[call[q].user] # NoRow
            /\ accounts[call[r].user].cpf = Clean(call[r].cpf)
            /\ accounts[call[q].user].cpf = Clean(call[q].cpf)
        BY <3>1 DEF CreationHolds
      <3> QED
        BY <3>2, <3>3 DEF Clean, CleanAndUnique
    <2> QED
      BY <2>1, <2>2, <2>3
  <1>2. Init => RegistryProofs!IInv
    BY RegistryAssumptions, SameRegistry, RegistryProofs!InitEstablishes DEF Init
  <1>3. AccountsInv /\ RegistryProofs!IInv /\ [Next]_vars => AccountsInv' /\ RegistryProofs!IInv'
    BY StepPreserves, RegistryPreserved
  <1> QED
    BY <1>1, <1>2, <1>3, InitEstablishes, PTL DEF Spec

\* Every step of the accounts is one call of the registry or leaves it alone,
\* though three repositories load, raise and dispatch under the same ids.
THEOREM AccountsUseRegistry == Spec => RegistrySpec
  <1>1. Init => Registry!Init
    BY DEF Init
  <1>2. ASSUME AccountsInv, [Next]_vars
        PROVE  [Registry!Next]_(Registry!vars)
    BY <1>2, UseOfRegistry DEF Raises, Dispatches, Registry!Next, eventVars, Registry!vars
  <1> QED
    BY <1>1, <1>2, InitEstablishes, StepPreserves, PTL DEF Spec, RegistrySpec, Registry!Spec

-----------------------------------------------------------------------------

(* The parts of the invariant, one by one *)

\* Types, for any users, requests and calls.
COROLLARY AccountsTypes == Spec => []TypeOK
  <1>1. (/\ TypeOK /\ OneAccountPerCpf /\ OneCreationPerCpf /\ RolesAreGiven
         /\ PasswordLossNeedsRival /\ DeletedStaysDeleted) => TypeOK
    OBVIOUS
  <1> QED
    BY <1>1, AccountsInvariant, PTL

\* However its digits were typed and whoever overlaps, a CPF has one account.
COROLLARY CpfsStayUnique == Spec => []OneAccountPerCpf
  <1>1. (/\ TypeOK /\ OneAccountPerCpf /\ OneCreationPerCpf /\ RolesAreGiven
         /\ PasswordLossNeedsRival /\ DeletedStaysDeleted) => OneAccountPerCpf
    OBVIOUS
  <1> QED
    BY <1>1, AccountsInvariant, PTL

\* Of creations with one CPF a second needs an edit or a deletion of the first.
COROLLARY CreationsExclude == Spec => []OneCreationPerCpf
  <1>1. (/\ TypeOK /\ OneAccountPerCpf /\ OneCreationPerCpf /\ RolesAreGiven
         /\ PasswordLossNeedsRival /\ DeletedStaysDeleted) => OneCreationPerCpf
    OBVIOUS
  <1> QED
    BY <1>1, AccountsInvariant, PTL

\* Stale saves that write role rows give no account a role of another.
COROLLARY RolesStayGiven == Spec => []RolesAreGiven
  <1>1. (/\ TypeOK /\ OneAccountPerCpf /\ OneCreationPerCpf /\ RolesAreGiven
         /\ PasswordLossNeedsRival /\ DeletedStaysDeleted) => RolesAreGiven
    OBVIOUS
  <1> QED
    BY <1>1, AccountsInvariant, PTL

\* No save of a copy loaded before a deletion brings the account back.
COROLLARY DeletionsStay == Spec => []DeletedStaysDeleted
  <1>1. (/\ TypeOK /\ OneAccountPerCpf /\ OneCreationPerCpf /\ RolesAreGiven
         /\ PasswordLossNeedsRival /\ DeletedStaysDeleted) => DeletedStaysDeleted
    OBVIOUS
  <1> QED
    BY <1>1, AccountsInvariant, PTL

=============================================================================
