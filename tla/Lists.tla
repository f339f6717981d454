-------------------------------- MODULE Lists --------------------------------
(***************************************************************************)
(* The paged lists: GET /orders, /orders/nearby, /couriers, /recipients    *)
(* and /users/:id/deliveries.  A reader walks one list from page 1 until a *)
(* page is not full, one request at a time, while other requests write the *)
(* tables; those writes are modelled here by what they leave in the rows.  *)
(***************************************************************************)
EXTENDS Integers, Sequences, SequencesExt, FiniteSets, FiniteSetsExt

CONSTANTS
  Readers,       \* clients
  Orders,        \* ids of orders
  Users,         \* ids of users
  Admins,        \* users with the ADMIN role
  Cpfs,
  CreatedAt,     \* the Date each order and user was created with
  PageSize,      \* rows of a page
  Asks,          \* the lists a reader may ask for
  OrderRows,     \* the rows an order may have
  InitialOrders, InitialUsers,
  NoOrder, NoUser, NoCpf,
  NoAsk,         \* a reader that has asked for nothing
  MaxWrites      \* bound: writes of other requests

Lists == {"orders", "nearby", "couriers", "recipients", "deliveries"}

\* What a reader asks for: by is the caller, user the :id of the path.
AskType == [list : Lists, by : Users, user : Users]

ASSUME AsksAssumption == Asks \subseteq AskType /\ NoAsk \notin AskType
ASSUME ListRowsAssumption ==
  /\ OrderRows \subseteq [recipient : Users, courier : Users \cup {NoUser}, near : BOOLEAN]
  /\ CreatedAt \in [Orders \cup Users -> Nat]
  /\ InitialOrders \in [Orders -> OrderRows \cup {NoOrder}]
  /\ InitialUsers \in [Users -> Cpfs \cup {NoCpf}]

\* A table has finitely many rows, the one of users a unique index on cpf, and
\* an order whose courier is not its recipient may lose him (SET NULL).
ASSUME ListTablesAssumption ==
  /\ IsFiniteSet({o \in Orders : InitialOrders[o] # NoOrder})
  /\ IsFiniteSet({u \in Users : InitialUsers[u] # NoCpf})
  /\ \A u, v \in Users : u # v /\ InitialUsers[u] = InitialUsers[v] => InitialUsers[u] = NoCpf
  /\ \A row \in OrderRows :
       row.courier # row.recipient => [row EXCEPT !.courier = NoUser] \in OrderRows
ASSUME ListNullsAssumption == NoOrder \notin OrderRows /\ NoUser \notin Users /\ NoCpf \notin Cpfs
ASSUME ListBoundsAssumption == PageSize \in Nat \ {0} /\ MaxWrites \in Nat /\ Admins \subseteq Users

VARIABLES
  orders,   \* orders table: row of each id, or NoOrder
  users,    \* users table: CPF of each id, or NoCpf
  marked,   \* ids the event registry holds a mark of
  ask,      \* what each reader asked for
  at,       \* where each reader's request waits
  page,     \* pages each reader has been answered
  cpf,      \* the CPF the first query of a deliveries request found
  got,      \* the items each reader was answered, page after page
  during,   \* history: what became of the list during the walk
  writes    \* writes so far

tables == <<orders, users>>
listVars == <<tables, marked, ask, at, page, cpf, got, during, writes>>

\* An item: the row it is made of, and what the answer says of that row: the
\* recipient of an order, the role a user has in a delivery, a user's own id.
Items == (Orders \cup Users) \X (Users \cup {NoUser, "RECIPIENT", "COURIER"})

\* Whether rows came or went, the rows that stayed, the rows ever listed.
Histories == [grew : BOOLEAN, shrank : BOOLEAN,
              stayed : SUBSET (Orders \cup Users), ever : SUBSET (Orders \cup Users)]

ListsTypeOK ==
  /\ orders \in [Orders -> OrderRows \cup {NoOrder}]
  /\ users \in [Users -> Cpfs \cup {NoCpf}]
  /\ marked \subseteq Users
  /\ ask \in [Readers -> AskType \cup {NoAsk}]
  /\ at \in [Readers -> {"idle", "auth", "user", "query", "end", "refused"}]
  /\ page \in [Readers -> Nat]
  /\ cpf \in [Readers -> Cpfs \cup {NoCpf}]
  /\ got \in [Readers -> Seq(Items)]
  /\ during \in [Readers -> Histories]
  /\ writes \in 0..MaxWrites

Nothing == [grew |-> FALSE, shrank |-> FALSE, stayed |-> {}, ever |-> {}]

ListsInit ==
  /\ orders = InitialOrders
  /\ users = InitialUsers
  /\ marked = {}
  /\ ask = [r \in Readers |-> NoAsk]
  /\ at = [r \in Readers |-> "idle"]
  /\ page = [r \in Readers |-> 0]
  /\ cpf = [r \in Readers |-> NoCpf]
  /\ got = [r \in Readers |-> <<>>]
  /\ during = [r \in Readers |-> Nothing]
  /\ writes = 0

-----------------------------------------------------------------------------

(* Queries *)

OrderIds == {o \in Orders : orders[o] # NoOrder}
UserIds == {u \in Users : users[u] # NoCpf}

HasCpf(u, c) == u # NoUser /\ users[u] = c

\* The distance is abstracted to whether an order is near.
NearbyOrders == {o \in OrderIds : orders[o].near}

OrdersWith(c) == {o \in OrderIds : HasCpf(orders[o].recipient, c) \/ HasCpf(orders[o].courier, c)}

\* The rows of a list.  The lists of couriers and of recipients select every
\* user.
Listed(a, c) ==
  CASE a.list = "orders" -> OrderIds
    [] a.list = "nearby" -> NearbyOrders
    [] a.list \in {"couriers", "recipients"} -> UserIds
    [] a.list = "deliveries" -> OrdersWith(c)

\* A sort that looks at no date.
NewestFirstNot(s) == TRUE

\* ORDER BY created_at DESC: rows of one Date come in any order.
NewestFirst(s) == \A i, j \in DOMAIN s : i < j => CreatedAt[s[i]] >= CreatedAt[s[j]]

\* An OFFSET that forgets that pages are counted from one.
PageFromZero(s, p) ==
  SubSeq(s, p * PageSize + 1, Min({Len(s), (p + 1) * PageSize}))

\* LIMIT and OFFSET of page p.
PageOf(s, p) ==
  SubSeq(s, (p - 1) * PageSize + 1, Min({Len(s), p * PageSize}))

\* A page is cut out of one of the orders PostgreSQL may produce; the query of
\* the deliveries states none.
Pages(a, c, p) ==
  {PageOf(s, p) : s \in {q \in SetToSeqs(Listed(a, c)) :
                           a.list # "deliveries" => NewestFirst(q)}}

\* A flatMap that takes the courier for the recipient.
DeliveriesSwapped(o, c) ==
  (IF HasCpf(orders[o].recipient, c) THEN << <<o, "COURIER">> >> ELSE <<>>) \o
  (IF HasCpf(orders[o].courier, c) THEN << <<o, "RECIPIENT">> >> ELSE <<>>)

\* The items findByCpf makes of one order.
Deliveries(o, c) ==
  (IF HasCpf(orders[o].recipient, c) THEN << <<o, "RECIPIENT">> >> ELSE <<>>) \o
  (IF HasCpf(orders[o].courier, c) THEN << <<o, "COURIER">> >> ELSE <<>>)

\* The raw query of the nearby list returns the columns under their names in
\* the database, so the mapper finds no recipientId and makes up an id.
ItemsOf(a, c, x) ==
  CASE a.list = "orders" -> << <<x, orders[x].recipient>> >>
    [] a.list = "nearby" -> << <<x, NoUser>> >>
    [] a.list \in {"couriers", "recipients"} -> << <<x, x>> >>
    [] a.list = "deliveries" -> Deliveries(x, c)

Answer(a, c, rows) == FlattenSeq([i \in DOMAIN rows |-> ItemsOf(a, c, rows[i])])

-----------------------------------------------------------------------------

(* Requests *)

\* A reader asks for page 1 of a list, later for the next one.  A page below 1
\* is refused before the use case and changes nothing.
Ask(r, list, first) ==
  /\ at[r] = "idle"
  /\ \E a \in Asks :
       /\ a.list = list
       /\ ask[r] \in {NoAsk, a}
       /\ ask' = [ask EXCEPT ![r] = a]
  /\ at' = [at EXCEPT ![r] = first]
  /\ UNCHANGED <<tables, marked, page, cpf, got, during, writes>>

GetOrders(r) == Ask(r, "orders", "auth")
GetCouriers(r) == Ask(r, "couriers", "auth")
GetRecipients(r) == Ask(r, "recipients", "auth")

\* Anyone may ask for the orders near a place, and for anyone's deliveries.
FetchOrdersNearby(r) == Ask(r, "nearby", "query")
FetchUserDeliveries(r) == Ask(r, "deliveries", "user")

AdminOnly(r) ==
  /\ at[r] = "auth"
  /\ at' = [at EXCEPT ![r] = IF ask[r].by \in UserIds \cap Admins THEN "query" ELSE "refused"]
  /\ UNCHANGED <<tables, marked, ask, page, cpf, got, during, writes>>

FindUserOf(r) ==
  /\ at[r] = "user"
  /\ cpf' = [cpf EXCEPT ![r] = users[ask[r].user]]
  /\ at' = [at EXCEPT ![r] = IF ask[r].user \in UserIds THEN "query" ELSE "refused"]
  /\ UNCHANGED <<tables, marked, ask, page, got, during, writes>>

\* An Order.create that raises an event, as Courier.create does.
MarksOfAll(a, rows) == IF a.list = "recipients" THEN {} ELSE Range(rows)

\* Courier.create raises an event for each row of the list of couriers, which
\* marks its id; the other entities of the lists raise none.
MarksOf(a, rows) == IF a.list = "couriers" THEN Range(rows) ELSE {}

\* The SELECT, and what is made of its rows with no await in between.
Query(r) ==
  /\ at[r] = "query"
  /\ \E rows \in Pages(ask[r], cpf[r], page[r] + 1) :
       LET items == Answer(ask[r], cpf[r], rows) IN
       /\ got' = [got EXCEPT ![r] = @ \o items]
       /\ at' = [at EXCEPT ![r] = IF Len(items) < PageSize THEN "end" ELSE "idle"]
       /\ marked' = marked \cup MarksOf(ask[r], rows)
  /\ page' = [page EXCEPT ![r] = @ + 1]
  /\ during' = [during EXCEPT ![r] =
       IF page[r] > 0 THEN @
       ELSE [grew |-> FALSE, shrank |-> FALSE,
             stayed |-> Listed(ask[r], cpf[r]), ever |-> Listed(ask[r], cpf[r])]]
  /\ UNCHANGED <<tables, ask, cpf, writes>>

-----------------------------------------------------------------------------

(* What other requests leave in the tables.  Dates are set before the INSERT, *)
(* so a row may appear below older ones.                                      *)

Follow(was, now, d) ==
  [grew |-> d.grew \/ ~(now \subseteq was), shrank |-> d.shrank \/ ~(was \subseteq now),
   stayed |-> d.stayed \cap now, ever |-> d.ever \cup now]

\* What a write does to the lists that are being walked.
Write ==
  /\ writes < MaxWrites
  /\ writes' = writes + 1
  /\ UNCHANGED <<ask, at, page, cpf, got>>
  /\ during' = [r \in Readers |->
       IF page[r] = 0 THEN during[r]
       ELSE Follow(Listed(ask[r], cpf[r]), Listed(ask[r], cpf[r])', during[r])]

Known(row) == row.recipient \in UserIds /\ row.courier \in UserIds \cup {NoUser}

\* POST /orders and PUT /orders/:id and the changes of status.
PutOrder(o) ==
  /\ \E row \in OrderRows \ {orders[o]} :
       Known(row) /\ orders' = [orders EXCEPT ![o] = row]
  /\ UNCHANGED <<users, marked>>
  /\ Write

RemoveOrder(o) ==
  /\ orders[o] # NoOrder
  /\ orders' = [orders EXCEPT ![o] = NoOrder]
  /\ UNCHANGED <<users, marked>>
  /\ Write

\* A creation, a registration or an edit; the last two dispatch the events of
\* the id, which takes its mark away.
PutUser(u) ==
  /\ \E c \in Cpfs : /\ \A v \in Users : users[v] # c
                     /\ users' = [users EXCEPT ![u] = c]
  /\ marked' = marked \ {u}
  /\ UNCHANGED orders
  /\ Write

\* A recipient cannot go (RESTRICT), a courier leaves his orders (SET NULL).
RemoveUser(u) ==
  /\ u \in UserIds
  /\ \A o \in OrderIds : orders[o].recipient # u
  /\ users' = [users EXCEPT ![u] = NoCpf]
  /\ orders' = [o \in Orders |->
       IF o \in OrderIds /\ orders[o].courier = u
       THEN [orders[o] EXCEPT !.courier = NoUser]
       ELSE orders[o]]
  /\ UNCHANGED marked
  /\ Write

-----------------------------------------------------------------------------

ListsNext ==
  \/ \E r \in Readers :
       \/ GetOrders(r) \/ GetCouriers(r) \/ GetRecipients(r)
       \/ FetchOrdersNearby(r) \/ FetchUserDeliveries(r)
       \/ AdminOnly(r) \/ FindUserOf(r) \/ Query(r)
  \/ \E o \in Orders : PutOrder(o) \/ RemoveOrder(o)
  \/ \E u \in Users : PutUser(u) \/ RemoveUser(u)

ListsSpec == ListsInit /\ [][ListsNext]_listVars

-----------------------------------------------------------------------------

(* Properties *)

Ordered(r) == ask[r] # NoAsk /\ ask[r].list # "deliveries"

\* Another row that the list held during the walk has the Date of x.
Tied(r, x) == \E y \in during[r].ever \ {x} : CreatedAt[y] = CreatedAt[x]

\* A row that was in an ordered list during a whole walk is missed by it only
\* if some row left the list meanwhile, or if it shares its Date with another.
MissNeedsDeletion ==
  \A r \in Readers :
    at[r] = "end" /\ Ordered(r) /\ ~during[r].shrank =>
      \A x \in during[r].stayed :
        Tied(r, x) \/ \E i \in DOMAIN got[r] : got[r][i][1] = x

\* A walk of an ordered list answers a row twice only if some row came into
\* the list meanwhile, or if it shares its Date with another.
RepeatNeedsInsertion ==
  \A r \in Readers :
    Ordered(r) /\ ~during[r].grew =>
      \A i, j \in DOMAIN got[r] :
        i # j /\ got[r][i][1] = got[r][j][1] => Tied(r, got[r][i][1])

\* The deliveries of a user, as the tables have them now.
DeliveriesOf(u) ==
  {<<o, "RECIPIENT">> : o \in {p \in OrderIds : orders[p].recipient = u}} \cup
  {<<o, "COURIER">> : o \in {p \in OrderIds : orders[p].courier = u}}

\* The users who have a CPF now: one, or none.
HoldersOf(c) == {u \in Users : users[u] = c}

\* Deliveries are looked up by the CPF the user had one query before.  A page
\* holds deliveries of whoever has that CPF by then, in the roles he has: the
\* user's own while his CPF stays, another's when it went to him, nobody's when
\* no one has it, never those of two; and all of them when one page is enough.
DeliveriesFollowCpf ==
  [][\A r \in Readers :
       page'[r] > page[r] /\ ask[r].list = "deliveries"
       => LET told == {got'[r][i] : i \in Len(got[r])+1 .. Len(got'[r])}
              held == UNION {DeliveriesOf(u) : u \in HoldersOf(cpf[r])}
          IN /\ told \subseteq held
             /\ page[r] = 0 /\ Cardinality(held) <= PageSize => told = held]_listVars

\* The answer names the recipient of each order it lists.
OrdersNameRecipients ==
  [][\A r \in Readers :
       /\ page'[r] > page[r]
       /\ ask[r].list \in {"orders", "nearby"}
       => \A i \in Len(got[r])+1 .. Len(got'[r]) :
            got'[r][i][2] = orders[got'[r][i][1]].recipient]_listVars

=============================================================================
