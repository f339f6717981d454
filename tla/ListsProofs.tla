----------------------------- MODULE ListsProofs -----------------------------
(***************************************************************************)
(* Proofs about Lists, for any tables, page size, readers and number of    *)
(* writes: what the pages of a walk miss and repeat, and whose deliveries  *)
(* are answered.                                                           *)
(***************************************************************************)
EXTENDS Lists, SequenceLemmas

-----------------------------------------------------------------------------

(* Pages *)

LEMMA SmallerOfTwo ==
  ASSUME NEW a \in Int, NEW b \in Int
  PROVE  Min({a, b}) = IF a <= b THEN a ELSE b
  BY DEF Min

\* The rows before page p + 1 are those of p pages.
LEMMA RowsBefore ==
  ASSUME NEW p \in Nat
  PROVE  /\ p * PageSize \in Nat
         /\ (p + 1) * PageSize = p * PageSize + PageSize
         /\ (p + 1) - 1 = p
  BY ListBoundsAssumption

LEMMA PageRows ==
  ASSUME NEW X, NEW s \in Seq(X), NEW p \in Nat
  PROVE  LET rows == PageOf(s, p + 1)
             before == p * PageSize
         IN  /\ rows \in Seq(X)
             /\ Len(rows) = IF Len(s) <= before THEN 0
                            ELSE IF Len(s) <= before + PageSize THEN Len(s) - before
                            ELSE PageSize
             /\ \A i \in 1..Len(rows) : before + i \in 1..Len(s) /\ rows[i] = s[before + i]
  <1> DEFINE before == p * PageSize
             m == before + 1
             n == IF Len(s) <= before + PageSize THEN Len(s) ELSE before + PageSize
  <1>1. before \in Nat /\ PageSize \in Nat \ {0} /\ Len(s) \in Nat
    BY RowsBefore, LenProperties, ListBoundsAssumption
  <1>2. PageOf(s, p + 1) = SubSeq(s, m, n)
    <2>1. ((p + 1) - 1) * PageSize = before
      BY RowsBefore
    <2>2. Min({Len(s), (p + 1) * PageSize}) = n
      BY <1>1, RowsBefore, SmallerOfTwo
    <2> HIDE DEF before, n
    <2> QED
      BY <2>1, <2>2 DEF PageOf
  <1> HIDE DEF before
  <1>3. m \in Int /\ n \in Int /\ \A i \in m..n : s[i] \in X
    BY <1>1, ElementOfSeq
  <1>4. /\ SubSeq(s, m, n) \in Seq(X)
        /\ Len(SubSeq(s, m, n)) = IF m <= n THEN n - m + 1 ELSE 0
        /\ \A i \in 1..(n - m + 1) : SubSeq(s, m, n)[i] = s[m + i - 1]
    BY <1>3, SubSeqProperties
  <1>5. Len(SubSeq(s, m, n)) = IF Len(s) <= before THEN 0
                               ELSE IF Len(s) <= before + PageSize THEN Len(s) - before
                               ELSE PageSize
    BY <1>1, <1>4
  <1>6. ASSUME NEW i \in 1..Len(SubSeq(s, m, n))
        PROVE  before + i \in 1..Len(s) /\ SubSeq(s, m, n)[i] = s[before + i]
    <2>1. i \in 1..(n - m + 1) /\ m + i - 1 = before + i
      BY <1>1, <1>4
    <2> QED
      BY <1>1, <1>4, <1>5, <2>1
  <1> QED
    BY <1>2, <1>4, <1>5, <1>6 DEF before

-----------------------------------------------------------------------------

(* Sorted rows *)

\* An order of a finite set lists each of its elements once.
LEMMA OrderOfSet ==
  ASSUME NEW S, IsFiniteSet(S), NEW s \in SetToSeqs(S)
  PROVE  /\ s \in Seq(S) /\ Len(s) = Cardinality(S) /\ Len(s) \in Nat
         /\ \A i, j \in 1..Len(s) : s[i] = s[j] => i = j
         /\ \A x \in S : \E i \in 1..Len(s) : s[i] = x
  <1>1. Cardinality(S) \in Nat
    BY FS_CardinalityType
  <1>2. /\ s \in [1..Cardinality(S) -> S]
        /\ \A i, j \in 1..Cardinality(S) : i # j => s[i] # s[j]
    BY DEF SetToSeqs
  <1>3. s \in Seq(S) /\ Len(s) = Cardinality(S)
    BY <1>1, <1>2
  <1>4. s \in Injection(1..Cardinality(S), S)
    BY <1>2 DEF Injection, IsInjective
  <1>5. Cardinality(1..Cardinality(S)) = Cardinality(S)
    BY <1>1, FS_Interval
  <1>6. s \in Surjection(1..Cardinality(S), S)
    BY <1>4, <1>5, FS_Injection
  <1> QED
    BY <1>1, <1>2, <1>3, <1>6 DEF Surjection

\* The rows of S that are listed before x whatever the order of ties.
Newer(S, x) == {y \in S : CreatedAt[y] > CreatedAt[x]}

LEMMA NewerFinite ==
  ASSUME NEW S, IsFiniteSet(S), NEW x
  PROVE  IsFiniteSet(Newer(S, x)) /\ Cardinality(Newer(S, x)) \in Nat
  <1>1. Newer(S, x) \in SUBSET S
    BY DEF Newer
  <1> QED
    BY <1>1, FS_Subset, FS_CardinalityType

LEMMA NewerGrows ==
  ASSUME NEW S, IsFiniteSet(S), NEW T, T \subseteq S, NEW x
  PROVE  Cardinality(Newer(T, x)) <= Cardinality(Newer(S, x))
  <1>1. Newer(T, x) \in SUBSET Newer(S, x)
    BY DEF Newer
  <1> QED
    BY <1>1, NewerFinite, FS_Subset

\* A row that shares its Date with no other has its place in a sorted list.
LEMMA PlaceOfRow ==
  ASSUME NEW S, S \subseteq Orders \cup Users, IsFiniteSet(S),
         NEW s \in SetToSeqs(S), NewestFirst(s), NEW k \in 1..Len(s),
         \A y \in S \ {s[k]} : CreatedAt[y] # CreatedAt[s[k]]
  PROVE  Cardinality(Newer(S, s[k])) = k - 1
  <1>1. /\ s \in Seq(S) /\ Len(s) \in Nat /\ DOMAIN s = 1..Len(s)
        /\ \A i \in 1..Len(s) : s[i] \in S
        /\ \A i, j \in 1..Len(s) : s[i] = s[j] => i = j
        /\ \A x \in S : \E i \in 1..Len(s) : s[i] = x
    BY OrderOfSet, LenProperties, ElementOfSeq
  <1>2. \A y \in S : CreatedAt[y] \in Nat
    BY ListRowsAssumption
  <1>3. ASSUME NEW i \in 1..Len(s) PROVE i < k <=> CreatedAt[s[i]] > CreatedAt[s[k]]
    <2>1. CASE i < k
      <3>1. CreatedAt[s[i]] >= CreatedAt[s[k]]
        BY <1>1, <2>1 DEF NewestFirst
      <3>2. s[i] \in S \ {s[k]}
        BY <1>1, <2>1
      <3> QED
        BY <1>1, <1>2, <2>1, <3>1, <3>2
    <2>2. CASE i = k
      BY <1>1, <1>2, <2>2
    <2>3. CASE i > k
      <3>1. CreatedAt[s[k]] >= CreatedAt[s[i]]
        BY <1>1, <2>3 DEF NewestFirst
      <3> QED
        BY <1>1, <1>2, <2>3, <3>1
    <2> QED
      BY <2>1, <2>2, <2>3
  <1> DEFINE f == [i \in 1..(k - 1) |-> s[i]]
  <1>4. f \in [1..(k - 1) -> Newer(S, s[k])]
    BY <1>1, <1>3 DEF Newer
  <1>5. f \in Injection(1..(k - 1), Newer(S, s[k]))
    BY <1>1, <1>4 DEF Injection, IsInjective
  <1>6. f \in Surjection(1..(k - 1), Newer(S, s[k]))
    <2>1. ASSUME NEW y \in Newer(S, s[k]) PROVE \E i \in 1..(k - 1) : f[i] = y
      <3>1. PICK i \in 1..Len(s) : s[i] = y
        BY <1>1 DEF Newer
      <3>2. i < k
        BY <1>3, <3>1 DEF Newer
      <3> QED
        BY <3>1, <3>2
    <2> QED
      BY <1>4, <2>1 DEF Surjection
  <1>7. ExistsBijection(1..(k - 1), Newer(S, s[k]))
    BY <1>5, <1>6 DEF ExistsBijection, Bijection
  <1> QED
    BY <1>7, FS_CountingElements

-----------------------------------------------------------------------------

(* Answers *)

LEMMA ListsAreRows ==
  ASSUME ListsTypeOK, NEW a \in AskType, NEW c
  PROVE  /\ Listed(a, c) \subseteq Orders \cup Users
         /\ a.list \in {"orders", "nearby", "deliveries"} => Listed(a, c) \subseteq OrderIds
         /\ a.list \in {"couriers", "recipients"} => Listed(a, c) = UserIds
  BY DEF Listed, AskType, Lists, OrderIds, UserIds, NearbyOrders, OrdersWith

LEMMA OrderRowTyped ==
  ASSUME ListsTypeOK, NEW o \in OrderIds
  PROVE  o \in Orders /\ orders[o].recipient \in Users /\ orders[o].courier \in Users \cup {NoUser}
  BY ListRowsAssumption DEF ListsTypeOK, OrderIds

\* The item an ordered list makes of one row.
ItemOf(a, x) ==
  CASE a.list = "orders" -> <<x, orders[x].recipient>>
    [] a.list = "nearby" -> <<x, NoUser>>
    [] a.list \in {"couriers", "recipients"} -> <<x, x>>

LEMMA ItemTyped ==
  ASSUME ListsTypeOK, NEW a \in AskType, a.list # "deliveries", NEW c, NEW x \in Listed(a, c)
  PROVE  /\ ItemOf(a, x) \in Items /\ ItemOf(a, x)[1] = x
         /\ ItemsOf(a, c, x) = <<ItemOf(a, x)>>
  <1>1. CASE a.list = "orders"
    BY <1>1, ListsAreRows, OrderRowTyped DEF ItemOf, ItemsOf, Items
  <1>2. CASE a.list = "nearby"
    BY <1>2, ListsAreRows, OrderRowTyped DEF ItemOf, ItemsOf, Items
  <1>3. CASE a.list \in {"couriers", "recipients"}
    <2>1. x \in Users
      BY <1>3, ListsAreRows DEF UserIds
    <2> QED
      BY <1>3, <2>1 DEF ItemOf, ItemsOf, Items
  <1> QED
    BY <1>1, <1>2, <1>3 DEF AskType, Lists

\* An ordered list answers one item for each row, in their order.
LEMMA OrderedAnswer ==
  ASSUME ListsTypeOK, NEW a \in AskType, a.list # "deliveries", NEW c,
         NEW rows \in Seq(Listed(a, c))
  PROVE  /\ Answer(a, c, rows) \in Seq(Items)
         /\ Len(Answer(a, c, rows)) = Len(rows)
         /\ \A i \in 1..Len(rows) : Answer(a, c, rows)[i][1] = rows[i]
  <1> DEFINE items == [i \in 1..Len(rows) |-> ItemOf(a, rows[i])]
  <1>1. Len(rows) \in Nat /\ DOMAIN rows = 1..Len(rows)
    BY LenProperties
  <1>2. \A i \in 1..Len(rows) : rows[i] \in Listed(a, c)
    BY ElementOfSeq
  <1>3. items \in Seq(Items) /\ Len(items) = Len(rows)
    BY <1>1, <1>2, ItemTyped
  <1>4. [i \in DOMAIN rows |-> ItemsOf(a, c, rows[i])] = [i \in 1..Len(items) |-> <<items[i]>>]
    <2>1. \A i \in 1..Len(rows) : ItemsOf(a, c, rows[i]) = <<items[i]>>
      BY <1>2, ItemTyped
    <2> HIDE DEF items
    <2> QED
      BY <1>1, <1>3, <2>1
  <1> HIDE DEF items
  <1>5. Answer(a, c, rows) = items
    BY <1>3, <1>4, FlattenSingles DEF Answer
  <1> QED
    BY <1>1, <1>2, <1>3, <1>5, ItemTyped DEF items

\* The items of one order, as a set.
AsRecipient(o, c) == {item \in {<<o, "RECIPIENT">>} : HasCpf(orders[o].recipient, c)}
AsCourier(o, c) == {item \in {<<o, "COURIER">>} : HasCpf(orders[o].courier, c)}

LEMMA DeliveryTyped ==
  ASSUME ListsTypeOK, NEW c, NEW o \in OrderIds
  PROVE  /\ Deliveries(o, c) \in Seq(Items)
         /\ Range(Deliveries(o, c)) = AsRecipient(o, c) \cup AsCourier(o, c)
  <1> DEFINE first == IF HasCpf(orders[o].recipient, c) THEN << <<o, "RECIPIENT">> >> ELSE <<>>
             second == IF HasCpf(orders[o].courier, c) THEN << <<o, "COURIER">> >> ELSE <<>>
  <1>1. <<o, "RECIPIENT">> \in Items /\ <<o, "COURIER">> \in Items
    BY OrderRowTyped DEF Items
  <1>2. first \in Seq(Items) /\ second \in Seq(Items)
    BY <1>1
  <1>3. Range(first) = AsRecipient(o, c) /\ Range(second) = AsCourier(o, c)
    BY <1>1 DEF Range, AsRecipient, AsCourier
  <1>4. Deliveries(o, c) = first \o second
    BY DEF Deliveries
  <1> HIDE DEF first, second
  <1> QED
    BY <1>2, <1>3, <1>4, ConcatProperties, RangeConcatenation

\* The deliveries answered are those of the rows.
LEMMA DeliveriesAnswer ==
  ASSUME ListsTypeOK, NEW a \in AskType, a.list = "deliveries", NEW c,
         NEW rows \in Seq(Listed(a, c))
  PROVE  /\ Answer(a, c, rows) \in Seq(Items)
         /\ Range(Answer(a, c, rows)) = UNION {Range(Deliveries(rows[i], c)) : i \in 1..Len(rows)}
  <1> DEFINE parts == [i \in 1..Len(rows) |-> Deliveries(rows[i], c)]
  <1>1. Len(rows) \in Nat /\ DOMAIN rows = 1..Len(rows)
    BY LenProperties
  <1>2. \A i \in 1..Len(rows) : rows[i] \in OrderIds
    BY ElementOfSeq, ListsAreRows
  <1>3. parts \in Seq(Seq(Items)) /\ Len(parts) = Len(rows)
    BY <1>1, <1>2, DeliveryTyped
  <1>4. Answer(a, c, rows) = FlattenSeq(parts)
    BY <1>1 DEF Answer, ItemsOf
  <1>5. \A i \in 1..Len(rows) : parts[i] = Deliveries(rows[i], c)
    OBVIOUS
  <1> HIDE DEF parts
  <1>6. Range(Answer(a, c, rows)) = UNION {Range(parts[i]) : i \in 1..Len(parts)}
    BY <1>3, <1>4, FlattenRange
  <1> QED
    BY <1>3, <1>4, <1>5, <1>6, FlattenType

LEMMA AnswerTyped ==
  ASSUME ListsTypeOK, NEW a \in AskType, NEW c, NEW rows \in Seq(Listed(a, c))
  PROVE  Answer(a, c, rows) \in Seq(Items)
  BY OrderedAnswer, DeliveriesAnswer

-----------------------------------------------------------------------------

(* The invariant *)

\* Tables have finitely many rows, and no two users one CPF.
TablesOK ==
  /\ IsFiniteSet(OrderIds) /\ IsFiniteSet(UserIds)
  /\ \A u, v \in Users : u # v /\ users[u] = users[v] => users[u] = NoCpf

\* Where a request may wait, and what its reader has by then.
WayThere(r) ==
  /\ at[r] # "idle" \/ page[r] > 0 => ask[r] \in AskType
  /\ at[r] = "auth" => ask[r].list # "deliveries"
  /\ at[r] = "user" => ask[r].list = "deliveries"
  /\ at[r] = "query" /\ ask[r].list = "deliveries" => cpf[r] \in Cpfs
  /\ page[r] = 0 => got[r] = <<>> /\ at[r] # "end"

\* The list a reader walks, as the tables have it now.
ListOf(r) == Listed(ask[r], cpf[r])

Walking(r) == Ordered(r) /\ page[r] > 0

\* Another of these rows has the Date of x.
TiedIn(rows, x) == \E y \in rows \ {x} : CreatedAt[y] = CreatedAt[x]

Told(r, x) == \E i \in DOMAIN got[r] : got[r][i][1] = x

\* The history holds the list between the rows that stayed and those ever in it.
HistoryHolds(r) ==
  Walking(r) => during[r].stayed \subseteq ListOf(r) /\ ListOf(r) \subseteq during[r].ever

\* While no row comes in, what was answered is among the rows before the next
\* page.
GotAreBefore(r) ==
  Walking(r) /\ ~during[r].grew =>
    \A i \in DOMAIN got[r] :
      \/ TiedIn(during[r].ever, got[r][i][1])
      \/ Cardinality(Newer(ListOf(r), got[r][i][1])) < page[r] * PageSize

\* While no row leaves, what was not answered is still to come.
OthersAreBehind(r) ==
  Walking(r) /\ ~during[r].shrank =>
    \A x \in during[r].stayed :
      \/ TiedIn(during[r].ever, x) \/ Told(r, x)
      \/ at[r] # "end" /\ Cardinality(Newer(ListOf(r), x)) >= page[r] * PageSize

RepeatsAreTied(r) ==
  Walking(r) /\ ~during[r].grew =>
    \A i, j \in DOMAIN got[r] :
      i # j /\ got[r][i][1] = got[r][j][1] =>
        TiedIn(during[r].ever, got[r][i][1])

WalkClaims(r) ==
  HistoryHolds(r) /\ GotAreBefore(r) /\ OthersAreBehind(r) /\ RepeatsAreTied(r)

ListsInv ==
  ListsTypeOK /\ TablesOK /\ \A r \in Readers : WayThere(r) /\ WalkClaims(r)

LEMMA ListsInitHolds == ListsInit => ListsInv
  <1> SUFFICES ASSUME ListsInit PROVE ListsInv
    OBVIOUS
  <1>1. ListsTypeOK
    BY ListRowsAssumption, ListBoundsAssumption
       DEF ListsInit, ListsTypeOK, Histories, Nothing
  <1>2. TablesOK
    BY ListTablesAssumption DEF ListsInit, TablesOK, OrderIds, UserIds
  <1>3. ASSUME NEW r \in Readers PROVE WayThere(r) /\ WalkClaims(r)
    BY DEF ListsInit, WayThere, WalkClaims, HistoryHolds, GotAreBefore, OthersAreBehind,
       RepeatsAreTied, Walking
  <1> QED
    BY <1>1, <1>2, <1>3 DEF ListsInv

-----------------------------------------------------------------------------

(* Requests before their query *)

\* Claims stay when nothing they are about changes.
LEMMA ClaimsStay ==
  ASSUME ListsInv, NEW q \in Readers, UNCHANGED tables,
         page'[q] = page[q], got'[q] = got[q], during'[q] = during[q],
         page[q] > 0 => ask'[q] = ask[q],
         Ordered(q)' /\ page[q] > 0 => cpf'[q] = cpf[q] /\ (at'[q] = "end" => at[q] = "end")
  PROVE  WalkClaims(q)'
  <1> SUFFICES ASSUME Walking(q)' PROVE WalkClaims(q)'
    BY DEF WalkClaims, HistoryHolds, GotAreBefore, OthersAreBehind, RepeatsAreTied
  <1>1. ask'[q] = ask[q] /\ cpf'[q] = cpf[q] /\ Walking(q) /\ (at'[q] = "end" => at[q] = "end")
    BY DEF Walking, Ordered
  <1>2. ListOf(q)' = ListOf(q)
    BY <1>1 DEF ListOf, Listed, OrderIds, UserIds, NearbyOrders, OrdersWith, HasCpf, tables
  <1>3. WalkClaims(q)
    BY DEF ListsInv
  <1>4. HistoryHolds(q)'
    BY <1>1, <1>2, <1>3 DEF WalkClaims, HistoryHolds
  <1>5. \A x : Newer(ListOf(q), x)' = Newer(ListOf(q), x)
    BY <1>2 DEF Newer
  <1>6. \A x : Told(q, x)' <=> Told(q, x)
    BY DEF Told
  <1>7. GotAreBefore(q)' /\ OthersAreBehind(q)' /\ RepeatsAreTied(q)'
    BY <1>1, <1>2, <1>3, <1>6
       DEF WalkClaims, GotAreBefore, OthersAreBehind, RepeatsAreTied, Newer
  <1> QED
    BY <1>4, <1>7 DEF WalkClaims

LEMMA AskKeeps ==
  ASSUME ListsInv, NEW r \in Readers, NEW list \in Lists,
         NEW first \in {"auth", "user", "query"}, Ask(r, list, first),
         first = "auth" => list # "deliveries", first = "user" <=> list = "deliveries"
  PROVE  ListsInv'
  <1>1. PICK a \in Asks : /\ a.list = list /\ ask[r] \in {NoAsk, a}
                          /\ ask' = [ask EXCEPT ![r] = a]
    BY DEF Ask
  <1>2. a \in AskType /\ at[r] = "idle" /\ at' = [at EXCEPT ![r] = first]
        /\ UNCHANGED <<tables, marked, page, cpf, got, during, writes>>
    BY AsksAssumption DEF Ask
  <1>3. ListsTypeOK'
    BY <1>1, <1>2 DEF ListsInv, ListsTypeOK, tables
  <1>4. TablesOK'
    BY <1>2 DEF ListsInv, TablesOK, OrderIds, UserIds, tables
  <1>5. ASSUME NEW q \in Readers PROVE WayThere(q)'
    BY <1>1, <1>2 DEF ListsInv, ListsTypeOK, WayThere
  <1>6. ASSUME NEW q \in Readers PROVE WalkClaims(q)'
    <2>1. page[q] > 0 => ask'[q] = ask[q]
      BY <1>1, <1>2, AsksAssumption DEF ListsInv, ListsTypeOK, WayThere
    <2>2. at'[q] = "end" => at[q] = "end"
      BY <1>2 DEF ListsInv, ListsTypeOK
    <2> QED
      BY <1>2, <2>1, <2>2, ClaimsStay
  <1> QED
    BY <1>3, <1>4, <1>5, <1>6 DEF ListsInv

LEMMA AdminOnlyKeeps ==
  ASSUME ListsInv, NEW r \in Readers, AdminOnly(r)
  PROVE  ListsInv'
  <1>1. PICK place \in {"query", "refused"} : at' = [at EXCEPT ![r] = place]
    BY DEF AdminOnly
  <1>2. at[r] = "auth" /\ UNCHANGED <<tables, marked, ask, page, cpf, got, during, writes>>
    BY DEF AdminOnly
  <1>3. ListsTypeOK'
    BY <1>1, <1>2 DEF ListsInv, ListsTypeOK, tables
  <1>4. TablesOK'
    BY <1>2 DEF ListsInv, TablesOK, OrderIds, UserIds, tables
  <1>5. ASSUME NEW q \in Readers PROVE WayThere(q)'
    BY <1>1, <1>2 DEF ListsInv, ListsTypeOK, WayThere
  <1>6. ASSUME NEW q \in Readers PROVE WalkClaims(q)'
    <2>1. at'[q] = "end" => at[q] = "end"
      BY <1>1 DEF ListsInv, ListsTypeOK
    <2> QED
      BY <1>2, <2>1, ClaimsStay
  <1> QED
    BY <1>3, <1>4, <1>5, <1>6 DEF ListsInv

LEMMA FindUserKeeps ==
  ASSUME ListsInv, NEW r \in Readers, FindUserOf(r)
  PROVE  ListsInv'
  <1>1. PICK place \in {"query", "refused"} :
          /\ at' = [at EXCEPT ![r] = place]
          /\ place = "query" => ask[r].user \in UserIds
    BY DEF FindUserOf
  <1>2. at[r] = "user" /\ cpf' = [cpf EXCEPT ![r] = users[ask[r].user]]
        /\ UNCHANGED <<tables, marked, ask, page, got, during, writes>>
    BY DEF FindUserOf
  <1>3. ask[r] \in AskType /\ ask[r].list = "deliveries" /\ users[ask[r].user] \in Cpfs \cup {NoCpf}
    BY <1>2 DEF ListsInv, ListsTypeOK, WayThere, AskType
  <1>4. ListsTypeOK'
    BY <1>1, <1>2, <1>3 DEF ListsInv, ListsTypeOK, tables
  <1>5. TablesOK'
    BY <1>2 DEF ListsInv, TablesOK, OrderIds, UserIds, tables
  <1>6. ASSUME NEW q \in Readers PROVE WayThere(q)'
    BY <1>1, <1>2, <1>3 DEF ListsInv, ListsTypeOK, WayThere, UserIds
  <1>7. ASSUME NEW q \in Readers PROVE WalkClaims(q)'
    <2>1. Ordered(q)' => q # r
      BY <1>2, <1>3 DEF Ordered
    <2>2. q # r => at'[q] = at[q] /\ cpf'[q] = cpf[q]
      BY <1>1, <1>2 DEF ListsInv, ListsTypeOK
    <2> QED
      BY <1>2, <2>1, <2>2, ClaimsStay
  <1> QED
    BY <1>4, <1>5, <1>6, <1>7 DEF ListsInv

-----------------------------------------------------------------------------

(* Queries *)

LEMMA ListFinite ==
  ASSUME ListsInv, NEW a \in AskType, NEW c
  PROVE  IsFiniteSet(Listed(a, c))
  <1>1. Listed(a, c) \in SUBSET OrderIds \/ Listed(a, c) = UserIds
    BY ListsAreRows DEF ListsInv, AskType, Lists
  <1> QED
    BY <1>1, FS_Subset DEF ListsInv, TablesOK

\* What a query does to its reader, with the sorted list s it reads a page of.
Reads(r, s, rows, items) ==
  /\ rows = PageOf(s, page[r] + 1)
  /\ items = Answer(ask[r], cpf[r], rows)
  /\ got' = [got EXCEPT ![r] = @ \o items]
  /\ at' = [at EXCEPT ![r] = IF Len(items) < PageSize THEN "end" ELSE "idle"]
  /\ page' = [page EXCEPT ![r] = @ + 1]
  /\ during' = [during EXCEPT ![r] =
       IF page[r] > 0 THEN @
       ELSE [grew |-> FALSE, shrank |-> FALSE, stayed |-> ListOf(r), ever |-> ListOf(r)]]
  /\ marked' = marked \cup MarksOf(ask[r], rows)
  /\ UNCHANGED <<tables, ask, cpf, writes>>

LEMMA QueryReads ==
  ASSUME ListsInv, NEW r \in Readers, Query(r)
  PROVE  \E s, rows, items :
           s \in SetToSeqs(ListOf(r)) /\ Reads(r, s, rows, items) /\ (ask[r].list # "deliveries" => NewestFirst(s))
  BY DEF Query, Pages, Reads, ListOf

\* The page and its items, for the reader of any list.
LEMMA ReadsTyped ==
  ASSUME ListsInv, NEW r \in Readers, at[r] = "query", NEW s \in SetToSeqs(ListOf(r)),
         NEW rows, NEW items, Reads(r, s, rows, items)
  PROVE  /\ ask[r] \in AskType /\ page[r] \in Nat /\ got[r] \in Seq(Items)
         /\ IsFiniteSet(ListOf(r)) /\ ListOf(r) \subseteq Orders \cup Users
         /\ s \in Seq(ListOf(r)) /\ Len(s) \in Nat
         /\ rows \in Seq(ListOf(r)) /\ Len(rows) \in Nat
         /\ items \in Seq(Items) /\ Len(items) \in Nat
         /\ page'[r] = page[r] + 1 /\ got'[r] = got[r] \o items
  <1>1. ask[r] \in AskType /\ page[r] \in Nat /\ got[r] \in Seq(Items)
    BY DEF ListsInv, ListsTypeOK, WayThere
  <1>2. IsFiniteSet(ListOf(r)) /\ ListOf(r) \subseteq Orders \cup Users
    BY <1>1, ListFinite, ListsAreRows DEF ListsInv, ListOf
  <1>3. s \in Seq(ListOf(r)) /\ Len(s) \in Nat
    BY <1>2, OrderOfSet
  <1>4. rows \in Seq(ListOf(r)) /\ Len(rows) \in Nat
    BY <1>1, <1>3, PageRows, LenProperties DEF Reads
  <1>5. items \in Seq(Items) /\ Len(items) \in Nat
    BY <1>1, <1>4, AnswerTyped, LenProperties DEF ListsInv, Reads, ListOf
  <1>6. page'[r] = page[r] + 1 /\ got'[r] = got[r] \o items
    BY DEF ListsInv, ListsTypeOK, Reads
  <1> QED
    BY <1>1, <1>2, <1>3, <1>4, <1>5, <1>6

LEMMA QueryKeepsTypes ==
  ASSUME ListsInv, NEW r \in Readers, at[r] = "query", NEW s \in SetToSeqs(ListOf(r)),
         NEW rows, NEW items, Reads(r, s, rows, items)
  PROVE  ListsTypeOK' /\ TablesOK' /\ \A q \in Readers : WayThere(q)'
  <1>1. /\ ask[r] \in AskType /\ page[r] \in Nat
        /\ ListOf(r) \subseteq Orders \cup Users /\ rows \in Seq(ListOf(r))
        /\ got[r] \o items \in Seq(Items)
    BY ReadsTyped, ConcatProperties
  <1>2. MarksOf(ask[r], rows) \subseteq Users
    <2>1. CASE ask[r].list = "couriers"
      <3>1. Range(rows) \subseteq ListOf(r) /\ ListOf(r) = UserIds
        BY <1>1, <2>1, RangeOfSeq, ListsAreRows DEF ListOf, ListsInv
      <3> QED
        BY <2>1, <3>1 DEF MarksOf, UserIds
    <2>2. CASE ask[r].list # "couriers"
      BY <2>2 DEF MarksOf
    <2> QED
      BY <2>1, <2>2
  <1>3. marked' \subseteq Users /\ UNCHANGED <<orders, users, ask, cpf, writes>>
    BY <1>2 DEF Reads, tables, ListsInv, ListsTypeOK
  <1>4. got' \in [Readers -> Seq(Items)] /\ page' \in [Readers -> Nat]
    BY <1>1 DEF Reads, ListsInv, ListsTypeOK
  <1>5. at' \in [Readers -> {"idle", "auth", "user", "query", "end", "refused"}]
    BY DEF Reads, ListsInv, ListsTypeOK
  <1>6. during' \in [Readers -> Histories]
    BY <1>1 DEF Reads, ListsInv, ListsTypeOK, Histories
  <1>7. ListsTypeOK'
    BY <1>3, <1>4, <1>5, <1>6 DEF ListsInv, ListsTypeOK
  <1>8. TablesOK'
    BY <1>3 DEF ListsInv, TablesOK, OrderIds, UserIds
  <1>9. ASSUME NEW q \in Readers PROVE WayThere(q)'
    <2>1. CASE q = r
      BY <1>1, <1>3, <2>1 DEF ListsInv, ListsTypeOK, WayThere, Reads
    <2>2. CASE q # r
      BY <1>3, <2>2 DEF ListsInv, ListsTypeOK, WayThere, Reads
    <2> QED
      BY <2>1, <2>2
  <1> QED
    BY <1>7, <1>8, <1>9

\* The page of an ordered list: where its rows are, and that it is full unless
\* it reaches the end.
LEMMA OrderedPage ==
  ASSUME ListsInv, NEW r \in Readers, at[r] = "query", NEW s \in SetToSeqs(ListOf(r)),
         NEW rows, NEW items, Reads(r, s, rows, items), Ordered(r)
  PROVE  LET before == page[r] * PageSize IN
         /\ before \in Nat /\ PageSize \in Nat
         /\ page'[r] * PageSize = before + PageSize
         /\ Len(items) = Len(rows) /\ Len(rows) <= PageSize
         /\ Len(items) < PageSize => Len(s) < before + PageSize
         /\ \A i \in 1..Len(items) : /\ before + i \in 1..Len(s)
                                     /\ items[i][1] = s[before + i]
         /\ \A k \in 1..Len(s) : k > before /\ k <= before + PageSize =>
              k - before \in 1..Len(items)
  <1> DEFINE before == page[r] * PageSize
  <1>1. /\ ask[r] \in AskType /\ page[r] \in Nat /\ s \in Seq(ListOf(r)) /\ Len(s) \in Nat
        /\ rows \in Seq(ListOf(r)) /\ page'[r] = page[r] + 1
    BY ReadsTyped
  <1>2. /\ before \in Nat /\ PageSize \in Nat \ {0}
        /\ page'[r] * PageSize = before + PageSize
    BY <1>1, RowsBefore, ListBoundsAssumption
  <1>3. /\ Len(rows) = IF Len(s) <= before THEN 0
                       ELSE IF Len(s) <= before + PageSize THEN Len(s) - before
                       ELSE PageSize
        /\ \A i \in 1..Len(rows) : before + i \in 1..Len(s) /\ rows[i] = s[before + i]
    BY <1>1, PageRows DEF Reads
  <1>4. Len(items) = Len(rows) /\ \A i \in 1..Len(rows) : items[i][1] = rows[i]
    BY <1>1, OrderedAnswer DEF ListsInv, Reads, ListOf, Ordered
  <1> HIDE DEF before
  <1>5. Len(rows) <= PageSize /\ (Len(rows) < PageSize => Len(s) < before + PageSize)
    BY <1>1, <1>2, <1>3
  <1>6. \A k \in 1..Len(s) : k > before /\ k <= before + PageSize => k - before \in 1..Len(rows)
    BY <1>1, <1>2, <1>3
  <1> QED
    BY <1>2, <1>3, <1>4, <1>5, <1>6 DEF before

\* What was answered before, and the page after it.
LEMMA GotAfter ==
  ASSUME NEW old \in Seq(Items), NEW items \in Seq(Items)
  PROVE  /\ DOMAIN (old \o items) = 1..(Len(old) + Len(items))
         /\ DOMAIN old = 1..Len(old) /\ Len(old) \in Nat /\ Len(items) \in Nat
         /\ \A i \in 1..Len(old) : (old \o items)[i] = old[i]
         /\ \A j \in 1..Len(items) : (old \o items)[Len(old) + j] = items[j]
         /\ \A i \in 1..(Len(old) + Len(items)) :
              i \in 1..Len(old) \/ \E j \in 1..Len(items) : i = Len(old) + j
  <1>1. /\ old \o items \in Seq(Items) /\ Len(old \o items) = Len(old) + Len(items)
        /\ Len(old) \in Nat /\ Len(items) \in Nat /\ DOMAIN old = 1..Len(old)
        /\ \A i \in 1..(Len(old) + Len(items)) :
             (old \o items)[i] = IF i <= Len(old) THEN old[i] ELSE items[i - Len(old)]
    BY ConcatProperties, LenProperties
  <1>2. DOMAIN (old \o items) = 1..(Len(old) + Len(items))
    BY <1>1, LenProperties
  <1>3. \A j \in 1..Len(items) :
          Len(old) + j \in 1..(Len(old) + Len(items)) /\ ~(Len(old) + j <= Len(old))
            /\ (Len(old) + j) - Len(old) = j
    BY <1>1
  <1>4. \A j \in 1..Len(items) : (old \o items)[Len(old) + j] = items[j]
    BY <1>1, <1>3
  <1>5. ASSUME NEW i \in 1..(Len(old) + Len(items)), i \notin 1..Len(old)
        PROVE  \E j \in 1..Len(items) : i = Len(old) + j
    <2>1. i - Len(old) \in 1..Len(items) /\ i = Len(old) + (i - Len(old))
      BY <1>1, <1>5
    <2> QED
      BY <2>1
  <1>6. \A i \in 1..Len(old) : (old \o items)[i] = old[i]
    BY <1>1
  <1> QED
    BY <1>1, <1>2, <1>4, <1>5, <1>6

\* The history after the query.
LEMMA HistoryAfter ==
  ASSUME ListsInv, NEW r \in Readers, NEW s, NEW rows, NEW items, Reads(r, s, rows, items),
         Ordered(r), at[r] = "query"
  PROVE  /\ ListOf(r)' = ListOf(r)
         /\ during'[r].stayed \subseteq ListOf(r) /\ ListOf(r) \subseteq during'[r].ever
         /\ page[r] > 0 => during'[r] = during[r] /\ Walking(r)
         /\ Ordered(r)' /\ page[r] \in Nat
  <1>1. ListOf(r)' = ListOf(r)
    BY DEF Reads, ListOf, Listed, OrderIds, UserIds, NearbyOrders, OrdersWith, HasCpf, tables
  <1>2. during'[r] = IF page[r] > 0 THEN during[r]
                     ELSE [grew |-> FALSE, shrank |-> FALSE,
                           stayed |-> ListOf(r), ever |-> ListOf(r)]
    BY DEF Reads, ListsInv, ListsTypeOK
  <1>3. page[r] > 0 => during[r].stayed \subseteq ListOf(r) /\ ListOf(r) \subseteq during[r].ever
    BY DEF ListsInv, WalkClaims, HistoryHolds, Walking
  <1> QED
    BY <1>1, <1>2, <1>3 DEF Walking, Ordered, Reads, ListsInv, ListsTypeOK

\* An untied row has one place in the list whatever order it is read in.
LEMMA PlaceInList ==
  ASSUME ListsInv, NEW r \in Readers, at[r] = "query", NEW s \in SetToSeqs(ListOf(r)),
         NEW rows, NEW items, Reads(r, s, rows, items), Ordered(r), NewestFirst(s),
         NEW k \in 1..Len(s), ~TiedIn(during'[r].ever, s[k])
  PROVE  Cardinality(Newer(ListOf(r), s[k])) = k - 1
  <1>1. IsFiniteSet(ListOf(r)) /\ ListOf(r) \subseteq Orders \cup Users
    BY ReadsTyped
  <1>2. ListOf(r) \subseteq during'[r].ever
    BY HistoryAfter
  <1>3. \A y \in ListOf(r) \ {s[k]} : CreatedAt[y] # CreatedAt[s[k]]
    BY <1>2 DEF TiedIn
  <1> QED
    BY <1>1, <1>3, PlaceOfRow

LEMMA QueryKeepsOrderedClaims ==
  ASSUME ListsInv, NEW r \in Readers, at[r] = "query", NEW s \in SetToSeqs(ListOf(r)),
         NEW rows, NEW items, Reads(r, s, rows, items), Ordered(r), NewestFirst(s)
  PROVE  WalkClaims(r)'
  <1> DEFINE before == page[r] * PageSize
             L == ListOf(r)
             old == Len(got[r])
  <1>1. /\ before \in Nat /\ PageSize \in Nat /\ page'[r] * PageSize = before + PageSize
        /\ Len(items) <= PageSize /\ Len(items) \in Nat
        /\ Len(items) < PageSize => Len(s) < before + PageSize
        /\ \A i \in 1..Len(items) : before + i \in 1..Len(s) /\ items[i][1] = s[before + i]
        /\ \A k \in 1..Len(s) : k > before /\ k <= before + PageSize =>
             k - before \in 1..Len(items)
    <2>1. Len(items) \in Nat
      BY ReadsTyped
    <2> HIDE DEF L, old
    <2> QED
      BY <2>1, OrderedPage, SMTT(30)
  <1>2. /\ L' = L /\ during'[r].stayed \subseteq L /\ L \subseteq during'[r].ever
        /\ page[r] > 0 => during'[r] = during[r] /\ Walking(r)
        /\ Ordered(r)' /\ page[r] \in Nat
    BY HistoryAfter
  <1>3. /\ got'[r] = got[r] \o items /\ IsFiniteSet(L) /\ Len(s) \in Nat
        /\ got[r] \in Seq(Items) /\ items \in Seq(Items)
    BY ReadsTyped
  <1>4. /\ DOMAIN got'[r] = 1..(old + Len(items)) /\ DOMAIN got[r] = 1..old /\ old \in Nat
        /\ \A i \in 1..old : got'[r][i] = got[r][i]
        /\ \A j \in 1..Len(items) : got'[r][old + j] = items[j]
        /\ \A i \in 1..(old + Len(items)) :
             i \in 1..old \/ \E j \in 1..Len(items) : i = old + j
    BY <1>3, GotAfter
  <1>5. /\ \A i, j \in 1..Len(s) : s[i] = s[j] => i = j
        /\ \A x \in L : \E k \in 1..Len(s) : s[k] = x
    BY <1>3, OrderOfSet
  <1>6. \A k \in 1..Len(s) : TiedIn(during'[r].ever, s[k]) \/ Cardinality(Newer(L, s[k])) = k - 1
    BY PlaceInList
  <1>7. page[r] = 0 => old = 0 /\ before = 0
    BY <1>1, <1>4, ListBoundsAssumption DEF ListsInv, WayThere
  <1>8. WalkClaims(r)
    BY DEF ListsInv
  <1> HIDE DEF before, L, old
  <1>9. HistoryHolds(r)'
    BY <1>2 DEF HistoryHolds, L
  \* What was answered so far is among the rows before this page.
  <1>10. ASSUME ~during'[r].grew, NEW i \in 1..old
         PROVE  TiedIn(during'[r].ever, got[r][i][1]) \/ Cardinality(Newer(L, got[r][i][1])) < before
    <2>1. page[r] > 0
      BY <1>2, <1>4, <1>7
    <2> QED
      BY <2>1, <1>2, <1>4, <1>8, <1>10 DEF WalkClaims, GotAreBefore, before, L
  <1>11. ASSUME ~during'[r].grew, NEW i \in 1..(old + Len(items))
         PROVE  TiedIn(during'[r].ever, got'[r][i][1]) \/ Cardinality(Newer(L, got'[r][i][1])) < before + PageSize
    <2>1. CASE i \in 1..old
      <3>1. TiedIn(during'[r].ever, got[r][i][1]) \/ Cardinality(Newer(L, got[r][i][1])) < before
        BY <2>1, <1>10, <1>11
      <3>2. Cardinality(Newer(L, got[r][i][1])) \in Nat
        BY <1>3, NewerFinite DEF L
      <3> QED
        BY <1>1, <1>4, <2>1, <3>1, <3>2
    <2>2. ASSUME NEW j \in 1..Len(items), i = old + j
          PROVE  TiedIn(during'[r].ever, got'[r][i][1]) \/ Cardinality(Newer(L, got'[r][i][1])) < before + PageSize
      <3> DEFINE k == before + j
      <3>1. got'[r][i][1] = s[k] /\ k \in 1..Len(s) /\ k - 1 < before + PageSize
        <4>1. items[j][1] = s[k] /\ k \in 1..Len(s)
          BY <1>1
        <4>2. got'[r][i] = items[j]
          BY <1>4, <2>2
        <4>3. k - 1 < before + PageSize
          BY <1>1
        <4> QED
          BY <4>1, <4>2, <4>3
      <3> HIDE DEF k
      <3>2. TiedIn(during'[r].ever, s[k]) \/ Cardinality(Newer(L, s[k])) = k - 1
        BY <1>6, <3>1
      <3> QED
        BY <3>1, <3>2
    <2> QED
      BY <1>4, <2>1, <2>2
  <1>12. GotAreBefore(r)'
    BY <1>1, <1>2, <1>4, <1>11 DEF GotAreBefore, L
  \* A row of the list that was not answered is behind this page.
  <1>13. ASSUME ~during'[r].shrank, NEW x \in during'[r].stayed,
                ~TiedIn(during'[r].ever, x),
                \A i \in 1..(old + Len(items)) : got'[r][i][1] # x
         PROVE  at'[r] = "idle" /\ Cardinality(Newer(L, x)) >= before + PageSize
    <2>1. PICK k \in 1..Len(s) : s[k] = x
      BY <1>2, <1>5, <1>13
    <2>2. Cardinality(Newer(L, x)) = k - 1
      BY <1>6, <1>13, <2>1
    <2>3. k > before
      <3>1. CASE page[r] = 0
        BY <1>7, <3>1
      <3>2. CASE page[r] # 0
        <4>1. page[r] > 0 /\ during'[r] = during[r] /\ Walking(r)
          BY <1>2, <3>2
        <4>2. ~Told(r, x)
          <5>1. \A i \in 1..old : i \in 1..(old + Len(items)) /\ got'[r][i] = got[r][i]
            BY <1>1, <1>4
          <5>2. \A i \in 1..old : got[r][i][1] # x
            BY <1>13, <5>1
          <5> QED
            BY <1>4, <5>2 DEF Told
        <4>3. \/ TiedIn(during[r].ever, x) \/ Told(r, x)
              \/ at[r] # "end" /\ Cardinality(Newer(L, x)) >= before
          <5>1. ~during[r].shrank /\ x \in during[r].stayed
            BY <1>13, <4>1
          <5> QED
            BY <1>8, <4>1, <5>1 DEF WalkClaims, OthersAreBehind, L, before
        <4>4. k - 1 >= before
          BY <1>13, <2>2, <4>1, <4>2, <4>3
        <4> QED
          BY <1>1, <1>3, <4>4
      <3> QED
        BY <3>1, <3>2
    <2>4. k > before + PageSize
      <3> SUFFICES ASSUME k <= before + PageSize PROVE FALSE
        BY <1>1
      <3> DEFINE j == k - before
      <3>1. j \in 1..Len(items) /\ before + j = k
        BY <1>1, <2>3
      <3> HIDE DEF j
      <3>2. got'[r][old + j][1] = x
        BY <1>1, <1>4, <2>1, <3>1
      <3>3. old + j \in 1..(old + Len(items))
        BY <1>3, <1>1, <1>4, <3>1
      <3> QED
        BY <1>13, <3>2, <3>3
    <2>5. Cardinality(Newer(L, x)) >= before + PageSize
      BY <1>1, <2>2, <2>4
    <2>6. ~(Len(items) < PageSize)
      BY <1>1, <1>3, <2>4
    <2>7. at'[r] = "idle"
      BY <2>6 DEF Reads, ListsInv, ListsTypeOK
    <2> QED
      BY <2>5, <2>7
  <1>14. OthersAreBehind(r)'
    <2> SUFFICES ASSUME ~during'[r].shrank, NEW x \in during'[r].stayed,
                        ~TiedIn(during'[r].ever, x), ~Told(r, x)'
                 PROVE  at'[r] = "idle" /\ Cardinality(Newer(L, x)) >= before + PageSize
      BY <1>1, <1>2, Zenon DEF OthersAreBehind, L
    <2>1. \A i \in 1..(old + Len(items)) : got'[r][i][1] # x
      BY <1>4 DEF Told
    <2> QED
      BY <1>13, <2>1
  \* A row of this page was not answered before.
  <1>15. ASSUME ~during'[r].grew, NEW i \in 1..old, NEW j \in 1..Len(items),
                got'[r][i][1] = got'[r][old + j][1]
         PROVE  TiedIn(during'[r].ever, got'[r][i][1])
    <2> DEFINE k == before + j
    <2>1. k \in 1..Len(s) /\ got'[r][i][1] = s[k] /\ got'[r][i][1] = got[r][i][1] /\ k - 1 >= before
      <3>1. items[j][1] = s[k] /\ k \in 1..Len(s)
        BY <1>1
      <3>2. got'[r][old + j] = items[j] /\ got'[r][i] = got[r][i]
        BY <1>4
      <3>3. k - 1 >= before
        BY <1>1
      <3> QED
        BY <1>15, <3>1, <3>2, <3>3
    <2> HIDE DEF k
    <2>2. TiedIn(during'[r].ever, s[k]) \/ Cardinality(Newer(L, s[k])) = k - 1
      BY <1>6, <2>1
    <2>3. TiedIn(during'[r].ever, s[k]) \/ Cardinality(Newer(L, s[k])) < before
      BY <1>10, <1>15, <2>1
    <2> QED
      BY <1>1, <2>1, <2>2, <2>3
  <1>16. ASSUME ~during'[r].grew, NEW i \in 1..old, NEW j \in 1..old,
                i # j, got'[r][i][1] = got'[r][j][1]
         PROVE  TiedIn(during'[r].ever, got'[r][i][1])
    <2>1. page[r] > 0
      BY <1>2, <1>4, <1>7
    <2>2. i \in DOMAIN got[r] /\ j \in DOMAIN got[r] /\ got[r][i][1] = got[r][j][1]
          /\ got'[r][i][1] = got[r][i][1]
      BY <1>4, <1>16
    <2> QED
      BY <1>2, <1>8, <1>16, <2>1, <2>2 DEF WalkClaims, RepeatsAreTied
  <1>17. ASSUME NEW i \in 1..Len(items), NEW j \in 1..Len(items),
                got'[r][old + i][1] = got'[r][old + j][1]
         PROVE  i = j
    <2>1. got'[r][old + i][1] = s[before + i] /\ got'[r][old + j][1] = s[before + j]
          /\ before + i \in 1..Len(s) /\ before + j \in 1..Len(s)
      BY <1>1, <1>4
    <2>2. before + i = before + j
      <3> DEFINE m == before + i
                 n == before + j
      <3> HIDE DEF m, n
      <3>1. s[m] = s[n] /\ m \in 1..Len(s) /\ n \in 1..Len(s)
        BY <2>1, <1>17 DEF m, n
      <3>2. m = n
        BY <1>5, <3>1
      <3> QED
        BY <3>2 DEF m, n
    <2> QED
      BY <1>1, <2>2
  <1>18. RepeatsAreTied(r)'
    <2> SUFFICES ASSUME ~during'[r].grew,
                        NEW i \in 1..(old + Len(items)), NEW j \in 1..(old + Len(items)),
                        i # j, got'[r][i][1] = got'[r][j][1]
                 PROVE  TiedIn(during'[r].ever, got'[r][i][1])
      BY <1>4, Zenon DEF RepeatsAreTied
    <2>1. CASE i \in 1..old /\ j \in 1..old
      BY <1>16, <2>1
    <2>2. ASSUME NEW m \in 1..Len(items), j = old + m, i \in 1..old
          PROVE  TiedIn(during'[r].ever, got'[r][i][1])
      BY <1>15, <2>2
    <2>3. ASSUME NEW m \in 1..Len(items), i = old + m, j \in 1..old
          PROVE  TiedIn(during'[r].ever, got'[r][i][1])
      BY <1>15, <2>3
    <2>4. ASSUME NEW m \in 1..Len(items), NEW n \in 1..Len(items), i = old + m, j = old + n
          PROVE  TiedIn(during'[r].ever, got'[r][i][1])
      BY <1>17, <2>4
    <2> QED
      BY <1>4, <2>1, <2>2, <2>3, <2>4
  <1> QED
    BY <1>9, <1>12, <1>14, <1>18 DEF WalkClaims

LEMMA QueryKeeps ==
  ASSUME ListsInv, NEW r \in Readers, Query(r)
  PROVE  ListsInv'
  <1>1. at[r] = "query"
    BY DEF Query
  <1>2. PICK s, rows, items :
          s \in SetToSeqs(ListOf(r)) /\ Reads(r, s, rows, items) /\ (ask[r].list # "deliveries" => NewestFirst(s))
    BY QueryReads
  <1>3. ListsTypeOK' /\ TablesOK' /\ \A q \in Readers : WayThere(q)'
    BY <1>1, <1>2, QueryKeepsTypes
  <1>4. ASSUME NEW q \in Readers PROVE WalkClaims(q)'
    <2>1. CASE q = r /\ Ordered(r)
      <3>1. NewestFirst(s)
        BY <1>2, <2>1 DEF Ordered
      <3> QED
        BY <1>1, <1>2, <2>1, <3>1, QueryKeepsOrderedClaims
    <2>2. CASE q = r /\ ~Ordered(r)
      <3>1. ~Ordered(r)'
        BY <1>2, <2>2 DEF Ordered, Reads
      <3> QED
        BY <2>2, <3>1
           DEF WalkClaims, HistoryHolds, GotAreBefore, OthersAreBehind, RepeatsAreTied, Walking
    <2>3. CASE q # r
      <3>1. /\ page'[q] = page[q] /\ got'[q] = got[q] /\ during'[q] = during[q] /\ at'[q] = at[q]
            /\ UNCHANGED <<tables, ask, cpf>>
        BY <1>2, <2>3 DEF Reads, ListsInv, ListsTypeOK
      <3> QED
        BY <3>1, ClaimsStay
    <2> QED
      BY <2>1, <2>2, <2>3
  <1> QED
    BY <1>3, <1>4 DEF ListsInv

-----------------------------------------------------------------------------

(* Writes *)

\* What a write of other requests does to the claims about a walk.
LEMMA WriteKeepsClaims ==
  ASSUME ListsInv, Write, IsFiniteSet(OrderIds)', IsFiniteSet(UserIds)', NEW q \in Readers
  PROVE  WalkClaims(q)'
  <1> SUFFICES ASSUME Walking(q)' PROVE WalkClaims(q)'
    BY DEF WalkClaims, HistoryHolds, GotAreBefore, OthersAreBehind, RepeatsAreTied
  <1> DEFINE L == ListOf(q)
             M == ListOf(q)'
             d == during[q]
             e == during'[q]
  <1>1. UNCHANGED <<ask, at, page, cpf, got>> /\ Walking(q) /\ ask[q] \in AskType
    BY DEF Write, Walking, Ordered, ListsInv, WayThere
  <1>2. e = Follow(L, M, d)
    BY <1>1 DEF Write, Walking, ListOf, ListsInv, ListsTypeOK
  <1>3. IsFiniteSet(L)
    BY <1>1, ListFinite DEF ListOf
  <1>4. IsFiniteSet(M)
    <2>1. M \in SUBSET (OrderIds') \/ M = UserIds'
      BY <1>1 DEF ListOf, Listed, AskType, Lists, NearbyOrders, OrdersWith
    <2> QED
      BY <2>1, FS_Subset
  <1>5. WalkClaims(q)
    BY DEF ListsInv
  <1>6. page[q] * PageSize \in Nat
    BY RowsBefore DEF ListsInv, ListsTypeOK
  <1> HIDE DEF L, M, d, e
  <1>7. /\ e.stayed = d.stayed \cap M /\ e.ever = d.ever \cup M
        /\ ~e.grew => ~d.grew /\ M \subseteq L
        /\ ~e.shrank => ~d.shrank /\ L \subseteq M
    BY <1>2 DEF Follow
  <1>8. \A x : TiedIn(d.ever, x) => TiedIn(e.ever, x)
    BY <1>7 DEF TiedIn
  <1>9. \A x : Cardinality(Newer(L, x)) \in Nat /\ Cardinality(Newer(M, x)) \in Nat
    BY <1>3, <1>4, NewerFinite
  <1>10. HistoryHolds(q)'
    BY <1>7 DEF HistoryHolds, M, e
  <1>11. ASSUME ~e.grew, NEW x,
                TiedIn(d.ever, x) \/ Cardinality(Newer(L, x)) < page[q] * PageSize
         PROVE  TiedIn(e.ever, x) \/ Cardinality(Newer(M, x)) < page[q] * PageSize
    <2>1. Cardinality(Newer(M, x)) <= Cardinality(Newer(L, x))
      BY <1>3, <1>7, <1>11, NewerGrows
    <2> QED
      BY <1>6, <1>8, <1>9, <1>11, <2>1
  <1>12. GotAreBefore(q)'
    <2> SUFFICES ASSUME ~e.grew, NEW i \in DOMAIN got[q]
                 PROVE  \/ TiedIn(e.ever, got[q][i][1])
                        \/ Cardinality(Newer(M, got[q][i][1])) < page[q] * PageSize
      BY <1>1, Zenon DEF GotAreBefore, M, e
    <2>1. \/ TiedIn(d.ever, got[q][i][1])
          \/ Cardinality(Newer(L, got[q][i][1])) < page[q] * PageSize
      BY <1>1, <1>5, <1>7 DEF WalkClaims, GotAreBefore, L, d
    <2> QED
      BY <1>11, <2>1
  <1>13. ASSUME ~e.shrank, NEW x, Cardinality(Newer(L, x)) >= page[q] * PageSize
         PROVE  Cardinality(Newer(M, x)) >= page[q] * PageSize
    <2>1. Cardinality(Newer(L, x)) <= Cardinality(Newer(M, x))
      BY <1>4, <1>7, <1>13, NewerGrows
    <2> QED
      BY <1>6, <1>9, <1>13, <2>1
  <1>14. OthersAreBehind(q)'
    <2> SUFFICES ASSUME ~e.shrank, NEW x \in e.stayed, ~TiedIn(e.ever, x), ~Told(q, x)
                 PROVE  at[q] # "end" /\ Cardinality(Newer(M, x)) >= page[q] * PageSize
      BY <1>1, Zenon DEF OthersAreBehind, Told, M, e
    <2>1. x \in d.stayed /\ ~TiedIn(d.ever, x)
      BY <1>7, <1>8
    <2>2. at[q] # "end" /\ Cardinality(Newer(L, x)) >= page[q] * PageSize
      BY <1>1, <1>5, <1>7, <2>1 DEF WalkClaims, OthersAreBehind, L, d
    <2> QED
      BY <1>13, <2>2
  <1>15. RepeatsAreTied(q)'
    <2> SUFFICES ASSUME ~e.grew, NEW i \in DOMAIN got[q], NEW j \in DOMAIN got[q],
                        i # j, got[q][i][1] = got[q][j][1]
                 PROVE  TiedIn(e.ever, got[q][i][1])
      BY <1>1, Zenon DEF RepeatsAreTied, e
    <2>1. TiedIn(d.ever, got[q][i][1])
      BY <1>1, <1>5, <1>7 DEF WalkClaims, RepeatsAreTied, d
    <2> QED
      BY <1>8, <2>1
  <1> QED
    BY <1>10, <1>12, <1>14, <1>15 DEF WalkClaims

LEMMA WriteKeeps ==
  ASSUME ListsInv, Write, TablesOK', marked' \subseteq Users,
         orders' \in [Orders -> OrderRows \cup {NoOrder}],
         users' \in [Users -> Cpfs \cup {NoCpf}]
  PROVE  ListsInv'
  <1>1. UNCHANGED <<ask, at, page, cpf, got>> /\ writes' \in 0..MaxWrites
    BY ListBoundsAssumption DEF Write, ListsInv, ListsTypeOK
  <1>2. during' \in [Readers -> Histories]
    <2>1. ASSUME NEW q \in Readers, page[q] # 0
          PROVE  Follow(ListOf(q), ListOf(q)', during[q]) \in Histories
      <3>1. ask[q] \in AskType /\ during[q] \in Histories
        BY <2>1 DEF ListsInv, ListsTypeOK, WayThere
      <3>2. ListOf(q)' \subseteq Orders \cup Users
        BY <1>1, <3>1
           DEF ListOf, Listed, AskType, Lists, OrderIds, UserIds, NearbyOrders, OrdersWith
      <3> DEFINE M == ListOf(q)'
      <3> HIDE DEF M
      <3>3. M \subseteq Orders \cup Users
        BY <3>2 DEF M
      <3>4. Follow(ListOf(q), M, during[q]) \in Histories
        BY <3>1, <3>3 DEF Follow, Histories
      <3> QED
        BY <3>4 DEF M
    <2>2. ASSUME NEW q \in Readers
          PROVE  (IF page[q] = 0 THEN during[q]
                  ELSE Follow(ListOf(q), ListOf(q)', during[q])) \in Histories
      BY <2>1 DEF ListsInv, ListsTypeOK
    <2>3. during' = [q \in Readers |-> IF page[q] = 0 THEN during[q]
                                       ELSE Follow(ListOf(q), ListOf(q)', during[q])]
      BY <1>1 DEF Write, ListOf
    <2> QED
      BY <2>2, <2>3
  <1>3. ListsTypeOK'
    BY <1>1, <1>2 DEF ListsInv, ListsTypeOK
  <1>4. ASSUME NEW q \in Readers PROVE WayThere(q)'
    BY <1>1 DEF ListsInv, WayThere
  <1>5. ASSUME NEW q \in Readers PROVE WalkClaims(q)'
    BY WriteKeepsClaims DEF TablesOK
  <1> QED
    BY <1>3, <1>4, <1>5 DEF ListsInv

LEMMA PutOrderKeeps ==
  ASSUME ListsInv, NEW o \in Orders, PutOrder(o)
  PROVE  ListsInv'
  <1>1. PICK row \in OrderRows : orders' = [orders EXCEPT ![o] = row]
    BY DEF PutOrder
  <1>2. UNCHANGED <<users, marked>> /\ Write
    BY DEF PutOrder
  <1>3. orders' \in [Orders -> OrderRows \cup {NoOrder}]
    BY <1>1 DEF ListsInv, ListsTypeOK
  <1>4. (OrderIds') \in SUBSET (OrderIds \cup {o}) /\ UserIds' = UserIds
    BY <1>1, <1>2 DEF ListsInv, ListsTypeOK, OrderIds, UserIds
  <1>5. IsFiniteSet(OrderIds)' /\ IsFiniteSet(UserIds)'
    BY <1>4, FS_AddElement, FS_Subset DEF ListsInv, TablesOK
  <1>6. TablesOK'
    BY <1>2, <1>5 DEF ListsInv, TablesOK
  <1> QED
    BY <1>2, <1>3, <1>6, WriteKeeps DEF ListsInv, ListsTypeOK

LEMMA RemoveOrderKeeps ==
  ASSUME ListsInv, NEW o \in Orders, RemoveOrder(o)
  PROVE  ListsInv'
  <1>1. orders' = [orders EXCEPT ![o] = NoOrder] /\ UNCHANGED <<users, marked>> /\ Write
    BY DEF RemoveOrder
  <1>2. orders' \in [Orders -> OrderRows \cup {NoOrder}]
    BY <1>1 DEF ListsInv, ListsTypeOK
  <1>3. (OrderIds') \in SUBSET OrderIds /\ UserIds' = UserIds
    BY <1>1 DEF ListsInv, ListsTypeOK, OrderIds, UserIds
  <1>4. IsFiniteSet(OrderIds)' /\ IsFiniteSet(UserIds)'
    BY <1>3, FS_Subset DEF ListsInv, TablesOK
  <1>5. TablesOK'
    BY <1>1, <1>4 DEF ListsInv, TablesOK
  <1> QED
    BY <1>1, <1>2, <1>5, WriteKeeps DEF ListsInv, ListsTypeOK

LEMMA PutUserKeeps ==
  ASSUME ListsInv, NEW u \in Users, PutUser(u)
  PROVE  ListsInv'
  <1>1. PICK c \in Cpfs : (\A v \in Users : users[v] # c) /\ users' = [users EXCEPT ![u] = c]
    BY DEF PutUser
  <1>2. UNCHANGED orders /\ Write /\ marked' = marked \ {u}
    BY DEF PutUser
  <1>3. users' \in [Users -> Cpfs \cup {NoCpf}]
    BY <1>1 DEF ListsInv, ListsTypeOK
  <1>4. (UserIds') \in SUBSET (UserIds \cup {u}) /\ OrderIds' = OrderIds
    BY <1>1, <1>2 DEF ListsInv, ListsTypeOK, OrderIds, UserIds
  <1>5. IsFiniteSet(OrderIds)' /\ IsFiniteSet(UserIds)'
    BY <1>4, FS_AddElement, FS_Subset DEF ListsInv, TablesOK
  <1>6. \A v, w \in Users : v # w /\ users'[v] = users'[w] => users'[v] = NoCpf
    BY <1>1 DEF ListsInv, ListsTypeOK, TablesOK
  <1>7. TablesOK'
    BY <1>5, <1>6 DEF TablesOK
  <1> QED
    BY <1>2, <1>3, <1>7, WriteKeeps DEF ListsInv, ListsTypeOK

LEMMA RemoveUserKeeps ==
  ASSUME ListsInv, NEW u \in Users, RemoveUser(u)
  PROVE  ListsInv'
  <1>1. /\ users' = [users EXCEPT ![u] = NoCpf] /\ UNCHANGED marked /\ Write
        /\ \A o \in OrderIds : orders[o].recipient # u
        /\ orders' = [o \in Orders |->
             IF o \in OrderIds /\ orders[o].courier = u
             THEN [orders[o] EXCEPT !.courier = NoUser]
             ELSE orders[o]]
    BY DEF RemoveUser
  <1>2. users' \in [Users -> Cpfs \cup {NoCpf}]
    BY <1>1 DEF ListsInv, ListsTypeOK
  <1>3. ASSUME NEW o \in Orders
        PROVE  orders'[o] \in OrderRows \cup {NoOrder} /\ (orders[o] = NoOrder => orders'[o] = NoOrder)
    <2>1. orders[o] \in OrderRows \cup {NoOrder}
      BY DEF ListsInv, ListsTypeOK
    <2>2. CASE o \in OrderIds /\ orders[o].courier = u
      <3>1. orders[o] \in OrderRows /\ orders[o].courier # orders[o].recipient
        BY <1>1, <2>1, <2>2 DEF OrderIds
      <3>2. [orders[o] EXCEPT !.courier = NoUser] \in OrderRows
        BY <3>1, ListTablesAssumption
      <3> QED
        BY <1>1, <2>2, <3>2 DEF OrderIds
    <2>3. CASE ~(o \in OrderIds /\ orders[o].courier = u)
      BY <1>1, <2>1, <2>3
    <2> QED
      BY <2>2, <2>3
  <1>4. orders' \in [Orders -> OrderRows \cup {NoOrder}]
    BY <1>1, <1>3
  <1>5. (OrderIds') \in SUBSET OrderIds
    BY <1>3 DEF OrderIds
  <1>6. (UserIds') \in SUBSET UserIds
    BY <1>1 DEF UserIds, ListsInv, ListsTypeOK
  <1>7. IsFiniteSet(OrderIds)' /\ IsFiniteSet(UserIds)'
    BY <1>5, <1>6, FS_Subset DEF ListsInv, TablesOK
  <1>8. \A v, w \in Users : v # w /\ users'[v] = users'[w] => users'[v] = NoCpf
    BY <1>1 DEF ListsInv, ListsTypeOK, TablesOK
  <1>9. TablesOK'
    BY <1>7, <1>8 DEF TablesOK
  <1> QED
    BY <1>1, <1>2, <1>4, <1>9, WriteKeeps DEF ListsInv, ListsTypeOK

-----------------------------------------------------------------------------

(* The invariant holds *)

LEMMA ListsStepKeeps == ListsInv /\ [ListsNext]_listVars => ListsInv'
  <1> SUFFICES ASSUME ListsInv, [ListsNext]_listVars PROVE ListsInv'
    OBVIOUS
  <1>1. CASE UNCHANGED listVars
    <2>1. UNCHANGED <<orders, users, marked, ask, at, page, cpf, got, during, writes>>
      BY <1>1 DEF listVars, tables
    <2>2. ListsTypeOK' /\ TablesOK'
      BY <2>1 DEF ListsInv, ListsTypeOK, TablesOK, OrderIds, UserIds
    <2>3. ASSUME NEW q \in Readers PROVE WayThere(q)'
      BY <2>1 DEF ListsInv, WayThere
    <2>4. ASSUME NEW q \in Readers PROVE WalkClaims(q)'
      BY <2>1, ClaimsStay DEF tables
    <2> QED
      BY <2>2, <2>3, <2>4 DEF ListsInv
  <1>2. ASSUME NEW r \in Readers, GetOrders(r) PROVE ListsInv'
    BY <1>2, AskKeeps DEF GetOrders, Lists
  <1>3. ASSUME NEW r \in Readers, GetCouriers(r) PROVE ListsInv'
    BY <1>3, AskKeeps DEF GetCouriers, Lists
  <1>4. ASSUME NEW r \in Readers, GetRecipients(r) PROVE ListsInv'
    BY <1>4, AskKeeps DEF GetRecipients, Lists
  <1>5. ASSUME NEW r \in Readers, FetchOrdersNearby(r) PROVE ListsInv'
    BY <1>5, AskKeeps DEF FetchOrdersNearby, Lists
  <1>6. ASSUME NEW r \in Readers, FetchUserDeliveries(r) PROVE ListsInv'
    BY <1>6, AskKeeps DEF FetchUserDeliveries, Lists
  <1>7. ASSUME NEW r \in Readers, AdminOnly(r) \/ FindUserOf(r) \/ Query(r) PROVE ListsInv'
    BY <1>7, AdminOnlyKeeps, FindUserKeeps, QueryKeeps
  <1>8. ASSUME NEW o \in Orders, PutOrder(o) \/ RemoveOrder(o) PROVE ListsInv'
    BY <1>8, PutOrderKeeps, RemoveOrderKeeps
  <1>9. ASSUME NEW u \in Users, PutUser(u) \/ RemoveUser(u) PROVE ListsInv'
    BY <1>9, PutUserKeeps, RemoveUserKeeps
  <1> QED
    BY <1>1, <1>2, <1>3, <1>4, <1>5, <1>6, <1>7, <1>8, <1>9 DEF ListsNext

LEMMA ListsInvHolds == ListsSpec => []ListsInv
  BY ListsInitHolds, ListsStepKeeps, PTL DEF ListsSpec

-----------------------------------------------------------------------------

(* Theorems *)

\* The rows, the items and the histories have their types, whatever is asked
\* and written.
THEOREM ListsTypes == ListsSpec => []ListsTypeOK
  <1>1. ListsInv => ListsTypeOK
    BY DEF ListsInv
  <1> QED
    BY <1>1, ListsInvHolds, PTL

\* OFFSET pagination misses a row that stayed only when a row before it left,
\* or among rows of one Date, for lists and pages of any size.
THEOREM MissesNeedDeletions == ListsSpec => []MissNeedsDeletion
  <1>1. ASSUME ListsInv PROVE MissNeedsDeletion
    <2> SUFFICES ASSUME NEW r \in Readers, at[r] = "end", Ordered(r), ~during[r].shrank,
                        NEW x \in during[r].stayed
                 PROVE  Tied(r, x) \/ \E i \in DOMAIN got[r] : got[r][i][1] = x
      BY DEF MissNeedsDeletion
    <2>1. Walking(r)
      BY <1>1 DEF ListsInv, ListsTypeOK, WayThere, Walking
    <2>2. TiedIn(during[r].ever, x) \/ Told(r, x)
      BY <1>1, <2>1 DEF ListsInv, WalkClaims, OthersAreBehind
    <2> QED
      BY <2>2 DEF TiedIn, Tied, Told
  <1> QED
    BY <1>1, ListsInvHolds, PTL

\* It repeats a row only when a row came in before it, or among rows of one
\* Date.
THEOREM RepeatsNeedInsertions == ListsSpec => []RepeatNeedsInsertion
  <1>1. ASSUME ListsInv PROVE RepeatNeedsInsertion
    <2> SUFFICES ASSUME NEW r \in Readers, Ordered(r), ~during[r].grew,
                        NEW i \in DOMAIN got[r], NEW j \in DOMAIN got[r],
                        i # j, got[r][i][1] = got[r][j][1]
                 PROVE  Tied(r, got[r][i][1])
      BY DEF RepeatNeedsInsertion
    <2>1. page[r] # 0
      BY <1>1 DEF ListsInv, WayThere
    <2>2. Walking(r)
      BY <1>1, <2>1 DEF ListsInv, ListsTypeOK, Walking
    <2>3. TiedIn(during[r].ever, got[r][i][1])
      BY <1>1, <2>2 DEF ListsInv, WalkClaims, RepeatsAreTied
    <2> QED
      BY <2>3 DEF TiedIn, Tied
  <1> QED
    BY <1>1, ListsInvHolds, PTL

\* Only a query answers a page.
LEMMA PagesAreQueried ==
  ASSUME ListsInv, [ListsNext]_listVars, NEW r \in Readers, page'[r] > page[r]
  PROVE  Query(r)
  <1>1. page[r] \in Nat
    BY DEF ListsInv, ListsTypeOK
  <1>2. page' # page
    BY <1>1
  <1>3. ~UNCHANGED listVars
    BY <1>2 DEF listVars
  <1>4. \A q \in Readers : ~GetOrders(q) /\ ~GetCouriers(q) /\ ~GetRecipients(q)
                        /\ ~FetchOrdersNearby(q) /\ ~FetchUserDeliveries(q)
    BY <1>2 DEF GetOrders, GetCouriers, GetRecipients, FetchOrdersNearby, FetchUserDeliveries, Ask
  <1>5. \A q \in Readers : ~AdminOnly(q) /\ ~FindUserOf(q)
    BY <1>2 DEF AdminOnly, FindUserOf
  <1>6. \A o \in Orders : ~PutOrder(o) /\ ~RemoveOrder(o)
    BY <1>2 DEF PutOrder, RemoveOrder, Write
  <1>7. \A u \in Users : ~PutUser(u) /\ ~RemoveUser(u)
    BY <1>2 DEF PutUser, RemoveUser, Write
  <1>8. PICK q \in Readers : Query(q)
    BY <1>3, <1>4, <1>5, <1>6, <1>7 DEF ListsNext
  <1>9. q = r
    BY <1>1, <1>8 DEF Query, ListsInv, ListsTypeOK
  <1> QED
    BY <1>8, <1>9

\* The orders and the items a CPF selects, when user u has it.
LEMMA DeliveriesOfCpf ==
  ASSUME ListsInv, NEW u \in Users, users[u] \in Cpfs
  PROVE  /\ \A o \in OrderIds : /\ AsRecipient(o, users[u]) \cup AsCourier(o, users[u])
                                     = {item \in DeliveriesOf(u) : item[1] = o}
         /\ OrdersWith(users[u]) = {item[1] : item \in DeliveriesOf(u)}
         /\ IsFiniteSet(DeliveriesOf(u))
  <1> DEFINE c == users[u]
             R == {o \in OrderIds : orders[o].recipient = u}
             C == {o \in OrderIds : orders[o].courier = u}
  <1>1. \A v \in Users \cup {NoUser} : HasCpf(v, c) <=> v = u
    BY ListNullsAssumption DEF ListsInv, TablesOK, HasCpf
  <1>2. \A o \in OrderIds : /\ HasCpf(orders[o].recipient, c) <=> o \in R
                            /\ HasCpf(orders[o].courier, c) <=> o \in C
    BY <1>1, OrderRowTyped DEF ListsInv
  <1>3. DeliveriesOf(u) = {<<o, "RECIPIENT">> : o \in R} \cup {<<o, "COURIER">> : o \in C}
    BY DEF DeliveriesOf
  <1>4. R \in SUBSET OrderIds /\ C \in SUBSET OrderIds
    OBVIOUS
  <1> HIDE DEF c, R, C
  <1>5. ASSUME NEW o \in OrderIds
        PROVE  AsRecipient(o, c) \cup AsCourier(o, c) = {item \in DeliveriesOf(u) : item[1] = o}
    BY <1>2, <1>3, <1>4 DEF AsRecipient, AsCourier
  <1>6. OrdersWith(c) = R \cup C
    BY <1>2, <1>4 DEF OrdersWith
  <1>7. {item[1] : item \in DeliveriesOf(u)} = R \cup C
    <2>1. \A item \in DeliveriesOf(u) : item[1] \in R \cup C
      BY <1>3
    <2>2. ASSUME NEW o \in R \cup C PROVE \E item \in DeliveriesOf(u) : item[1] = o
      <3>1. CASE o \in R
        <4>1. <<o, "RECIPIENT">> \in DeliveriesOf(u) /\ <<o, "RECIPIENT">>[1] = o
          BY <1>3, <3>1
        <4> QED
          BY <4>1
      <3>2. CASE o \in C
        <4>1. <<o, "COURIER">> \in DeliveriesOf(u) /\ <<o, "COURIER">>[1] = o
          BY <1>3, <3>2
        <4> QED
          BY <4>1
      <3> QED
        BY <3>1, <3>2
    <2> QED
      BY <2>1, <2>2
  <1>8. IsFiniteSet(R) /\ IsFiniteSet(C)
    BY <1>4, FS_Subset DEF ListsInv, TablesOK
  <1>9. IsFiniteSet({<<o, "RECIPIENT">> : o \in R}) /\ IsFiniteSet({<<o, "COURIER">> : o \in C})
    <2> DEFINE f == [o \in R |-> <<o, "RECIPIENT">>]
               g == [o \in C |-> <<o, "COURIER">>]
    <2>1. /\ f \in Surjection(R, {<<o, "RECIPIENT">> : o \in R})
          /\ g \in Surjection(C, {<<o, "COURIER">> : o \in C})
      BY DEF Surjection
    <2> HIDE DEF f, g
    <2> QED
      BY <1>8, <2>1, FS_Surjection
  <1>10. IsFiniteSet(DeliveriesOf(u))
    BY <1>3, <1>9, FS_Union
  <1> QED
    BY <1>5, <1>6, <1>7, <1>10 DEF c

\* A page of deliveries says only those of the user who has the CPF, and all of
\* them when he has no more than a page holds.
LEMMA DeliveriesTold ==
  ASSUME ListsInv, NEW r \in Readers, at[r] = "query", NEW s \in SetToSeqs(ListOf(r)),
         NEW rows, NEW items, Reads(r, s, rows, items),
         ask[r].list = "deliveries", NEW u \in Users, users[u] = cpf[r]
  PROVE  LET own == DeliveriesOf(u) IN
         /\ Range(items) \subseteq own
         /\ page[r] = 0 /\ Cardinality(own) <= PageSize => Range(items) = own
  <1> DEFINE c == cpf[r]
             own == DeliveriesOf(u)
             L == ListOf(r)
  <1>1. /\ ask[r] \in AskType /\ page[r] \in Nat /\ IsFiniteSet(L) /\ s \in Seq(L)
        /\ rows \in Seq(L) /\ Len(rows) \in Nat /\ Len(s) \in Nat
    BY ReadsTyped
  <1>2. u \in Users /\ c \in Cpfs /\ c = users[u]
    BY DEF ListsInv, WayThere
  <1>3. L = OrdersWith(c) /\ L \subseteq OrderIds
    BY DEF ListOf, Listed, OrdersWith
  <1>4. /\ \A o \in OrderIds : AsRecipient(o, c) \cup AsCourier(o, c) = {item \in own : item[1] = o}
        /\ L = {item[1] : item \in own}
        /\ IsFiniteSet(own)
    BY <1>2, <1>3, DeliveriesOfCpf
  <1>5. Range(items) = UNION {Range(Deliveries(rows[i], c)) : i \in 1..Len(rows)}
    <2>1. rows \in Seq(Listed(ask[r], c)) /\ items = Answer(ask[r], c, rows)
      BY <1>1 DEF Reads, ListOf
    <2> HIDE DEF c
    <2> QED
      BY <1>1, <2>1, DeliveriesAnswer DEF ListsInv
  <1>6. \A i \in 1..Len(rows) : rows[i] \in L
    BY <1>1, ElementOfSeq
  <1>7. rows = PageOf(s, page[r] + 1)
    BY DEF Reads
  <1> HIDE DEF c, own, L
  <1>8. ASSUME NEW o \in L PROVE Range(Deliveries(o, c)) = {item \in own : item[1] = o}
    BY <1>3, <1>4, DeliveryTyped DEF ListsInv
  <1>9. Range(items) \subseteq own
    BY <1>5, <1>6, <1>8
  <1>10. ASSUME page[r] = 0, Cardinality(own) <= PageSize PROVE own \subseteq Range(items)
    <2> DEFINE f == [item \in own |-> item[1]]
    <2>1. f \in Surjection(own, L)
      BY <1>4 DEF Surjection
    <2>2. Cardinality(L) <= Cardinality(own)
      BY <1>4, <2>1, FS_Surjection
    <2>3. Len(s) <= PageSize
      <3>1. Len(s) = Cardinality(L) /\ Cardinality(L) \in Nat /\ Cardinality(own) \in Nat
        BY <1>1, <1>4, OrderOfSet, FS_CardinalityType DEF L
      <3> QED
        BY <1>10, <2>2, <3>1, ListBoundsAssumption
    <2>4. Len(rows) = Len(s) /\ \A i \in 1..Len(rows) : rows[i] = s[i]
      <3>1. page[r] * PageSize = 0
        BY <1>10, ListBoundsAssumption
      <3>2. /\ Len(rows) = IF Len(s) <= 0 THEN 0
                           ELSE IF Len(s) <= 0 + PageSize THEN Len(s) - 0
                           ELSE PageSize
            /\ \A i \in 1..Len(rows) : rows[i] = s[0 + i]
        <4> DEFINE before == page[r] * PageSize
        <4> HIDE DEF before
        <4>1. /\ Len(rows) = IF Len(s) <= before THEN 0
                             ELSE IF Len(s) <= before + PageSize THEN Len(s) - before
                             ELSE PageSize
              /\ \A i \in 1..Len(rows) : rows[i] = s[before + i]
          BY <1>1, <1>7, PageRows DEF before
        <4>2. before = 0
          BY <3>1 DEF before
        <4> QED
          BY <4>1, <4>2
      <3>3. \A i \in 1..Len(rows) : 0 + i = i
        BY <1>1
      <3> QED
        BY <1>1, <2>3, <3>2, <3>3
    <2>5. ASSUME NEW item \in own PROVE item \in Range(items)
      <3>1. item[1] \in L
        BY <1>4
      <3>2. PICK k \in 1..Len(s) : s[k] = item[1]
        <4>1. \A x \in L : \E k \in 1..Len(s) : s[k] = x
          BY <1>1, OrderOfSet DEF L
        <4> QED
          BY <3>1, <4>1
      <3>3. item \in Range(Deliveries(rows[k], c))
        BY <1>6, <1>8, <2>4, <3>2
      <3> QED
        BY <1>5, <2>4, <3>3
    <2> QED
      BY <2>5
  <1> QED
    BY <1>9, <1>10 DEF own

\* A page of deliveries by a CPF nobody has is empty.
LEMMA NothingTold ==
  ASSUME ListsInv, NEW r \in Readers, at[r] = "query", NEW s \in SetToSeqs(ListOf(r)),
         NEW rows, NEW items, Reads(r, s, rows, items),
         ask[r].list = "deliveries", HoldersOf(cpf[r]) = {}
  PROVE  Range(items) = {}
  <1> DEFINE c == cpf[r]
  <1>1. ask[r] \in AskType /\ rows \in Seq(ListOf(r)) /\ Len(rows) \in Nat
    BY ReadsTyped
  <1>2. \A o \in OrderIds : ~HasCpf(orders[o].recipient, c) /\ ~HasCpf(orders[o].courier, c)
    BY OrderRowTyped DEF HoldersOf, HasCpf, ListsInv
  <1>3. ListOf(r) = {}
    BY <1>2 DEF ListOf, Listed, OrdersWith
  <1>4. \A i \in 1..Len(rows) : FALSE
    BY <1>1, <1>3, ElementOfSeq
  <1>5. Range(items) = UNION {Range(Deliveries(rows[i], c)) : i \in 1..Len(rows)}
    <2>1. rows \in Seq(Listed(ask[r], c)) /\ items = Answer(ask[r], c, rows)
      BY <1>1 DEF Reads, ListOf
    <2> HIDE DEF c
    <2> QED
      BY <1>1, <2>1, DeliveriesAnswer DEF ListsInv
  <1> QED
    BY <1>4, <1>5

\* However the tables change between the pages and between the two queries of
\* one: a page holds the deliveries of the one user who has the CPF by then, or
\* none when nobody has it, and all of them when one page is enough.
THEOREM DeliveriesFollow == ListsSpec => DeliveriesFollowCpf
  <1>1. ASSUME ListsInv, [ListsNext]_listVars,
               NEW r \in Readers, page'[r] > page[r],
               ask[r].list = "deliveries"
        PROVE  LET told == {got'[r][i] : i \in Len(got[r])+1 .. Len(got'[r])}
                   held == UNION {DeliveriesOf(u) : u \in HoldersOf(cpf[r])}
               IN  /\ told \subseteq held
                   /\ page[r] = 0 /\ Cardinality(held) <= PageSize => told = held
    <2>1. Query(r)
      BY <1>1, PagesAreQueried
    <2>2. PICK s, rows, items : s \in SetToSeqs(ListOf(r)) /\ Reads(r, s, rows, items)
      BY <1>1, <2>1, QueryReads
    <2>3. at[r] = "query"
      BY <2>1 DEF Query
    <2>4. got[r] \in Seq(Items) /\ items \in Seq(Items) /\ got'[r] = got[r] \o items
      BY <1>1, <2>2, <2>3, ReadsTyped
    <2> DEFINE old == Len(got[r])
               told == {got'[r][i] : i \in old + 1 .. Len(got'[r])}
    <2>5. /\ Len(got'[r]) = old + Len(items) /\ old \in Nat /\ Len(items) \in Nat
          /\ \A j \in 1..Len(items) : got'[r][old + j] = items[j]
      BY <2>4, GotAfter, ConcatProperties
    <2>6. Range(items) = {items[j] : j \in 1..Len(items)}
      BY <2>4, RangeEquality
    <2> HIDE DEF old
    <2>7. told = Range(items)
      <3>1. ASSUME NEW i \in old + 1 .. Len(got'[r]) PROVE got'[r][i] \in Range(items)
        <4> DEFINE j == i - old
        <4>1. j \in 1..Len(items) /\ old + j = i
          BY <2>5
        <4> HIDE DEF j
        <4>2. got'[r][i] = items[j]
          BY <2>5, <4>1
        <4> QED
          BY <2>6, <4>1, <4>2
      <3>2. ASSUME NEW j \in 1..Len(items) PROVE items[j] \in told
        <4>1. old + j \in old + 1 .. Len(got'[r]) /\ got'[r][old + j] = items[j]
          BY <2>5
        <4> QED
          BY <4>1
      <3> QED
        BY <2>6, <3>1, <3>2
    <2> HIDE DEF told
    <2> DEFINE held == UNION {DeliveriesOf(u) : u \in HoldersOf(cpf[r])}
    <2>8. /\ Range(items) \subseteq held
          /\ page[r] = 0 /\ Cardinality(held) <= PageSize => Range(items) = held
      <3>1. CASE HoldersOf(cpf[r]) = {}
        <4>1. Range(items) = {} /\ held = {}
          BY <1>1, <2>2, <2>3, <3>1, NothingTold
        <4> QED
          BY <4>1
      <3>2. ASSUME NEW u \in HoldersOf(cpf[r])
            PROVE  /\ Range(items) \subseteq held
                   /\ page[r] = 0 /\ Cardinality(held) <= PageSize => Range(items) = held
        <4>1. u \in Users /\ users[u] = cpf[r]
          BY <3>2 DEF HoldersOf
        <4>2. cpf[r] \in Cpfs
          BY <1>1, <2>3 DEF ListsInv, WayThere
        <4>3. HoldersOf(cpf[r]) = {u}
          BY <1>1, <4>1, <4>2, ListNullsAssumption DEF HoldersOf, ListsInv, TablesOK
        <4>4. held = DeliveriesOf(u)
          BY <4>3
        <4> HIDE DEF held
        <4> QED
          BY <1>1, <2>2, <2>3, <4>1, <4>4, DeliveriesTold
      <3> QED
        BY <3>1, <3>2
    <2> QED
      BY <2>7, <2>8 DEF told, old
  <1>2. ListsInv /\ [ListsNext]_listVars =>
          \A r \in Readers :
            page'[r] > page[r] /\ ask[r].list = "deliveries"
            => LET told == {got'[r][i] : i \in Len(got[r])+1 .. Len(got'[r])}
                   held == UNION {DeliveriesOf(u) : u \in HoldersOf(cpf[r])}
               IN  /\ told \subseteq held
                   /\ page[r] = 0 /\ Cardinality(held) <= PageSize => told = held
    BY <1>1, Zenon
  <1> QED
    BY <1>2, ListsInvHolds, PTL DEF ListsSpec, DeliveriesFollowCpf

=============================================================================
