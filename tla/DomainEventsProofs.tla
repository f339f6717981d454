------------------------- MODULE DomainEventsProofs -------------------------
(***************************************************************************)
(* Proofs about the event registry, for any set of aggregates, ids, event  *)
(* classes and callbacks.                                                  *)
(***************************************************************************)
EXTENDS DomainEvents, TLAPS

\* The inductive invariant.  Uniqueness of the mark is needed for the rest:
\* without it the aggregate a dispatch finds, and so the list it clears, would
\* not be the only one of that id.
IInv ==
  /\ TypeOK
  /\ OneMarkPerId
  /\ MarkedOwesEvents
  /\ BacklogIsLatest
  /\ NoRedelivery

-----------------------------------------------------------------------------

\* What RemoveAt (Array.splice(i, 1)) returns: the same elements, those after
\* position i moved down by one.
LEMMA RemoveAtElements ==
  ASSUME NEW S, NEW s \in Seq(S), NEW i \in DOMAIN s
  PROVE  /\ RemoveAt(s, i) \in Seq(S)
         /\ Len(RemoveAt(s, i)) = Len(s) - 1
         /\ \A j \in 1..(Len(s) - 1) :
              RemoveAt(s, i)[j] = IF j < i THEN s[j] ELSE s[j + 1]
  <1>1. i \in 1..Len(s)
    OBVIOUS
  <1> DEFINE l == SubSeq(s, 1, i - 1)
             r == SubSeq(s, i + 1, Len(s))
  <1>2. /\ l \in Seq(S)
        /\ Len(l) = i - 1
        /\ \A j \in 1..(i - 1) : l[j] = s[j]
    BY <1>1
  <1>3. /\ r \in Seq(S)
        /\ Len(r) = Len(s) - i
        /\ \A j \in 1..(Len(s) - i) : r[j] = s[i + j]
    BY <1>1
  <1>4. RemoveAt(s, i) = l \o r
    BY DEF RemoveAt
  <1> HIDE DEF l, r
  <1>5. /\ l \o r \in Seq(S)
        /\ Len(l \o r) = Len(s) - 1
    BY <1>1, <1>2, <1>3
  <1>6. ASSUME NEW j \in 1..(Len(s) - 1)
        PROVE  (l \o r)[j] = IF j < i THEN s[j] ELSE s[j + 1]
    <2>1. (l \o r)[j] = IF j <= Len(l) THEN l[j] ELSE r[j - Len(l)]
      BY <1>1, <1>2, <1>3
    <2>2. CASE j < i
      BY <2>1, <2>2, <1>1, <1>2
    <2>3. CASE ~(j < i)
      <3>1. j - (i - 1) \in 1..(Len(s) - i)
        BY <2>3, <1>1
      <3>2. (l \o r)[j] = r[j - (i - 1)]
        BY <2>1, <2>3, <1>1, <1>2
      <3>3. r[j - (i - 1)] = s[i + (j - (i - 1))]
        BY <3>1, <1>3
      <3> QED
        BY <3>2, <3>3, <2>3, <1>1
    <2> QED
      BY <2>2, <2>3
  <1> QED
    BY <1>4, <1>5, <1>6

\* The elements of a concatenation (Array.push of several elements).
LEMMA ConcatElements ==
  ASSUME NEW S, NEW s \in Seq(S), NEW t \in Seq(S)
  PROVE  /\ s \o t \in Seq(S)
         /\ Len(s \o t) = Len(s) + Len(t)
         /\ \A k \in 1..(Len(s) + Len(t)) :
              (s \o t)[k] = IF k <= Len(s) THEN s[k] ELSE t[k - Len(s)]
  OBVIOUS

\* When an aggregate of this id is marked, the search by id finds one.
LEMMA FirstMarkedFound ==
  ASSUME TypeOK, OneMarkPerId, NEW id \in Ids, MarkedAt(id) # {}
  PROVE  /\ FirstMarked(id) \in DOMAIN markedAggregates
         /\ IdOf[markedAggregates[FirstMarked(id)]] = id
         /\ markedAggregates[FirstMarked(id)] \in Aggregates
  <1>1. PICK i \in MarkedAt(id) : TRUE
    OBVIOUS
  <1>2. \A j \in MarkedAt(id) : i = j
    BY <1>1 DEF OneMarkPerId, MarkedAt
  <1>3. i \in Nat
    BY <1>1 DEF TypeOK, MarkedAt
  <1>4. \A j \in MarkedAt(id) : i <= j
    BY <1>2, <1>3
  <1>5. FirstMarked(id) \in MarkedAt(id)
    BY <1>1, <1>4 DEF FirstMarked
  <1> QED
    BY <1>5 DEF MarkedAt, TypeOK

-----------------------------------------------------------------------------

\* The shape of the events one aggregate raises together.
LEMMA NewEventsShape ==
  ASSUME TypeOK, NEW a \in Aggregates, NEW cs \in Seq(Classes),
         raised[a] + Len(cs) <= MaxEvents
  PROVE  /\ NewEvents(a, cs) \in Seq(Events)
         /\ Len(NewEvents(a, cs)) = Len(cs)
         /\ \A k \in 1..Len(cs) : /\ NewEvents(a, cs)[k].from = a
                                  /\ NewEvents(a, cs)[k].n = raised[a] + k
  <1>1. raised[a] \in Nat /\ Len(cs) \in Nat /\ DOMAIN cs = 1..Len(cs)
    BY MaxEventsAssumption DEF TypeOK
  <1>2. ASSUME NEW k \in 1..Len(cs)
        PROVE  [from |-> a, class |-> cs[k], n |-> raised[a] + k] \in Events
    <2>1. raised[a] + k \in 1..MaxEvents
      BY <1>1, MaxEventsAssumption
    <2>2. cs[k] \in Classes
      BY <1>1
    <2> QED
      BY <2>1, <2>2 DEF Events
  <1>3. NewEvents(a, cs) \in [1..Len(cs) -> Events]
    BY <1>1, <1>2 DEF NewEvents
  <1>4. NewEvents(a, cs) \in Seq(Events) /\ Len(NewEvents(a, cs)) = Len(cs)
    BY <1>1, <1>3
  <1> QED
    BY <1>1, <1>4 DEF NewEvents

\* Raising events marks at most one aggregate of the id, and extends the list
\* of the aggregate with its latest events.
LEMMA AddDomainEventsPreserves ==
  ASSUME IInv, NEW a \in Aggregates, NEW cs \in Seq(Classes),
         AddDomainEvents(a, cs)
  PROVE  IInv'
  <1> USE MaxEventsAssumption DEF IInv
  <1> DEFINE old == domainEvents[a]
             new == NewEvents(a, cs)
  <1>1. /\ new \in Seq(Events)
        /\ Len(new) = Len(cs)
        /\ \A k \in 1..Len(cs) : new[k].from = a /\ new[k].n = raised[a] + k
    BY NewEventsShape DEF AddDomainEvents
  <1>2. Len(cs) \in Nat /\ Len(cs) > 0
    BY DEF AddDomainEvents
  <1>3. /\ old \in Seq(Events)
        /\ Len(old) <= raised[a]
        /\ raised[a] \in Nat
        /\ \A k \in 1..Len(old) :
             old[k].from = a /\ old[k].n = raised[a] - Len(old) + k
    BY DEF TypeOK, BacklogIsLatest
  <1>4. /\ domainEvents' = [domainEvents EXCEPT ![a] = old \o new]
        /\ raised' = [raised EXCEPT ![a] = @ + Len(cs)]
        /\ called' = called
        /\ handlersMap' = handlersMap
        /\ markedAggregates' = Mark(a)
        /\ raised[a] + Len(cs) <= MaxEvents
    BY DEF AddDomainEvents
  <1>5. /\ domainEvents'[a] = old \o new
        /\ raised'[a] = raised[a] + Len(cs)
        /\ \A b \in Aggregates \ {a} : /\ domainEvents'[b] = domainEvents[b]
                                       /\ raised'[b] = raised[b]
    BY <1>4 DEF TypeOK
  <1> HIDE DEF old, new
  <1>6. /\ old \o new \in Seq(Events)
        /\ Len(old \o new) = Len(old) + Len(cs)
        /\ \A k \in 1..(Len(old) + Len(cs)) :
             (old \o new)[k] = IF k <= Len(old) THEN old[k] ELSE new[k - Len(old)]
    <2>1. old \in Seq(Events) /\ new \in Seq(Events)
      BY <1>1, <1>3
    <2>2. /\ old \o new \in Seq(Events)
          /\ Len(old \o new) = Len(old) + Len(new)
          /\ \A k \in 1..(Len(old) + Len(new)) :
               (old \o new)[k] = IF k <= Len(old) THEN old[k] ELSE new[k - Len(old)]
      BY <2>1, ConcatElements
    <2> QED
      BY <2>2, <1>1
  <1>7. /\ markedAggregates' \in Seq(Aggregates)
        /\ \A i \in DOMAIN markedAggregates' :
             \/ i \in DOMAIN markedAggregates /\ markedAggregates'[i] = markedAggregates[i]
             \/ /\ i = Len(markedAggregates) + 1
                /\ markedAggregates'[i] = a
                /\ MarkedAt(IdOf[a]) = {}
    BY <1>4 DEF Mark, TypeOK
  <1>8. TypeOK'
    <2>1. domainEvents' \in [Aggregates -> Seq(Events)]
      BY <1>4, <1>6 DEF TypeOK
    <2>2. raised' \in [Aggregates -> 0..MaxEvents]
      BY <1>2, <1>3, <1>4 DEF TypeOK
    <2> QED
      BY <1>4, <1>7, <2>1, <2>2 DEF TypeOK
  <1>9. OneMarkPerId'
    <2> SUFFICES ASSUME NEW i \in DOMAIN markedAggregates',
                        NEW j \in DOMAIN markedAggregates',
                        IdOf[markedAggregates'[i]] = IdOf[markedAggregates'[j]]
                 PROVE  i = j
      BY DEF OneMarkPerId
    <2> QED
      BY <1>7 DEF OneMarkPerId, MarkedAt
  <1>10. MarkedOwesEvents'
    <2>1. domainEvents'[a] # <<>>
      BY <1>2, <1>3, <1>5, <1>6
    <2> SUFFICES ASSUME NEW i \in DOMAIN markedAggregates'
                 PROVE  domainEvents'[markedAggregates'[i]] # <<>>
      BY DEF MarkedOwesEvents
    <2>2. CASE markedAggregates'[i] = a
      BY <2>1, <2>2
    <2>3. CASE markedAggregates'[i] # a
      <3>1. i \in DOMAIN markedAggregates /\ markedAggregates'[i] = markedAggregates[i]
        BY <1>7, <2>3
      <3>2. markedAggregates[i] \in Aggregates
        BY <3>1 DEF TypeOK
      <3> QED
        BY <1>5, <2>3, <3>1, <3>2 DEF MarkedOwesEvents
    <2> QED
      BY <2>2, <2>3
  <1>11. BacklogIsLatest'
    <2>1. ASSUME NEW k \in 1..(Len(old) + Len(cs))
          PROVE  /\ (old \o new)[k].from = a
                 /\ (old \o new)[k].n = raised[a] - Len(old) + k
      <3>1. CASE k <= Len(old)
        BY <1>3, <1>6, <3>1
      <3>2. CASE ~(k <= Len(old))
        <4>1. k - Len(old) \in 1..Len(cs)
          BY <1>2, <1>3, <3>2
        <4> QED
          BY <1>1, <1>2, <1>3, <1>6, <3>2, <4>1
      <3> QED
        BY <3>1, <3>2
    <2>2. /\ Len(domainEvents'[a]) <= raised'[a]
          /\ \A k \in DOMAIN domainEvents'[a] :
               /\ domainEvents'[a][k].from = a
               /\ domainEvents'[a][k].n = raised'[a] - Len(domainEvents'[a]) + k
      BY <1>2, <1>3, <1>5, <1>6, <2>1
    <2>3. ASSUME NEW b \in Aggregates \ {a}
          PROVE  /\ Len(domainEvents'[b]) <= raised'[b]
                 /\ \A k \in DOMAIN domainEvents'[b] :
                      /\ domainEvents'[b][k].from = b
                      /\ domainEvents'[b][k].n = raised'[b] - Len(domainEvents'[b]) + k
      <3>1. domainEvents'[b] = domainEvents[b] /\ raised'[b] = raised[b]
        BY <1>5
      <3> QED
        BY <3>1 DEF BacklogIsLatest
    <2> QED
      BY <2>2, <2>3 DEF BacklogIsLatest
  <1>12. NoRedelivery'
    <2> SUFFICES ASSUME NEW call \in called
                 PROVE  call[2].n <= raised'[call[2].from] - Len(domainEvents'[call[2].from])
      BY <1>4 DEF NoRedelivery
    <2>1. call[2].from \in Aggregates /\ call[2].n \in Nat
      BY DEF TypeOK, Events
    <2>2. call[2].n <= raised[call[2].from] - Len(domainEvents[call[2].from])
      BY DEF NoRedelivery
    <2>3. CASE call[2].from = a
      <3>1. domainEvents[call[2].from] = old
        BY <2>3 DEF old
      <3> QED
        BY <2>1, <2>2, <2>3, <3>1, <1>2, <1>3, <1>5, <1>6
    <2>4. CASE call[2].from # a
      BY <2>1, <2>2, <2>4, <1>5
    <2> QED
      BY <2>3, <2>4
  <1> QED
    BY <1>8, <1>9, <1>10, <1>11, <1>12

-----------------------------------------------------------------------------

\* A dispatch that finds an aggregate clears its list and takes exactly its
\* mark away: no aggregate of that id stays marked.
LEMMA DispatchRemoves ==
  ASSUME IInv, NEW id \in Ids, MarkedAt(id) # {}, DispatchEventsForAggregate(id)
  PROVE  LET f == FirstMarked(id)
             a == markedAggregates[f] IN
         /\ a \in Aggregates
         /\ IdOf[a] = id
         /\ domainEvents' = [domainEvents EXCEPT ![a] = <<>>]
         /\ called' = called \cup CallsFor(a)
         /\ UNCHANGED <<handlersMap, raised>>
         /\ markedAggregates' \in Seq(Aggregates)
         /\ \A i \in DOMAIN markedAggregates' :
              \E j \in DOMAIN markedAggregates :
                /\ j # f
                /\ j = IF i < f THEN i ELSE i + 1
                /\ markedAggregates'[i] = markedAggregates[j]
  <1> DEFINE f == FirstMarked(id)
             a == markedAggregates[f]
  <1>1. /\ f \in DOMAIN markedAggregates
        /\ IdOf[a] = id
        /\ a \in Aggregates
    BY FirstMarkedFound DEF IInv
  <1>2. /\ called' = called \cup CallsFor(a)
        /\ domainEvents' = [domainEvents EXCEPT ![a] = <<>>]
        /\ markedAggregates' = RemoveAt(markedAggregates, f)
        /\ UNCHANGED <<handlersMap, raised>>
    BY DEF DispatchEventsForAggregate
  <1> HIDE DEF f
  <1>3. markedAggregates \in Seq(Aggregates)
    BY DEF IInv, TypeOK
  <1>4. /\ markedAggregates' \in Seq(Aggregates)
        /\ Len(markedAggregates') = Len(markedAggregates) - 1
        /\ \A j \in 1..(Len(markedAggregates) - 1) :
             markedAggregates'[j] = IF j < f THEN markedAggregates[j]
                                             ELSE markedAggregates[j + 1]
    BY <1>1, <1>2, <1>3, RemoveAtElements
  <1>5. ASSUME NEW i \in DOMAIN markedAggregates'
        PROVE  \E j \in DOMAIN markedAggregates :
                 /\ j # f
                 /\ j = IF i < f THEN i ELSE i + 1
                 /\ markedAggregates'[i] = markedAggregates[j]
    <2>1. i \in 1..(Len(markedAggregates) - 1) /\ f \in 1..Len(markedAggregates)
      BY <1>1, <1>3, <1>4
    <2>2. (IF i < f THEN i ELSE i + 1) \in 1..Len(markedAggregates)
      BY <2>1, <1>3
    <2>3. DOMAIN markedAggregates = 1..Len(markedAggregates)
      BY <1>3
    <2> QED
      BY <1>4, <2>1, <2>2, <2>3
  <1> QED
    BY <1>1, <1>2, <1>4, <1>5 DEF f

\* A dispatch empties the list it has just passed to the callbacks, so it
\* calls none of them again for an event already delivered.
LEMMA DispatchPreserves ==
  ASSUME IInv, NEW id \in Ids, DispatchEventsForAggregate(id)
  PROVE  IInv'
  <1>1. CASE MarkedAt(id) = {}
    BY <1>1 DEF DispatchEventsForAggregate, vars, IInv, TypeOK, OneMarkPerId,
       MarkedOwesEvents, BacklogIsLatest, NoRedelivery
  <1>2. CASE MarkedAt(id) # {}
    <2> DEFINE f == FirstMarked(id)
               a == markedAggregates[f]
    <2>1. /\ a \in Aggregates
          /\ IdOf[a] = id
          /\ domainEvents' = [domainEvents EXCEPT ![a] = <<>>]
          /\ called' = called \cup CallsFor(a)
          /\ UNCHANGED <<handlersMap, raised>>
          /\ markedAggregates' \in Seq(Aggregates)
          /\ \A i \in DOMAIN markedAggregates' :
               \E j \in DOMAIN markedAggregates :
                 /\ j # f
                 /\ j = IF i < f THEN i ELSE i + 1
                 /\ markedAggregates'[i] = markedAggregates[j]
      BY <1>2, DispatchRemoves
    <2>2. f \in DOMAIN markedAggregates
      BY <1>2, FirstMarkedFound DEF IInv
    <2> HIDE DEF f
    <2>3. /\ domainEvents'[a] = <<>>
          /\ \A b \in Aggregates \ {a} : domainEvents'[b] = domainEvents[b]
      BY <2>1 DEF IInv, TypeOK
    <2>4. CallsFor(a) \subseteq Handlers \X Events
      BY <2>1 DEF CallsFor, Range, IInv, TypeOK
    <2>5. TypeOK'
      BY <2>1, <2>4 DEF IInv, TypeOK
    <2>6. markedAggregates \in Seq(Aggregates) /\ markedAggregates' \in Seq(Aggregates)
      BY <2>1 DEF IInv, TypeOK
    <2>7. OneMarkPerId'
      <3> SUFFICES ASSUME NEW i \in DOMAIN markedAggregates',
                          NEW j \in DOMAIN markedAggregates',
                          IdOf[markedAggregates'[i]] = IdOf[markedAggregates'[j]]
                   PROVE  i = j
        BY DEF OneMarkPerId
      <3>1. PICK k \in DOMAIN markedAggregates :
              /\ k = IF i < f THEN i ELSE i + 1
              /\ markedAggregates'[i] = markedAggregates[k]
        BY <2>1
      <3>2. PICK l \in DOMAIN markedAggregates :
              /\ l = IF j < f THEN j ELSE j + 1
              /\ markedAggregates'[j] = markedAggregates[l]
        BY <2>1
      <3>3. k = l
        BY <3>1, <3>2 DEF IInv, OneMarkPerId
      <3>4. i \in Nat /\ j \in Nat /\ f \in Nat
        BY <2>2, <2>6
      <3> QED
        BY <3>1, <3>2, <3>3, <3>4
    <2>8. MarkedOwesEvents'
      <3> SUFFICES ASSUME NEW i \in DOMAIN markedAggregates'
                   PROVE  domainEvents'[markedAggregates'[i]] # <<>>
        BY DEF MarkedOwesEvents
      <3>1. PICK j \in DOMAIN markedAggregates :
              j # f /\ markedAggregates'[i] = markedAggregates[j]
        BY <2>1
      <3>2. markedAggregates[j] \in Aggregates \ {a}
        BY <2>2, <2>6, <3>1 DEF IInv, OneMarkPerId
      <3> QED
        BY <2>3, <3>1, <3>2 DEF IInv, MarkedOwesEvents
    <2>9. BacklogIsLatest'
      <3> SUFFICES ASSUME NEW b \in Aggregates
                   PROVE  /\ Len(domainEvents'[b]) <= raised'[b]
                          /\ \A k \in DOMAIN domainEvents'[b] :
                               /\ domainEvents'[b][k].from = b
                               /\ domainEvents'[b][k].n
                                    = raised'[b] - Len(domainEvents'[b]) + k
        BY DEF BacklogIsLatest
      <3>1. raised' = raised /\ raised[b] \in Nat
        BY <2>1, MaxEventsAssumption DEF IInv, TypeOK
      <3>2. CASE b = a
        BY <2>3, <3>1, <3>2
      <3>3. CASE b # a
        BY <2>3, <3>1, <3>3 DEF IInv, BacklogIsLatest
      <3> QED
        BY <3>2, <3>3
    <2>10. NoRedelivery'
      <3> SUFFICES ASSUME NEW call \in called'
                   PROVE  call[2].n <= raised[call[2].from]
                                         - Len(domainEvents'[call[2].from])
        BY <2>1 DEF NoRedelivery
      <3>1. call[2].from \in Aggregates /\ call[2].n \in Nat
        BY <2>5 DEF TypeOK, Events
      <3>2. \A b \in Aggregates : raised[b] \in Nat /\ Len(domainEvents[b]) \in Nat
        BY MaxEventsAssumption DEF IInv, TypeOK
      <3>3. CASE call \in called
        <4>1. call[2].n <= raised[call[2].from] - Len(domainEvents[call[2].from])
          BY <3>3 DEF IInv, NoRedelivery
        <4>2. CASE call[2].from = a
          BY <4>1, <4>2, <2>3, <3>1, <3>2
        <4>3. CASE call[2].from # a
          BY <4>1, <4>3, <2>3, <3>1
        <4> QED
          BY <4>2, <4>3
      <3>4. CASE call \in CallsFor(a)
        <4>1. PICK k \in DOMAIN domainEvents[a] : call[2] = domainEvents[a][k]
          BY <3>4 DEF CallsFor, Range
        <4>2. k \in 1..Len(domainEvents[a])
          BY <2>1, <4>1 DEF IInv, TypeOK
        <4>3. call[2].from = a /\ call[2].n = raised[a] - Len(domainEvents[a]) + k
          BY <2>1, <4>1 DEF IInv, BacklogIsLatest
        <4> QED
          BY <2>1, <2>3, <3>2, <4>2, <4>3
      <3> QED
        BY <2>1, <3>3, <3>4
    <2> QED
      BY <2>5, <2>7, <2>8, <2>9, <2>10 DEF IInv
  <1> QED
    BY <1>1, <1>2

-----------------------------------------------------------------------------

\* Both clear operations and a restart only shorten the lists.  A restart
\* forgets events, which can lose a call but never repeat one.
LEMMA RestartPreserves ==
  ASSUME IInv, Restart
  PROVE  IInv'
  <1>1. /\ markedAggregates' = <<>>
        /\ domainEvents' = [a \in Aggregates |-> <<>>]
        /\ handlersMap' = [c \in Classes |-> {}]
        /\ UNCHANGED <<raised, called>>
    BY DEF Restart
  <1>2. TypeOK'
    BY <1>1 DEF IInv, TypeOK
  <1>3. OneMarkPerId' /\ MarkedOwesEvents'
    BY <1>1 DEF OneMarkPerId, MarkedOwesEvents
  <1>4. \A a \in Aggregates : raised[a] \in Nat
    BY MaxEventsAssumption DEF IInv, TypeOK
  <1>5. BacklogIsLatest'
    BY <1>1, <1>4 DEF BacklogIsLatest
  <1>6. NoRedelivery'
    <2> SUFFICES ASSUME NEW call \in called
                 PROVE  call[2].n <= raised[call[2].from] - Len(domainEvents'[call[2].from])
      BY <1>1 DEF NoRedelivery
    <2>1. call[2].from \in Aggregates /\ call[2].n \in Nat
      BY DEF IInv, TypeOK, Events
    <2>2. call[2].n <= raised[call[2].from] - Len(domainEvents[call[2].from])
      BY DEF IInv, NoRedelivery
    <2>3. Len(domainEvents[call[2].from]) \in Nat
      BY <2>1 DEF IInv, TypeOK
    <2>4. Len(domainEvents'[call[2].from]) = 0
      BY <1>1, <2>1
    <2> QED
      BY <1>4, <2>1, <2>2, <2>3, <2>4
  <1> QED
    BY <1>2, <1>3, <1>5, <1>6 DEF IInv

LEMMA InitEstablishes == Init => IInv
  <1> SUFFICES ASSUME Init PROVE IInv
    OBVIOUS
  <1>1. TypeOK
    BY MaxEventsAssumption DEF Init, TypeOK
  <1>2. OneMarkPerId /\ MarkedOwesEvents /\ NoRedelivery
    BY DEF Init, OneMarkPerId, MarkedOwesEvents, NoRedelivery
  <1>3. BacklogIsLatest
    BY DEF Init, BacklogIsLatest
  <1> QED
    BY <1>1, <1>2, <1>3 DEF IInv

LEMMA StepPreserves == IInv /\ [Next]_vars => IInv'
  <1> SUFFICES ASSUME IInv, [Next]_vars PROVE IInv'
    OBVIOUS
  <1>1. ASSUME NEW a \in Aggregates, NEW c \in Classes, AddDomainEvents(a, <<c>>)
        PROVE  IInv'
    <2>1. <<c>> \in Seq(Classes)
      OBVIOUS
    <2> QED
      BY <1>1, <2>1, AddDomainEventsPreserves
  <1>2. ASSUME NEW a \in Aggregates, NEW c \in Classes, NEW d \in Classes,
               AddDomainEvents(a, <<c, d>>)
        PROVE  IInv'
    <2>1. <<c, d>> \in Seq(Classes)
      OBVIOUS
    <2> QED
      BY <1>2, <2>1, AddDomainEventsPreserves
  <1>3. ASSUME NEW id \in Ids, DispatchEventsForAggregate(id)
        PROVE  IInv'
    BY <1>3, DispatchPreserves
  <1>4. ASSUME NEW h \in Handlers, NEW c \in Classes, Register(h, c)
        PROVE  IInv'
    BY <1>4 DEF Register, IInv, TypeOK, OneMarkPerId, MarkedOwesEvents,
       BacklogIsLatest, NoRedelivery
  <1>5. CASE ClearHandlers
    BY <1>5 DEF ClearHandlers, IInv, TypeOK, OneMarkPerId, MarkedOwesEvents,
       BacklogIsLatest, NoRedelivery
  <1>6. CASE ClearMarkedAggregates
    BY <1>6 DEF ClearMarkedAggregates, IInv, TypeOK, OneMarkPerId,
       MarkedOwesEvents, BacklogIsLatest, NoRedelivery
  <1>7. CASE Restart
    BY <1>7, RestartPreserves
  <1>8. CASE UNCHANGED vars
    BY <1>8 DEF vars, IInv, TypeOK, OneMarkPerId, MarkedOwesEvents,
       BacklogIsLatest, NoRedelivery
  <1> QED
    BY <1>1, <1>2, <1>3, <1>4, <1>5, <1>6, <1>7, <1>8 DEF Next

-----------------------------------------------------------------------------

(* What the operations do, for proofs about modules that use the registry. *)

IsMarked(a) == \E i \in DOMAIN markedAggregates : markedAggregates[i] = a

\* addDomainEvent: the list of the aggregate grows by events of the classes
\* given, and afterwards this aggregate or another of its id is marked.
LEMMA AddDomainEventsEffect ==
  ASSUME IInv, NEW a \in Aggregates, NEW cs \in Seq(Classes),
         AddDomainEvents(a, cs)
  PROVE  /\ UNCHANGED <<handlersMap, called>>
         /\ raised'[a] > 0
         /\ \A b \in Aggregates \ {a} : /\ raised'[b] = raised[b]
                                        /\ domainEvents'[b] = domainEvents[b]
         /\ \A k \in DOMAIN domainEvents'[a] :
              \/ \E j \in DOMAIN domainEvents[a] : domainEvents'[a][k] = domainEvents[a][j]
              \/ \E j \in DOMAIN cs : domainEvents'[a][k].class = cs[j]
         /\ \A b \in Aggregates : IsMarked(b) => IsMarked(b)'
         /\ \A b \in Aggregates \ {a} : IsMarked(b)' => IsMarked(b)
         /\ \/ IsMarked(a)'
            \/ \E b \in Aggregates \ {a} : IdOf[b] = IdOf[a] /\ IsMarked(b)
  <1> USE MaxEventsAssumption DEF IInv
  <1> DEFINE old == domainEvents[a]
             new == NewEvents(a, cs)
  <1>1. /\ new \in Seq(Events)
        /\ Len(new) = Len(cs)
        /\ old \in Seq(Events)
        /\ Len(cs) \in Nat \ {0}
        /\ raised[a] \in Nat
    <2>1. raised[a] + Len(cs) <= MaxEvents /\ cs # <<>>
      BY DEF AddDomainEvents
    <2>2. new \in Seq(Events) /\ Len(new) = Len(cs)
      BY <2>1, NewEventsShape
    <2> QED
      BY <2>1, <2>2 DEF TypeOK
  <1>2. domainEvents' = [domainEvents EXCEPT ![a] = old \o new]
    BY DEF AddDomainEvents
  <1>3. /\ raised' = [raised EXCEPT ![a] = @ + Len(cs)]
        /\ UNCHANGED <<handlersMap, called>>
        /\ markedAggregates' = Mark(a)
    BY DEF AddDomainEvents
  <1>4. /\ raised'[a] > 0
        /\ \A b \in Aggregates \ {a} : /\ raised'[b] = raised[b]
                                       /\ domainEvents'[b] = domainEvents[b]
    <2>1. raised'[a] = raised[a] + Len(cs)
      BY <1>3 DEF TypeOK
    <2> QED
      BY <2>1, <1>1, <1>2, <1>3 DEF TypeOK
  <1>5. ASSUME NEW k \in DOMAIN domainEvents'[a]
        PROVE  \/ \E j \in DOMAIN old : domainEvents'[a][k] = old[j]
               \/ \E j \in DOMAIN cs : domainEvents'[a][k].class = cs[j]
    <2>1. domainEvents'[a] = old \o new
      BY <1>2 DEF TypeOK
    <2> HIDE DEF old, new
    <2>2. /\ k \in 1..(Len(old) + Len(new))
          /\ (old \o new)[k] = IF k <= Len(old) THEN old[k] ELSE new[k - Len(old)]
      BY <2>1, <1>1, ConcatElements
    <2>3. CASE k <= Len(old)
      BY <2>1, <2>2, <2>3, <1>1
    <2>4. CASE ~(k <= Len(old))
      <3>1. k - Len(old) \in DOMAIN cs
        BY <2>2, <2>4, <1>1
      <3>2. new[k - Len(old)].class = cs[k - Len(old)]
        BY <3>1 DEF new, NewEvents
      <3> QED
        BY <2>1, <2>2, <2>4, <3>1, <3>2
    <2> QED
      BY <2>3, <2>4
  <1>6. /\ \A b \in Aggregates : IsMarked(b) => IsMarked(b)'
        /\ \A b \in Aggregates \ {a} : IsMarked(b)' => IsMarked(b)
        /\ \/ IsMarked(a)'
           \/ \E b \in Aggregates \ {a} : IdOf[b] = IdOf[a] /\ IsMarked(b)
    <2>1. CASE MarkedAt(IdOf[a]) # {}
      <3>1. markedAggregates' = markedAggregates
        BY <2>1, <1>3 DEF Mark
      <3>2. PICK i \in DOMAIN markedAggregates : IdOf[markedAggregates[i]] = IdOf[a]
        BY <2>1 DEF MarkedAt
      <3>3. markedAggregates[i] \in Aggregates
        BY <3>2 DEF TypeOK
      <3> QED
        BY <3>1, <3>2, <3>3 DEF IsMarked
    <2>2. CASE MarkedAt(IdOf[a]) = {}
      <3>1. markedAggregates' = Append(markedAggregates, a)
        BY <2>2, <1>3 DEF Mark
      <3>2. /\ DOMAIN markedAggregates = 1..Len(markedAggregates)
            /\ Len(markedAggregates) \in Nat
            /\ DOMAIN markedAggregates' = 1..(Len(markedAggregates) + 1)
            /\ \A i \in 1..(Len(markedAggregates) + 1) :
                 markedAggregates'[i] = IF i = Len(markedAggregates) + 1
                                        THEN a ELSE markedAggregates[i]
        BY <3>1 DEF TypeOK
      <3> QED
        BY <3>2 DEF IsMarked
    <2> QED
      BY <2>1, <2>2
  <1> QED
    BY <1>3, <1>4, <1>5, <1>6


\* dispatchEventsForAggregate: whatever aggregate of the id is marked, its list
\* is emptied into the callbacks and no aggregate of the id stays marked.
LEMMA DispatchEffect ==
  ASSUME IInv, NEW id \in Ids, DispatchEventsForAggregate(id)
  PROVE  /\ UNCHANGED <<handlersMap, raised>>
         /\ \A b \in Aggregates : IsMarked(b)' <=> IsMarked(b) /\ IdOf[b] # id
         /\ \A b \in Aggregates : domainEvents'[b] \in {domainEvents[b], <<>>}
         /\ \A b \in Aggregates :
              IsMarked(b) /\ IdOf[b] = id => domainEvents'[b] = <<>>
         /\ called \subseteq called'
         /\ \A c \in called' \ called :
              /\ c[1] \in handlersMap[c[2].class]
              /\ c[2].from \in Aggregates /\ IdOf[c[2].from] = id
              /\ \E k \in DOMAIN domainEvents[c[2].from] : domainEvents[c[2].from][k] = c[2]
  <1> USE DEF IInv
  <1>1. CASE MarkedAt(id) = {}
    BY <1>1 DEF DispatchEventsForAggregate, vars, MarkedAt, IsMarked
  <1>2. CASE MarkedAt(id) # {}
    <2> DEFINE f == FirstMarked(id)
               a == markedAggregates[f]
    <2>1. /\ a \in Aggregates
          /\ IdOf[a] = id
          /\ domainEvents' = [domainEvents EXCEPT ![a] = <<>>]
          /\ called' = called \cup CallsFor(a)
          /\ UNCHANGED <<handlersMap, raised>>
          /\ \A i \in DOMAIN markedAggregates' :
               \E j \in DOMAIN markedAggregates :
                 j # f /\ markedAggregates'[i] = markedAggregates[j]
      BY <1>2, DispatchRemoves
    <2>2. f \in DOMAIN markedAggregates
      BY <1>2, FirstMarkedFound
    <2>3. markedAggregates' = RemoveAt(markedAggregates, f)
      BY <1>2 DEF DispatchEventsForAggregate
    <2> HIDE DEF f
    <2>4. \A j \in DOMAIN markedAggregates : IdOf[markedAggregates[j]] = id => j = f
      BY <2>1, <2>2 DEF OneMarkPerId
    <2>5. ASSUME NEW b \in Aggregates
          PROVE  IsMarked(b)' => IsMarked(b) /\ IdOf[b] # id
      BY <2>1, <2>4 DEF IsMarked
    <2>6. ASSUME NEW b \in Aggregates, IsMarked(b), IdOf[b] # id
          PROVE  IsMarked(b)'
      <3>1. PICK j \in DOMAIN markedAggregates : markedAggregates[j] = b
        BY <2>6 DEF IsMarked
      <3>2. markedAggregates \in Seq(Aggregates)
        BY DEF TypeOK
      <3>3. /\ RemoveAt(markedAggregates, f) \in Seq(Aggregates)
            /\ Len(RemoveAt(markedAggregates, f)) = Len(markedAggregates) - 1
            /\ \A i \in 1..(Len(markedAggregates) - 1) :
                 RemoveAt(markedAggregates, f)[i] =
                   IF i < f THEN markedAggregates[i] ELSE markedAggregates[i + 1]
        BY <2>2, <3>2, RemoveAtElements
      <3>4. j # f /\ j \in 1..Len(markedAggregates) /\ f \in 1..Len(markedAggregates)
        BY <2>1, <2>2, <2>6, <3>1, <3>2
      <3>5. CASE j < f
        <4>1. j \in 1..(Len(markedAggregates) - 1)
          BY <3>2, <3>4, <3>5
        <4> QED
          BY <4>1, <3>1, <3>3, <3>5, <2>3 DEF IsMarked
      <3>6. CASE j > f
        <4>1. /\ j - 1 \in 1..(Len(markedAggregates) - 1)
              /\ ~(j - 1 < f) /\ (j - 1) + 1 = j
          BY <3>2, <3>4, <3>6
        <4>2. markedAggregates'[j - 1] = markedAggregates[j]
          BY <4>1, <3>3, <2>3
        <4> QED
          BY <4>1, <4>2, <3>1, <3>3, <2>3 DEF IsMarked
      <3> QED
        BY <3>4, <3>5, <3>6
    <2>7. \A b \in Aggregates :
            /\ domainEvents'[b] \in {domainEvents[b], <<>>}
            /\ IsMarked(b) /\ IdOf[b] = id => domainEvents'[b] = <<>>
      BY <2>1, <2>4 DEF IsMarked, TypeOK
    <2>8. ASSUME NEW c \in called' \ called
          PROVE  /\ c[1] \in handlersMap[c[2].class]
                 /\ c[2].from = a
                 /\ \E k \in DOMAIN domainEvents[a] : domainEvents[a][k] = c[2]
      <3>1. c \in Handlers \X Range(domainEvents[a]) /\ c[1] \in handlersMap[c[2].class]
        BY <2>1 DEF CallsFor
      <3>2. PICK k \in DOMAIN domainEvents[a] : domainEvents[a][k] = c[2]
        BY <3>1 DEF Range
      <3> QED
        BY <3>1, <3>2, <2>1 DEF BacklogIsLatest
    <2> QED
      BY <2>1, <2>5, <2>6, <2>7, <2>8
  <1> QED
    BY <1>1, <1>2

\* What an aggregate owed it still owes after it raises more, and an event of
\* each class it raised.
LEMMA AddedAreOwed ==
  ASSUME IInv, NEW a \in Aggregates, NEW cs \in Seq(Classes), AddDomainEvents(a, cs)
  PROVE  /\ \A k \in DOMAIN domainEvents[a] :
              \E i \in DOMAIN domainEvents'[a] : domainEvents'[a][i] = domainEvents[a][k]
         /\ \A j \in DOMAIN cs :
              \E i \in DOMAIN domainEvents'[a] : domainEvents'[a][i].class = cs[j]
  <1> USE DEF IInv
  <1> DEFINE old == domainEvents[a]
             new == NewEvents(a, cs)
  <1>1. /\ raised[a] + Len(cs) <= MaxEvents
        /\ domainEvents'[a] = old \o new
    BY DEF AddDomainEvents, TypeOK
  <1>2. old \in Seq(Events) /\ new \in Seq(Events) /\ Len(new) = Len(cs)
    BY <1>1, NewEventsShape DEF TypeOK
  <1>3. \A j \in DOMAIN cs : new[j].class = cs[j]
    BY DEF NewEvents
  <1> HIDE DEF old, new
  <1>4. /\ Len(old \o new) = Len(old) + Len(new)
        /\ old \o new \in Seq(Events)
        /\ \A k \in 1..(Len(old) + Len(new)) :
             (old \o new)[k] = IF k <= Len(old) THEN old[k] ELSE new[k - Len(old)]
    BY <1>2, ConcatElements
  <1>5. /\ DOMAIN old = 1..Len(old) /\ DOMAIN cs = 1..Len(cs)
        /\ Len(old) \in Nat /\ Len(cs) \in Nat
        /\ DOMAIN (old \o new) = 1..(Len(old) + Len(cs))
    BY <1>2, <1>4
  <1>6. ASSUME NEW k \in DOMAIN old
        PROVE  k \in DOMAIN (old \o new) /\ (old \o new)[k] = old[k]
    BY <1>2, <1>4, <1>5
  <1>7. ASSUME NEW j \in DOMAIN cs
        PROVE  Len(old) + j \in DOMAIN (old \o new) /\ (old \o new)[Len(old) + j] = new[j]
    BY <1>2, <1>4, <1>5
  <1> QED
    BY <1>1, <1>3, <1>6, <1>7 DEF old

\* A dispatch that empties the list of an aggregate calls, for the first time,
\* every callback there is for an event on it.
LEMMA DispatchDelivers ==
  ASSUME IInv, NEW id \in Ids, DispatchEventsForAggregate(id),
         NEW b \in Aggregates, domainEvents'[b] = <<>>,
         NEW k \in DOMAIN domainEvents[b],
         NEW h \in handlersMap[domainEvents[b][k].class]
  PROVE  <<h, domainEvents[b][k]>> \in called' \ called /\ domainEvents[b][k].from = b
  <1> USE DEF IInv
  <1> DEFINE e == domainEvents[b][k]
  <1>1. /\ domainEvents[b] \in Seq(Events) /\ k \in 1..Len(domainEvents[b])
        /\ e \in Events /\ raised[b] \in Nat /\ h \in Handlers
    <2>1. domainEvents[b] \in Seq(Events) /\ raised[b] \in 0..MaxEvents
      BY DEF TypeOK
    <2>2. k \in 1..Len(domainEvents[b]) /\ e \in Events
      BY <2>1
    <2>3. e.class \in Classes
      BY <2>2 DEF Events
    <2>4. h \in Handlers
      BY <2>3 DEF TypeOK
    <2> QED
      BY <2>1, <2>2, <2>4, MaxEventsAssumption
  <1>2. e.from = b /\ e.n = raised[b] - Len(domainEvents[b]) + k
    BY DEF BacklogIsLatest
  <1>3. <<h, e>> \notin called
    <2> SUFFICES ASSUME <<h, e>> \in called PROVE FALSE
      OBVIOUS
    <2>1. e.n <= raised[b] - Len(domainEvents[b])
      BY <1>2 DEF NoRedelivery
    <2> QED
      BY <2>1, <1>1, <1>2
  <1>4. domainEvents'[b] # domainEvents[b]
    BY <1>1
  <1>5. MarkedAt(id) # {}
    BY <1>4 DEF DispatchEventsForAggregate, vars
  <1>6. called' = called \cup CallsFor(b)
    <2>1. /\ domainEvents' = [domainEvents EXCEPT ![markedAggregates[FirstMarked(id)]] = <<>>]
          /\ called' = called \cup CallsFor(markedAggregates[FirstMarked(id)])
      BY <1>5, DispatchRemoves
    <2>2. markedAggregates[FirstMarked(id)] = b
      BY <2>1, <1>4 DEF TypeOK
    <2> QED
      BY <2>1, <2>2
  <1>7. <<h, e>> \in CallsFor(b)
    BY <1>1 DEF CallsFor, Range
  <1> QED
    BY <1>2, <1>3, <1>6, <1>7

-----------------------------------------------------------------------------

\* The registry's invariants hold in every reachable state, for any number of
\* copies of a row, ids, classes, callbacks and events: types, one mark per id
\* (markAggregateForDispatch), no mark without events, lists in the order
\* raised, and no event given to a callback twice (dispatchEventsForAggregate).
THEOREM RegistryInvariant ==
  Spec => [](TypeOK /\ OneMarkPerId /\ MarkedOwesEvents /\ BacklogIsLatest /\ NoRedelivery)
  <1>1. IInv => /\ TypeOK /\ OneMarkPerId /\ MarkedOwesEvents
                /\ BacklogIsLatest /\ NoRedelivery
    BY DEF IInv
  <1> QED
    BY <1>1, InitEstablishes, StepPreserves, PTL DEF Spec

\* Whichever copy's save calls dispatchEventsForAggregate, afterwards no
\* aggregate of that id is marked: the events of a copy that was shadowed are
\* sent only if that copy raises another.
THEOREM DispatchUnmarksId == Spec => DispatchUnmarks
  <1>1. ASSUME IInv, NEW id \in Ids, DispatchEventsForAggregate(id)
        PROVE  \A i \in DOMAIN markedAggregates' : IdOf[markedAggregates'[i]] # id
    <2>1. CASE MarkedAt(id) = {}
      BY <1>1, <2>1 DEF DispatchEventsForAggregate, vars, MarkedAt
    <2>2. CASE MarkedAt(id) # {}
      <3> SUFFICES ASSUME NEW i \in DOMAIN markedAggregates',
                          IdOf[markedAggregates'[i]] = id
                   PROVE  FALSE
        OBVIOUS
      <3>1. PICK j \in DOMAIN markedAggregates :
              j # FirstMarked(id) /\ markedAggregates'[i] = markedAggregates[j]
        BY <1>1, <2>2, DispatchRemoves
      <3>2. /\ FirstMarked(id) \in DOMAIN markedAggregates
            /\ IdOf[markedAggregates[FirstMarked(id)]] = id
        BY <1>1, <2>2, FirstMarkedFound DEF IInv
      <3> QED
        BY <1>1, <3>1, <3>2 DEF IInv, OneMarkPerId
    <2> QED
      BY <2>1, <2>2
  <1>2. IInv /\ [Next]_vars =>
          [\A id \in Ids : DispatchEventsForAggregate(id) =>
             \A i \in DOMAIN markedAggregates' : IdOf[markedAggregates'[i]] # id]_vars
    BY <1>1
  <1> QED
    BY <1>2, InitEstablishes, StepPreserves, PTL DEF Spec, DispatchUnmarks

-----------------------------------------------------------------------------

(* The registry implements EventDelivery.                                    *)

LEMMA AddingIsRaising ==
  ASSUME TypeOK, NEW a \in Aggregates, NEW cs \in Seq(Classes),
         AddDomainEvents(a, cs)
  PROVE  Delivery!Raise(a)
  <1>1. /\ Len(cs) \in 1..(MaxEvents - raised[a])
        /\ cs \in [1..Len(cs) -> Classes]
    BY MaxEventsAssumption DEF AddDomainEvents, TypeOK
  <1>2. NewEvents(a, cs) =
          [k \in 1..Len(cs) |-> [from |-> a, class |-> cs[k], n |-> raised[a] + k]]
    BY DEF NewEvents
  <1> QED
    BY <1>1, <1>2 DEF AddDomainEvents, Delivery!Raise

\* A mark means events are owed, so a dispatch that finds one has a box to
\* deliver.
LEMMA DispatchingIsDelivering ==
  ASSUME IInv, NEW id \in Ids, DispatchEventsForAggregate(id)
  PROVE  \/ \E a \in Aggregates : Delivery!Deliver(a)
         \/ UNCHANGED Delivery!vars
  <1>1. CASE MarkedAt(id) = {}
    BY <1>1 DEF DispatchEventsForAggregate, vars, Delivery!vars
  <1>2. CASE MarkedAt(id) # {}
    <2> DEFINE a == markedAggregates[FirstMarked(id)]
    <2>1. FirstMarked(id) \in DOMAIN markedAggregates
      BY <1>2, FirstMarkedFound DEF IInv
    <2>2. a \in Aggregates /\ domainEvents[a] # <<>>
      BY <2>1 DEF IInv, TypeOK, MarkedOwesEvents
    <2>3. /\ called' = called \cup CallsFor(a)
          /\ domainEvents' = [domainEvents EXCEPT ![a] = <<>>]
          /\ UNCHANGED raised
      BY <1>2 DEF DispatchEventsForAggregate
    <2>4. CallsFor(a) =
            {call \in Handlers \X {domainEvents[a][k] : k \in DOMAIN domainEvents[a]} :
               call[1] \in handlersMap[call[2].class]}
      BY DEF CallsFor, Range
    <2>5. handlersMap \in [Classes -> SUBSET Handlers]
      BY DEF IInv, TypeOK
    <2> HIDE DEF a
    <2> QED
      BY <2>2, <2>3, <2>4, <2>5 DEF Delivery!Deliver
  <1> QED
    BY <1>1, <1>2

\* Every dispatch that takes a mark delivers the whole list of one aggregate,
\* addDomainEvent only appends, and nothing but a restart empties a list
\* without delivering it: for any copies, ids, classes and callbacks the
\* registry is an implementation of EventDelivery.
THEOREM DeliveryIsKept == Spec => DeliverySpec
  <1>1. Init => Delivery!Init
    BY DEF Init, Delivery!Init
  <1>2. IInv /\ [Next]_vars => [Delivery!Next]_(Delivery!vars)
    <2> SUFFICES ASSUME IInv, [Next]_vars
                 PROVE  Delivery!Next \/ UNCHANGED Delivery!vars
      OBVIOUS
    <2> USE DEF Delivery!vars
    <2>1. ASSUME NEW a \in Aggregates, NEW c \in Classes, AddDomainEvents(a, <<c>>)
          PROVE  Delivery!Next
      <3>1. <<c>> \in Seq(Classes)
        OBVIOUS
      <3>2. Delivery!Raise(a)
        BY <2>1, <3>1, AddingIsRaising DEF IInv
      <3> QED
        BY <3>2 DEF Delivery!Next
    <2>2. ASSUME NEW a \in Aggregates, NEW c \in Classes, NEW d \in Classes,
                 AddDomainEvents(a, <<c, d>>)
          PROVE  Delivery!Next
      <3>1. <<c, d>> \in Seq(Classes)
        OBVIOUS
      <3>2. Delivery!Raise(a)
        BY <2>2, <3>1, AddingIsRaising DEF IInv
      <3> QED
        BY <3>2 DEF Delivery!Next
    <2>3. ASSUME NEW id \in Ids, DispatchEventsForAggregate(id)
          PROVE  Delivery!Next \/ UNCHANGED Delivery!vars
      BY <2>3, DispatchingIsDelivering DEF Delivery!Next
    <2>4. ASSUME NEW h \in Handlers, NEW c \in Classes, Register(h, c)
          PROVE  UNCHANGED Delivery!vars
      BY <2>4 DEF Register
    <2>5. ClearHandlers \/ ClearMarkedAggregates => UNCHANGED Delivery!vars
      BY DEF ClearHandlers, ClearMarkedAggregates
    <2>6. Restart => Delivery!Next
      BY DEF Restart, Delivery!Next, Delivery!Lose
    <2>7. UNCHANGED vars => UNCHANGED Delivery!vars
      BY DEF vars
    <2> QED
      BY <2>1, <2>2, <2>3, <2>4, <2>5, <2>6, <2>7 DEF Next
  <1> QED
    BY <1>1, <1>2, InitEstablishes, StepPreserves, PTL
       DEF Spec, DeliverySpec, Delivery!Spec

-----------------------------------------------------------------------------

(* The parts of the invariant, one by one *)

\* Types, for any aggregates, ids, classes and callbacks.
COROLLARY RegistryTypes == Spec => []TypeOK
  <1>1. (TypeOK /\ OneMarkPerId /\ MarkedOwesEvents /\ BacklogIsLatest /\ NoRedelivery) => TypeOK
    OBVIOUS
  <1> QED
    BY <1>1, RegistryInvariant, PTL

\* However many copies of a row raise events, the list has one entry per id,
\* so a dispatch by id has one aggregate to find.
COROLLARY MarksAreUnique == Spec => []OneMarkPerId
  <1>1. (TypeOK /\ OneMarkPerId /\ MarkedOwesEvents /\ BacklogIsLatest /\ NoRedelivery) => OneMarkPerId
    OBVIOUS
  <1> QED
    BY <1>1, RegistryInvariant, PTL

\* No aggregate is on the list with nothing to dispatch.
COROLLARY MarksOweEvents == Spec => []MarkedOwesEvents
  <1>1. (TypeOK /\ OneMarkPerId /\ MarkedOwesEvents /\ BacklogIsLatest /\ NoRedelivery) => MarkedOwesEvents
    OBVIOUS
  <1> QED
    BY <1>1, RegistryInvariant, PTL

=============================================================================
