---------------------------- MODULE ValuesProofs ----------------------------
(***************************************************************************)
(* Proofs about the objects that keep no table, for any calls and texts:   *)
(* watched lists, CPFs and slugs.                                          *)
(***************************************************************************)
EXTENDS WatchedList, Cpf, Slugs, SequenceLemmas

-----------------------------------------------------------------------------

(* Watched lists *)

\* A freshly constructed list differs in nothing from what was loaded.
FreshIsUntouched ==
  history = "constructed" => list.current = loaded

IInv == TypeOK /\ DifferenceIsConsistent /\ OneUpdateIsExact /\ FreshIsUntouched

LEMMA InitEstablishes == Init => IInv
  <1> SUFFICES ASSUME Init PROVE IInv
    OBVIOUS
  <1> USE DEF Init, IInv, TypeOK, DifferenceIsConsistent, OneUpdateIsExact,
          FreshIsUntouched, WatchedListsOf
  <1>1. CASE list = Constructed(loaded)
    BY <1>1 DEF Constructed
  <1>2. CASE list = ConstructedEmpty /\ loaded = {}
    BY <1>2 DEF ConstructedEmpty
  <1> QED
    BY <1>1, <1>2

LEMMA AddPreserves ==
  ASSUME IInv, NEW item \in Elements, AddItem(item)
  PROVE  IInv'
  BY DEF AddItem, Add, IInv, TypeOK, DifferenceIsConsistent, OneUpdateIsExact,
     FreshIsUntouched, WatchedListsOf

LEMMA RemovePreserves ==
  ASSUME IInv, NEW item \in Elements, RemoveItem(item)
  PROVE  IInv'
  BY DEF RemoveItem, RemoveOne, IInv, TypeOK, DifferenceIsConsistent,
     OneUpdateIsExact, FreshIsUntouched, WatchedListsOf

\* The update compares with the current items, which are the loaded ones only
\* when it is the first call.
LEMMA UpdatePreserves ==
  ASSUME IInv, NEW items \in SUBSET Elements, UpdateItems(items)
  PROVE  IInv'
  BY DEF UpdateItems, Update, IInv, TypeOK, DifferenceIsConsistent,
     OneUpdateIsExact, FreshIsUntouched, WatchedListsOf

\* In every reachable state of a list of any size the difference is
\* consistent, and exact after the single update the use cases make.
THEOREM WatchedListInvariant ==
  Spec => [](TypeOK /\ DifferenceIsConsistent /\ OneUpdateIsExact)
  <1>1. IInv /\ [Next]_vars => IInv'
    <2> SUFFICES ASSUME IInv, [Next]_vars PROVE IInv'
      OBVIOUS
    <2>1. CASE UNCHANGED vars
      BY <2>1 DEF vars, IInv, TypeOK, DifferenceIsConsistent, OneUpdateIsExact,
         FreshIsUntouched
    <2> QED
      BY <2>1, AddPreserves, RemovePreserves, UpdatePreserves DEF Next
  <1>2. IInv => TypeOK /\ DifferenceIsConsistent /\ OneUpdateIsExact
    BY DEF IInv
  <1> QED
    BY <1>1, <1>2, InitEstablishes, PTL DEF Spec

\* After any calls on a list of any size no item is both current and removed,
\* and every new one is current.
COROLLARY DifferenceNeverContradicts == Spec => []DifferenceIsConsistent
  <1>1. (TypeOK /\ DifferenceIsConsistent /\ OneUpdateIsExact) => DifferenceIsConsistent
    OBVIOUS
  <1> QED
    BY <1>1, WatchedListInvariant, PTL

-----------------------------------------------------------------------------

(* CPFs *)

\* The conditional on the remainder is multiplication by ten: modulo eleven,
\* ten is minus one.
LEMMA CheckDigitIsOfficial ==
  ASSUME NEW total \in Nat
  PROVE  CheckDigit(total) = OfficialDigit(total)
  <1>1. PICK q \in Nat, r \in 0..10 : total = 11 * q + r
    <2>1. /\ total \div 11 \in Nat
          /\ total % 11 \in 0..10
          /\ total = (11 * (total \div 11)) + (total % 11)
      OBVIOUS
    <2> QED
      BY <2>1
  <1>2. total % 11 = r
    BY <1>1
  <1>3. (10 * total) % 11 = (10 * r) % 11
    BY <1>1
  <1> QED
    BY <1>1, <1>2, <1>3 DEF CheckDigit, OfficialDigit

\* The reduce adds at most ten products: that many steps of the recursion give
\* its value, a natural number.
LEMMA TotalIsNat ==
  ASSUME NEW c \in [1..11 -> Digits], NEW base \in {9, 10}
  PROVE  Total(c, base) \in Nat
  <1> DEFINE w(k) == c[k] * (base + 2 - k)
             s1 == 0 + w(1)
             s2 == s1 + w(2)
             s3 == s2 + w(3)
             s4 == s3 + w(4)
             s5 == s4 + w(5)
             s6 == s5 + w(6)
             s7 == s6 + w(7)
             s8 == s7 + w(8)
             s9 == s8 + w(9)
             sums == <<s1, s2, s3, s4, s5, s6, s7, s8, s9, s9 + w(10)>>
             g == [k \in 0..base |-> IF k = 0 THEN 0 ELSE sums[k]]
             Step(f) == [k \in 0..base |-> IF k = 0 THEN 0 ELSE f[k - 1] + w(k)]
             sum == CHOOSE f : f = Step(f)
  <1>1. \A k \in 1..base : w(k) \in Nat
    <2> SUFFICES ASSUME NEW k \in 1..base PROVE w(k) \in Nat
      OBVIOUS
    <2>1. c[k] \in Nat /\ base + 2 - k \in Nat
      BY DEF Digits
    <2> QED
      BY <2>1
  <1>2. Total(c, base) = sum[base]
    BY DEF Total
  <1> HIDE DEF w
  <1>3. g = Step(g)
    OBVIOUS
  <1>4. sum = Step(sum)
    BY <1>3
  <1> HIDE DEF sum
  <1>5. /\ sum[0] = 0
        /\ \A k \in 1..base : sum[k] = sum[k - 1] + w(k)
    BY <1>4
  <1>6. ASSUME NEW k \in 1..base, sum[k - 1] \in Nat
        PROVE  sum[k] \in Nat
    BY <1>1, <1>5, <1>6
  <1>7. sum[3] \in Nat
    <2>1. sum[1] \in Nat
      BY <1>5, <1>6
    <2>2. sum[2] \in Nat
      BY <2>1, <1>6
    <2> QED
      BY <2>2, <1>6
  <1>8. sum[6] \in Nat
    <2>1. sum[4] \in Nat
      BY <1>7, <1>6
    <2>2. sum[5] \in Nat
      BY <2>1, <1>6
    <2> QED
      BY <2>2, <1>6
  <1>9. sum[9] \in Nat
    <2>1. sum[7] \in Nat
      BY <1>8, <1>6
    <2>2. sum[8] \in Nat
      BY <2>1, <1>6
    <2> QED
      BY <2>2, <1>6
  <1>10. CASE base = 9
    BY <1>2, <1>9, <1>10
  <1>11. CASE base = 10
    <2>1. sum[10] \in Nat
      BY <1>9, <1>6, <1>11
    <2> QED
      BY <1>2, <2>1, <1>11
  <1> QED
    BY <1>10, <1>11

\* CPF.isValid accepts eleven digits exactly when they follow the rule: the
\* digits are not all the same, and the last two are the official check digits.
THEOREM ValidIsOfficial ==
  ASSUME NEW c \in [1..11 -> Digits]
  PROVE  IsValid(c) <=> Official(c)
  <1>1. /\ CheckDigit(Total(c, 9)) = OfficialDigit(Total(c, 9))
        /\ CheckDigit(Total(c, 10)) = OfficialDigit(Total(c, 10))
    BY TotalIsNat, CheckDigitIsOfficial
  <1>2. Len(c) = 11 /\ DOMAIN c = 1..11
    OBVIOUS
  <1>3. ~AllTheSame(c) <=> \E i, j \in DOMAIN c : c[i] # c[j]
    BY <1>2 DEF AllTheSame
  <1> QED
    BY <1>1, <1>2, <1>3 DEF IsValid, Official

\* What the clean removes, one character after the other.
LEMMA CleanAppends ==
  ASSUME NEW t \in Seq(Characters), NEW c \in Characters
  PROVE  Clean(Append(t, c)) = Clean(t) \o (IF c \in Digits THEN <<c>> ELSE <<>>)
  <1> DEFINE part(x) == IF x \in Digits THEN <<x>> ELSE <<>>
             parts(u) == [i \in 1..Len(u) |-> part(u[i])]
             u == Append(t, c)
  <1>1. /\ Len(t) \in Nat /\ Len(u) = Len(t) + 1 /\ u \in Seq(Characters)
        /\ \A i \in 1..Len(t) : u[i] = t[i]
        /\ u[Len(t) + 1] = c
    BY LenProperties, AppendProperties
  <1>2. \A x : part(x) \in Seq(Digits)
    OBVIOUS
  <1> HIDE DEF part, u
  <1>3. parts(t) \in Seq(Seq(Digits)) /\ parts(u) \in Seq(Seq(Digits))
    BY <1>1, <1>2
  <1>4. /\ Len(parts(t)) = Len(t) /\ Len(parts(u)) = Len(t) + 1
        /\ \A i \in 1..Len(t) : parts(u)[i] = parts(t)[i]
        /\ parts(u)[Len(t) + 1] = part(c)
    BY <1>1
  <1>5. Clean(t) = FlattenSeq(parts(t)) /\ Clean(u) = FlattenSeq(parts(u))
    <2>1. DOMAIN t = 1..Len(t) /\ DOMAIN u = 1..Len(u)
      BY <1>1, LenProperties
    <2> QED
      BY <2>1 DEF Clean, part
  <1> HIDE DEF parts
  <1>6. FlattenSeq(parts(u)) = FlattenSeq(parts(t)) \o part(c)
    BY <1>3, <1>4, FlattenLast
  <1> QED
    BY <1>5, <1>6 DEF u, part

LEMMA CleanEmpty == Clean(<<>>) = <<>>
  <1>1. [i \in DOMAIN <<>> |-> IF <<>>[i] \in Digits THEN << <<>>[i] >> ELSE <<>>] = <<>>
    OBVIOUS
  <1> QED
    BY <1>1, FlattenEmpty DEF Clean

LEMMA CleanType ==
  ASSUME NEW t \in Seq(Characters)
  PROVE  Clean(t) \in Seq(Digits)
  <1> DEFINE P == {u \in Seq(Characters) : Clean(u) \in Seq(Digits)}
  <1>1. <<>> \in P
    BY CleanEmpty, EmptySeq
  <1>2. ASSUME NEW u \in Seq(Characters), NEW c \in Characters, u \in P PROVE Append(u, c) \in P
    <2> DEFINE part == IF c \in Digits THEN <<c>> ELSE <<>>
    <2>1. part \in Seq(Digits)
      OBVIOUS
    <2>2. Clean(Append(u, c)) = Clean(u) \o part /\ Append(u, c) \in Seq(Characters)
      BY CleanAppends, AppendProperties
    <2> HIDE DEF part
    <2> QED
      BY <1>2, <2>1, <2>2, ConcatProperties
  <1> HIDE DEF P
  <1>3. Seq(Characters) \subseteq P
    BY <1>1, <1>2, SequenceInduction
  <1> QED
    BY <1>3 DEF P

LEMMA CleanConcat ==
  ASSUME NEW s \in Seq(Characters), NEW t \in Seq(Characters)
  PROVE  Clean(s \o t) = Clean(s) \o Clean(t)
  <1> DEFINE P == {u \in Seq(Characters) : Clean(s \o u) = Clean(s) \o Clean(u)}
  <1>1. <<>> \in P
    <2>1. Clean(s) \in Seq(Digits)
      BY CleanType
    <2>2. s \o <<>> = s /\ Clean(s) \o <<>> = Clean(s)
      BY <2>1, ConcatEmptySeq
    <2> QED
      BY <2>2, CleanEmpty, EmptySeq
  <1>2. ASSUME NEW u \in Seq(Characters), NEW c \in Characters, u \in P PROVE Append(u, c) \in P
    <2> DEFINE part == IF c \in Digits THEN <<c>> ELSE <<>>
    <2>1. part \in Seq(Digits) /\ Clean(s) \in Seq(Digits) /\ Clean(u) \in Seq(Digits)
      BY CleanType
    <2>2. s \o Append(u, c) = Append(s \o u, c) /\ s \o u \in Seq(Characters)
      <3>1. /\ s \o u \in Seq(Characters) /\ <<c>> \in Seq(Characters)
            /\ s \o (u \o <<c>>) = (s \o u) \o <<c>>
        BY ConcatProperties, ConcatAssociative
      <3> QED
        BY <3>1, AppendIsConcat
    <2>3. Clean(s \o Append(u, c)) = Clean(s \o u) \o part
      BY <2>2, CleanAppends
    <2>4. Clean(Append(u, c)) = Clean(u) \o part
      BY CleanAppends
    <2> HIDE DEF part
    <2>5. (Clean(s) \o Clean(u)) \o part = Clean(s) \o (Clean(u) \o part)
      BY <2>1, ConcatAssociative
    <2> QED
      BY <1>2, <2>3, <2>4, <2>5, AppendProperties
  <1> HIDE DEF P
  <1>3. Seq(Characters) \subseteq P
    BY <1>1, <1>2, SequenceInduction
  <1> QED
    BY <1>3 DEF P

LEMMA DigitsAreClean ==
  ASSUME NEW t \in Seq(Digits)
  PROVE  t \in Seq(Characters) /\ Clean(t) = t
  <1>1. DOMAIN t = 1..Len(t) /\ \A i \in 1..Len(t) : t[i] \in Digits
    BY LenProperties, ElementOfSeq
  <1>2. [i \in DOMAIN t |-> IF t[i] \in Digits THEN <<t[i]>> ELSE <<>>]
          = [i \in 1..Len(t) |-> <<t[i]>>]
    BY <1>1
  <1> QED
    BY <1>2, FlattenSingles DEF Clean, Characters

LEMMA MarksAreRemoved ==
  /\ <<Dot>> \in Seq(Characters) /\ Clean(<<Dot>>) = <<>>
  /\ <<Dash>> \in Seq(Characters) /\ Clean(<<Dash>>) = <<>>
  <1>1. /\ <<>> \in Seq(Characters) /\ Dot \in Characters /\ Dash \in Characters
        /\ Dot \notin Digits /\ Dash \notin Digits
    BY EmptySeq DEF Characters, Digits, Dot, Dash
  <1>2. Clean(Append(<<>>, Dot)) = <<>> \o <<>> /\ Clean(Append(<<>>, Dash)) = <<>> \o <<>>
    BY <1>1, CleanAppends, CleanEmpty
  <1> QED
    BY <1>1, <1>2

\* The two texts a CPF is printed as have its digits.
LEMMA PrintedIsSame ==
  ASSUME NEW c \in [1..11 -> Digits]
  PROVE  /\ Formatted(c) \in Seq(Characters) /\ Clean(Formatted(c)) = c
         /\ c \in Seq(Characters) /\ Clean(c) = c
  <1>1. c \in Seq(Digits) /\ Len(c) = 11
    <2>1. c \in Seq(Digits)
      <3> DEFINE n == 11
      <3>1. n \in Nat /\ c \in [1..n -> Digits]
        OBVIOUS
      <3> HIDE DEF n
      <3> QED
        BY <3>1
    <2>2. Len(c) = 11
      OBVIOUS
    <2> QED
      BY <2>1, <2>2
  <1> DEFINE c1 == SubSeq(c, 1, 3)
             c2 == SubSeq(c, 4, 6)
             c3 == SubSeq(c, 7, 9)
             c4 == SubSeq(c, 10, 11)
             f1 == c1 \o <<Dot>>
             f2 == f1 \o c2
             f3 == f2 \o <<Dot>>
             f4 == f3 \o c3
             f5 == f4 \o <<Dash>>
             f6 == f5 \o c4
  <1>2. /\ c1 \in Seq(Digits) /\ Len(c1) = 3 /\ PieceOf(c1, c, 0)
        /\ c2 \in Seq(Digits) /\ Len(c2) = 3 /\ PieceOf(c2, c, 3)
        /\ c3 \in Seq(Digits) /\ Len(c3) = 3 /\ PieceOf(c3, c, 6)
        /\ c4 \in Seq(Digits) /\ Len(c4) = 2 /\ PieceOf(c4, c, 9)
    <2>1. \A i \in 1..11 : c[i] \in Digits
      OBVIOUS
    <2>2. c1 \in Seq(Digits) /\ Len(c1) = 3 /\ \A i \in 1..3 : c1[i] = c[1 + i - 1]
      BY <2>1, SubSeqProperties
    <2>3. c2 \in Seq(Digits) /\ Len(c2) = 3 /\ \A i \in 1..3 : c2[i] = c[4 + i - 1]
      BY <2>1, SubSeqProperties
    <2>4. c3 \in Seq(Digits) /\ Len(c3) = 3 /\ \A i \in 1..3 : c3[i] = c[7 + i - 1]
      BY <2>1, SubSeqProperties
    <2>5. c4 \in Seq(Digits) /\ Len(c4) = 2 /\ \A i \in 1..2 : c4[i] = c[10 + i - 1]
      BY <2>1, SubSeqProperties
    <2> HIDE DEF c1, c2, c3, c4
    <2> QED
      BY <2>2, <2>3, <2>4, <2>5 DEF PieceOf
  <1>3. Formatted(c) = f6
    BY DEF Formatted
  <1> HIDE DEF c1, c2, c3, c4
  <1>4. \A t \in Seq(Digits) : t \in Seq(Characters) /\ Clean(t) = t
    BY DigitsAreClean
  <1>5. ASSUME NEW t \in Seq(Characters), NEW d \in {Dot, Dash}
        PROVE  t \o <<d>> \in Seq(Characters) /\ Clean(t \o <<d>>) = Clean(t)
    <2>1. Clean(t) \o <<>> = Clean(t)
      BY CleanType, ConcatEmptySeq
    <2> QED
      BY <2>1, MarksAreRemoved, CleanConcat, ConcatProperties
  <1>6. ASSUME NEW t \in Seq(Characters), NEW d \in Seq(Digits)
        PROVE  t \o d \in Seq(Characters) /\ Clean(t \o d) = Clean(t) \o d
    BY <1>4, CleanConcat, ConcatProperties
  <1>7. f1 \in Seq(Characters) /\ Clean(f1) = c1
    BY <1>2, <1>4, <1>5
  <1> HIDE DEF f1
  <1>8. f2 \in Seq(Characters) /\ Clean(f2) = c1 \o c2
    BY <1>2, <1>6, <1>7
  <1> HIDE DEF f2
  <1>9. f3 \in Seq(Characters) /\ Clean(f3) = c1 \o c2
    BY <1>5, <1>8
  <1> HIDE DEF f3
  <1>10. f4 \in Seq(Characters) /\ Clean(f4) = (c1 \o c2) \o c3
    BY <1>2, <1>6, <1>9
  <1> HIDE DEF f4
  <1>11. f5 \in Seq(Characters) /\ Clean(f5) = (c1 \o c2) \o c3
    BY <1>5, <1>10
  <1> HIDE DEF f5
  <1>12. f6 \in Seq(Characters) /\ Clean(f6) = ((c1 \o c2) \o c3) \o c4
    BY <1>2, <1>6, <1>11
  <1> HIDE DEF f6
  <1>13. ((c1 \o c2) \o c3) \o c4 = c
    <2> DEFINE d2 == c1 \o c2
               d3 == d2 \o c3
               d4 == d3 \o c4
    <2>1. d2 \in Seq(Digits) /\ Len(d2) = 6 /\ PieceOf(d2, c, 0)
      <3>1. c1 \in Seq(Digits) /\ c2 \in Seq(Digits) /\ PieceOf(c1, c, 0) /\ PieceOf(c2, c, Len(c1))
        BY <1>2
      <3>2. d2 \in Seq(Digits) /\ Len(d2) = Len(c1) + Len(c2) /\ PieceOf(d2, c, 0)
        BY <3>1, PiecesJoin
      <3> HIDE DEF d2
      <3> QED
        BY <1>2, <3>2
    <2> HIDE DEF d2
    <2>2. d3 \in Seq(Digits) /\ Len(d3) = 9 /\ PieceOf(d3, c, 0)
      <3>1. d2 \in Seq(Digits) /\ c3 \in Seq(Digits) /\ PieceOf(d2, c, 0) /\ PieceOf(c3, c, Len(d2))
        BY <1>2, <2>1
      <3>2. d3 \in Seq(Digits) /\ Len(d3) = Len(d2) + Len(c3) /\ PieceOf(d3, c, 0)
        BY <3>1, PiecesJoin
      <3> HIDE DEF d3
      <3> QED
        BY <1>2, <2>1, <3>2
    <2> HIDE DEF d3
    <2>3. d4 \in Seq(Digits) /\ Len(d4) = 11 /\ PieceOf(d4, c, 0)
      <3>1. d3 \in Seq(Digits) /\ c4 \in Seq(Digits) /\ PieceOf(d3, c, 0) /\ PieceOf(c4, c, Len(d3))
        BY <1>2, <2>2
      <3>2. d4 \in Seq(Digits) /\ Len(d4) = Len(d3) + Len(c4) /\ PieceOf(d4, c, 0)
        BY <3>1, PiecesJoin
      <3> HIDE DEF d4
      <3> QED
        BY <1>2, <2>2, <3>2
    <2> HIDE DEF d4
    <2>4. \A i \in 1..Len(d4) : d4[i] = c[i]
      BY <2>3 DEF PieceOf
    <2>5. d4 = c
      BY <1>1, <2>3, <2>4, SeqEqual
    <2> QED
      BY <2>5 DEF d2, d3, d4
  <1> QED
    BY <1>1, <1>3, <1>4, <1>12, <1>13

\* A text that waits has the digits of the one that arrived first.
CpfInv ==
  /\ CpfTypeOK /\ CpfFollowsRules
  /\ outcome = "waiting" => Clean(text) = first
  /\ outcome = "created" => made \in [1..11 -> Digits]

LEMMA CpfInitHolds == CpfInit => CpfInv
  BY TypedAssumption, CleanType DEF CpfInit, CpfInv, CpfTypeOK, CpfFollowsRules

LEMMA CreateKeeps ==
  ASSUME CpfInv, CreateCpf
  PROVE  CpfInv'
  <1>1. Clean(text) = first /\ first \in Seq(Digits) /\ UNCHANGED <<text, first>>
    BY DEF CpfInv, CpfTypeOK, CreateCpf
  <1>2. Len(first) = 11 => first \in [1..11 -> Digits]
    BY <1>1
  <1>3. IsValid(first) <=> Official(first)
    <2>1. IsValid(first) => Len(first) = 11
      BY DEF IsValid
    <2>2. Official(first) => Len(first) = 11
      BY DEF Official
    <2> QED
      BY <1>2, <2>1, <2>2, ValidIsOfficial
  <1>4. CASE IsValid(first)
    <2>1. outcome' = "created" /\ made' = first /\ first \in [1..11 -> Digits]
      BY <1>1, <1>2, <1>4 DEF CreateCpf, IsValid
    <2> QED
      BY <1>1, <1>3, <1>4, <2>1 DEF CpfInv, CpfTypeOK, CpfFollowsRules
  <1>5. CASE ~IsValid(first)
    <2>1. outcome' = "refused" /\ made' = made
      BY <1>1, <1>5 DEF CreateCpf
    <2> QED
      BY <1>1, <1>3, <1>5, <2>1 DEF CpfInv, CpfTypeOK, CpfFollowsRules
  <1> QED
    BY <1>4, <1>5

LEMMA PrintKeeps ==
  ASSUME CpfInv, PrintCpf
  PROVE  CpfInv'
  <1>1. made \in [1..11 -> Digits] /\ made = first
    BY DEF CpfInv, CpfFollowsRules, PrintCpf
  <1>2. text' \in Seq(Characters) /\ Clean(text') = first
    BY <1>1, PrintedIsSame DEF PrintCpf
  <1>3. made' = NoObject /\ outcome' = "waiting" /\ UNCHANGED first
    BY DEF PrintCpf
  <1>4. Clean(text)' = Clean(text')
    OBVIOUS
  <1> QED
    BY <1>2, <1>3, <1>4 DEF CpfInv, CpfTypeOK, CpfFollowsRules

LEMMA CpfStepKeeps == CpfInv /\ [CpfNext]_cpfVars => CpfInv'
  <1> SUFFICES ASSUME CpfInv, [CpfNext]_cpfVars PROVE CpfInv'
    OBVIOUS
  <1>1. CASE UNCHANGED cpfVars
    BY <1>1 DEF cpfVars, CpfInv, CpfTypeOK, CpfFollowsRules
  <1> QED
    BY <1>1, CreateKeeps, PrintKeeps DEF CpfNext

\* Every text is accepted exactly when its digits follow the rule, and no CPF
\* is lost by printing it and typing it again, however often.
THEOREM CpfsFollowRules == CpfSpec => []CpfFollowsRules
  <1>1. CpfInv => CpfFollowsRules
    BY DEF CpfInv
  <1> QED
    BY <1>1, CpfStepKeeps, CpfInitHolds, PTL DEF CpfSpec

-----------------------------------------------------------------------------

(* Slugs: what each replace does with one character more *)

SlugLetters == {"a", "b", "e"}
Separators == {" ", "_", "-"}

\* The characters of a normalized title, and those of a slug.
TextChars == SlugLetters \cup Separators \cup {"accent", "!"}
SlugChars == SlugLetters \cup {"-"}

EndsIn(s, c) == s # <<>> /\ s[Len(s)] = c

LEMMA LastOfAppend ==
  ASSUME NEW X, NEW s \in Seq(X), NEW x \in X, NEW c
  PROVE  /\ Append(s, x) \in Seq(X) /\ (EndsIn(Append(s, x), c) <=> x = c)
         /\ Len(s) \in Nat /\ Len(Append(s, x)) = Len(s) + 1
         /\ DOMAIN Append(s, x) = 1..(Len(s) + 1) /\ DOMAIN s = 1..Len(s)
         /\ \A i \in 1..Len(s) : Append(s, x)[i] = s[i]
         /\ Append(s, x)[Len(s) + 1] = x
  <1>1. /\ Append(s, x) \in Seq(X) /\ Append(s, x) # <<>>
        /\ Len(s) \in Nat /\ Len(Append(s, x)) = Len(s) + 1
        /\ \A i \in 1..Len(s) : Append(s, x)[i] = s[i]
        /\ Append(s, x)[Len(s) + 1] = x
    BY AppendProperties, LenProperties
  <1>2. DOMAIN Append(s, x) = 1..(Len(s) + 1) /\ DOMAIN s = 1..Len(s)
    BY <1>1, LenProperties
  <1> QED
    BY <1>1, <1>2 DEF EndsIn

LEMMA SqueezedType ==
  ASSUME NEW X, NEW s \in Seq(X), NEW c
  PROVE  Squeezed(s, c) \in Seq(X)
  <1> DEFINE parts == [i \in 1..Len(s) |->
                         IF i > 1 /\ s[i] = c /\ s[i - 1] = c THEN <<>> ELSE <<s[i]>>]
  <1>1. Len(s) \in Nat /\ DOMAIN s = 1..Len(s) /\ \A i \in 1..Len(s) : s[i] \in X
    BY LenProperties, ElementOfSeq
  <1>2. parts \in Seq(Seq(X))
    BY <1>1
  <1>3. Squeezed(s, c) = FlattenSeq(parts)
    BY <1>1 DEF Squeezed
  <1> HIDE DEF parts
  <1> QED
    BY <1>2, <1>3, FlattenType

LEMMA SqueezedAppends ==
  ASSUME NEW X, NEW s \in Seq(X), NEW x \in X, NEW c
  PROVE  Squeezed(Append(s, x), c)
           = IF x = c /\ EndsIn(s, c) THEN Squeezed(s, c) ELSE Append(Squeezed(s, c), x)
  <1> DEFINE part(u, i) == IF i > 1 /\ u[i] = c /\ u[i - 1] = c THEN <<>> ELSE <<u[i]>>
             parts(u) == [i \in 1..Len(u) |-> part(u, i)]
             t == Append(s, x)
             n == Len(s)
  <1>1. /\ t \in Seq(X) /\ n \in Nat /\ Len(t) = n + 1
        /\ DOMAIN t = 1..Len(t) /\ DOMAIN s = 1..n
        /\ \A i \in 1..n : t[i] = s[i]
        /\ t[n + 1] = x
    BY LastOfAppend
  <1>2. Squeezed(s, c) = FlattenSeq(parts(s)) /\ Squeezed(t, c) = FlattenSeq(parts(t))
    BY <1>1 DEF Squeezed
  <1>3. /\ \A i \in 1..n : s[i] \in X
        /\ \A i \in 1..(n + 1) : t[i] \in X
    BY <1>1, ElementOfSeq
  <1> HIDE DEF t
  <1>4. \A i \in 1..n : part(t, i) = part(s, i)
    BY <1>1
  <1>5. part(t, n + 1) = IF x = c /\ EndsIn(s, c) THEN <<>> ELSE <<x>>
    <2>1. n > 0 <=> s # <<>>
      BY EmptySeq, LenProperties
    <2> QED
      BY <1>1, <2>1 DEF EndsIn
  <1>6. /\ \A i \in 1..n : part(s, i) \in Seq(X)
        /\ \A i \in 1..(n + 1) : part(t, i) \in Seq(X)
    BY <1>3
  <1> HIDE DEF part
  <1>7. /\ parts(s) \in Seq(Seq(X)) /\ parts(t) \in Seq(Seq(X))
        /\ Len(parts(s)) = n /\ Len(parts(t)) = n + 1
        /\ \A i \in 1..n : parts(t)[i] = parts(s)[i]
        /\ parts(t)[n + 1] = part(t, n + 1)
    BY <1>1, <1>4, <1>6
  <1> HIDE DEF parts
  <1>8. Squeezed(t, c) = Squeezed(s, c) \o part(t, n + 1)
    BY <1>2, <1>7, FlattenLast
  <1>9. Squeezed(s, c) \in Seq(X)
    BY SqueezedType
  <1>10. Squeezed(s, c) \o <<>> = Squeezed(s, c) /\ Squeezed(s, c) \o <<x>> = Append(Squeezed(s, c), x)
    BY <1>9, ConcatEmptySeq, AppendIsConcat
  <1> QED
    BY <1>5, <1>8, <1>10 DEF t

\* The characters [^\w-]+ does not match.
KeptChars == {"a", "b", "e", "_", "-"}

LEMMA KeptParts ==
  ASSUME NEW s
  PROVE  Kept(s) = FlattenSeq([i \in DOMAIN s |-> IF s[i] \in KeptChars THEN <<s[i]>> ELSE <<>>])
  BY DEF Kept, KeptChars

LEMMA KeptType ==
  ASSUME NEW X, NEW s \in Seq(X)
  PROVE  Kept(s) \in Seq(KeptChars)
  <1> DEFINE parts == [i \in 1..Len(s) |-> IF s[i] \in KeptChars THEN <<s[i]>> ELSE <<>>]
  <1>1. Len(s) \in Nat /\ DOMAIN s = 1..Len(s)
    BY LenProperties
  <1>2. Kept(s) = FlattenSeq(parts)
    BY <1>1, KeptParts
  <1>3. parts \in Seq(Seq(KeptChars))
    BY <1>1
  <1> HIDE DEF parts
  <1> QED
    BY <1>2, <1>3, FlattenType

LEMMA KeptAppends ==
  ASSUME NEW X, NEW s \in Seq(X), NEW x \in X
  PROVE  Kept(Append(s, x)) = IF x \in KeptChars THEN Append(Kept(s), x) ELSE Kept(s)
  <1> DEFINE part(y) == IF y \in KeptChars THEN <<y>> ELSE <<>>
             parts(u) == [i \in 1..Len(u) |-> part(u[i])]
             t == Append(s, x)
  <1>1. /\ t \in Seq(X) /\ Len(s) \in Nat /\ Len(t) = Len(s) + 1
        /\ DOMAIN t = 1..Len(t) /\ DOMAIN s = 1..Len(s)
        /\ \A i \in 1..Len(s) : t[i] = s[i]
        /\ t[Len(s) + 1] = x
    BY LastOfAppend
  <1> HIDE DEF t
  <1>2. Kept(s) = FlattenSeq(parts(s)) /\ Kept(t) = FlattenSeq(parts(t))
    BY <1>1, KeptParts
  <1>3. \A y : part(y) \in Seq(KeptChars)
    OBVIOUS
  <1>4. part(x) = IF x \in KeptChars THEN <<x>> ELSE <<>>
    OBVIOUS
  <1> HIDE DEF part
  <1>5. /\ parts(s) \in Seq(Seq(KeptChars)) /\ parts(t) \in Seq(Seq(KeptChars))
        /\ Len(parts(s)) = Len(s) /\ Len(parts(t)) = Len(s) + 1
        /\ \A i \in 1..Len(s) : parts(t)[i] = parts(s)[i]
        /\ parts(t)[Len(s) + 1] = part(x)
    BY <1>1, <1>3
  <1> HIDE DEF parts
  <1>6. Kept(t) = Kept(s) \o part(x)
    BY <1>2, <1>5, FlattenLast
  <1>7. Kept(s) \in Seq(KeptChars)
    BY KeptType
  <1>8. Kept(s) \o <<>> = Kept(s) /\ (x \in KeptChars => Kept(s) \o <<x>> = Append(Kept(s), x))
    BY <1>7, ConcatEmptySeq, AppendIsConcat
  <1> QED
    BY <1>4, <1>6, <1>8 DEF t

LEMMA ReplacedType ==
  ASSUME NEW X, NEW s \in Seq(X), NEW c, NEW d, NEW Y, X \ {c} \subseteq Y, d \in Y
  PROVE  Replaced(s, c, d) \in Seq(Y)
  <1>1. Len(s) \in Nat /\ DOMAIN s = 1..Len(s) /\ \A i \in 1..Len(s) : s[i] \in X
    BY LenProperties, ElementOfSeq
  <1> QED
    BY <1>1 DEF Replaced

LEMMA ReplacedAppends ==
  ASSUME NEW X, NEW s \in Seq(X), NEW x \in X
  PROVE  \A c, d : Replaced(Append(s, x), c, d) = Append(Replaced(s, c, d), IF x = c THEN d ELSE x)
  <1> TAKE c, d
  <1> DEFINE r == Replaced(s, c, d)
             t == Append(s, x)
             y == IF x = c THEN d ELSE x
  <1>1. /\ Len(s) \in Nat /\ DOMAIN s = 1..Len(s) /\ DOMAIN t = 1..(Len(s) + 1)
        /\ \A i \in 1..Len(s) : t[i] = s[i]
        /\ t[Len(s) + 1] = x
    BY LastOfAppend
  <1>2. r \in Seq(X \cup {d})
    BY ReplacedType
  <1>3. Len(r) = Len(s) /\ \A i \in 1..Len(s) : r[i] = IF s[i] = c THEN d ELSE s[i]
    BY <1>1 DEF Replaced
  <1> HIDE DEF r
  <1>4. /\ Append(r, y) \in Seq(X \cup {d}) /\ Len(Append(r, y)) = Len(s) + 1
        /\ \A i \in 1..Len(s) : Append(r, y)[i] = r[i]
        /\ Append(r, y)[Len(s) + 1] = y
    BY <1>2, <1>3, AppendProperties
  <1> HIDE DEF t
  <1>5. Replaced(t, c, d) \in Seq(X \cup {d}) /\ Len(Replaced(t, c, d)) = Len(s) + 1
    BY <1>1, ReplacedType, LastOfAppend DEF Replaced, t
  <1>6. \A i \in 1..(Len(s) + 1) : Replaced(t, c, d)[i] = IF t[i] = c THEN d ELSE t[i]
    BY <1>1 DEF Replaced
  <1>7. \A i \in 1..(Len(s) + 1) : Replaced(t, c, d)[i] = Append(r, y)[i]
    BY <1>1, <1>3, <1>4, <1>6
  <1>8. Replaced(t, c, d) = Append(r, y)
    BY <1>4, <1>5, <1>7, SeqEqual
  <1> QED
    BY <1>8 DEF r, t

-----------------------------------------------------------------------------

(* Slugs: the body of CreateFromText and the letters of the title *)

\* The text before the last two replaces, and before the last one.
Dashed(s) == Replaced(Kept(Replaced(Squeezed(s, " "), " ", "-")), "_", "-")
Body(s) == Squeezed(Dashed(s), "-")

LEMMA DashedType ==
  ASSUME NEW s \in Seq(TextChars)
  PROVE  Dashed(s) \in Seq(SlugChars)
  <1>1. Squeezed(s, " ") \in Seq(TextChars)
    BY SqueezedType
  <1>2. Replaced(Squeezed(s, " "), " ", "-") \in Seq(TextChars)
    <2>1. TextChars \ {" "} \subseteq TextChars /\ "-" \in TextChars
      BY DEF TextChars, Separators
    <2> QED
      BY <1>1, <2>1, ReplacedType
  <1>3. Kept(Replaced(Squeezed(s, " "), " ", "-")) \in Seq(KeptChars)
    BY <1>2, KeptType
  <1>4. KeptChars \ {"_"} \subseteq SlugChars /\ "-" \in SlugChars
    BY DEF KeptChars, SlugChars, SlugLetters
  <1> QED
    BY <1>3, <1>4, ReplacedType DEF Dashed

\* A letter stays, a separator becomes a dash, and of a run of blanks only the
\* first counts.
LEMMA DashedAppends ==
  ASSUME NEW s \in Seq(TextChars), NEW x \in TextChars
  PROVE  Dashed(Append(s, x))
           = IF x \in SlugLetters THEN Append(Dashed(s), x)
             ELSE IF x \in {"_", "-"} \/ (x = " " /\ ~EndsIn(s, " ")) THEN Append(Dashed(s), "-")
             ELSE Dashed(s)
  <1> DEFINE q == Squeezed(s, " ")
             r == Replaced(q, " ", "-")
             k == Kept(r)
             y == IF x = " " THEN "-" ELSE x
             z == IF y = "_" THEN "-" ELSE y
  <1>1. q \in Seq(TextChars)
    BY SqueezedType
  <1>2. r \in Seq(TextChars) /\ y \in TextChars
    <2>1. TextChars \ {" "} \subseteq TextChars /\ "-" \in TextChars
      BY DEF TextChars, Separators
    <2> HIDE DEF q
    <2> QED
      BY <1>1, <2>1, ReplacedType
  <1>3. k \in Seq(KeptChars)
    BY <1>2, KeptType
  <1> HIDE DEF k, r, q, y, z
  <1>4. CASE x = " " /\ EndsIn(s, " ")
    <2>1. Squeezed(Append(s, x), " ") = Squeezed(s, " ")
      BY <1>4, SqueezedAppends
    <2>2. x \notin SlugLetters /\ x \notin {"_", "-"}
      BY <1>4 DEF SlugLetters
    <2> QED
      BY <1>4, <2>1, <2>2 DEF Dashed
  <1>5. CASE ~(x = " " /\ EndsIn(s, " "))
    <2>1. Squeezed(Append(s, x), " ") = Append(q, x)
      BY <1>5, SqueezedAppends DEF q
    <2>2. Replaced(Append(q, x), " ", "-") = Append(r, y)
      <3>1. (x = " " => y = "-") /\ (x # " " => y = x)
        BY DEF y
      <3>2. \A c, d : Replaced(Append(q, x), c, d) = Append(Replaced(q, c, d), IF x = c THEN d ELSE x)
        BY <1>1, ReplacedAppends
      <3>3. Replaced(Append(q, x), " ", "-") = Append(Replaced(q, " ", "-"), y)
        BY <3>1, <3>2
      <3> QED
        BY <3>3 DEF r
    <2>3. Kept(Append(r, y)) = IF y \in KeptChars THEN Append(k, y) ELSE k
      BY <1>2, KeptAppends DEF k
    <2>4. Dashed(s) = Replaced(k, "_", "-")
      BY DEF Dashed, k, r, q
    <2>5. Dashed(Append(s, x)) = Replaced(Kept(Append(r, y)), "_", "-")
      BY <2>1, <2>2 DEF Dashed
    <2>6. CASE y \in KeptChars
      <3>1. Replaced(Append(k, y), "_", "-") = Append(Dashed(s), z)
        <4>1. (y = "_" => z = "-") /\ (y # "_" => z = y)
          BY DEF z
        <4>2. \A c, d : Replaced(Append(k, y), c, d) = Append(Replaced(k, c, d), IF y = c THEN d ELSE y)
          BY <1>3, <2>6, ReplacedAppends
        <4>3. Replaced(Append(k, y), "_", "-") = Append(Replaced(k, "_", "-"), z)
          BY <4>1, <4>2
        <4> QED
          BY <2>4, <4>3
      <3>2. z = IF x \in SlugLetters THEN x ELSE "-"
        BY <2>6 DEF y, z, KeptChars, SlugLetters
      <3>3. x \in SlugLetters \/ x \in {"_", "-"} \/ (x = " " /\ ~EndsIn(s, " "))
        BY <1>5, <2>6 DEF y, KeptChars, SlugLetters
      <3> QED
        BY <2>3, <2>5, <2>6, <3>1, <3>2, <3>3
    <2>7. CASE y \notin KeptChars
      <3>1. x \notin SlugLetters /\ x \notin {"_", "-"} /\ x # " "
        BY <2>7 DEF y, KeptChars, SlugLetters
      <3> QED
        BY <2>3, <2>4, <2>5, <2>7, <3>1
    <2> QED
      BY <2>6, <2>7
  <1> QED
    BY <1>4, <1>5

\* The letters, and a dash before one that something separates from the letter
\* before it: what SlugOf makes of a trimmed text.
LettersOf(s) == {i \in DOMAIN s : s[i] \in {"a", "b", "e"}}

Separated(s, i) ==
  \E j \in 1..(i - 1) : s[j] \in {" ", "_", "-"} /\ \A k \in LettersOf(s) : k <= j \/ k >= i

LetterPart(s, i) ==
  IF i \notin LettersOf(s) THEN <<>>
  ELSE IF Separated(s, i) THEN <<"-", s[i]>> ELSE <<s[i]>>

Gapped(s) == FlattenSeq([i \in DOMAIN s |-> LetterPart(s, i)])

\* A separator waits for a letter.
Pending(s) == \E j \in 1..Len(s) : s[j] \in Separators /\ \A k \in LettersOf(s) : k <= j

LEMMA SlugOfIsGapped ==
  ASSUME NEW t
  PROVE  SlugOf(t) = Gapped(Trimmed(Normalized(t)))
  BY DEF SlugOf, Gapped, LetterPart, Separated, LettersOf

LEMMA LetterPartType ==
  ASSUME NEW s \in Seq(TextChars), NEW i
  PROVE  LetterPart(s, i) \in Seq(SlugChars)
  <1>1. CASE i \in LettersOf(s)
    <2>1. s[i] \in SlugChars /\ "-" \in SlugChars
      BY <1>1 DEF LettersOf, SlugChars, SlugLetters
    <2> HIDE DEF SlugChars
    <2> QED
      BY <1>1, <2>1 DEF LetterPart
  <1>2. CASE i \notin LettersOf(s)
    BY <1>2, EmptySeq DEF LetterPart
  <1> QED
    BY <1>1, <1>2

LEMMA GappedType ==
  ASSUME NEW s \in Seq(TextChars)
  PROVE  Gapped(s) \in Seq(SlugChars)
  <1> DEFINE parts == [i \in 1..Len(s) |-> LetterPart(s, i)]
  <1>1. Len(s) \in Nat /\ DOMAIN s = 1..Len(s)
    BY LenProperties
  <1>2. Gapped(s) = FlattenSeq(parts) /\ parts \in Seq(Seq(SlugChars))
    BY <1>1, LetterPartType DEF Gapped
  <1> HIDE DEF parts
  <1> QED
    BY <1>2, FlattenType

LEMMA LettersAppend ==
  ASSUME NEW s \in Seq(TextChars), NEW x \in TextChars
  PROVE  /\ LettersOf(s) \subseteq 1..Len(s)
         /\ LettersOf(Append(s, x)) = LettersOf(s) \cup (IF x \in SlugLetters THEN {Len(s) + 1} ELSE {})
  BY LastOfAppend DEF LettersOf, SlugLetters

LEMMA PendingAppends ==
  ASSUME NEW s \in Seq(TextChars), NEW x \in TextChars
  PROVE  /\ Pending(Append(s, x)) <=> x \notin SlugLetters /\ (x \in Separators \/ Pending(s))
         /\ EndsIn(s, " ") => Pending(s)
  <1> DEFINE t == Append(s, x)
             n == Len(s)
  <1>1. /\ n \in Nat /\ Len(t) = n + 1 /\ DOMAIN s = 1..n
        /\ \A i \in 1..n : t[i] = s[i]
        /\ t[n + 1] = x
    BY LastOfAppend
  <1>2. /\ LettersOf(s) \subseteq 1..n
        /\ LettersOf(t) = LettersOf(s) \cup (IF x \in SlugLetters THEN {n + 1} ELSE {})
    BY LettersAppend
  <1> HIDE DEF t
  <1>3. ASSUME x \in SlugLetters PROVE ~Pending(t)
    <2>1. x \notin Separators
      BY <1>3 DEF SlugLetters, Separators
    <2>2. \A j \in 1..(n + 1) : n + 1 <= j => t[j] = x
      BY <1>1
    <2> QED
      BY <1>1, <1>2, <1>3, <2>1, <2>2 DEF Pending
  <1>4. ASSUME x \notin SlugLetters PROVE Pending(t) <=> x \in Separators \/ Pending(s)
    <2>1. ASSUME Pending(s) PROVE Pending(t)
      BY <1>1, <1>2, <1>4, <2>1 DEF Pending
    <2>2. ASSUME x \in Separators PROVE Pending(t)
      <3>1. n + 1 \in 1..Len(t) /\ \A k \in LettersOf(t) : k <= n + 1
        BY <1>1, <1>2, <1>4
      <3> QED
        BY <1>1, <2>2, <3>1 DEF Pending
    <2>3. ASSUME Pending(t), x \notin Separators PROVE Pending(s)
      <3>1. PICK j \in 1..Len(t) : t[j] \in Separators /\ \A k \in LettersOf(t) : k <= j
        BY <2>3 DEF Pending
      <3>2. j \in 1..n
        BY <1>1, <2>3, <3>1
      <3> QED
        BY <1>1, <1>2, <3>1, <3>2 DEF Pending
    <2> QED
      BY <2>1, <2>2, <2>3
  <1>5. ASSUME EndsIn(s, " ") PROVE Pending(s)
    <2>1. n \in 1..n /\ s[n] \in Separators /\ \A k \in LettersOf(s) : k <= n
      <3>1. s # <<>> /\ s[n] = " "
        BY <1>5 DEF EndsIn
      <3>2. n # 0
        BY <3>1, EmptySeq
      <3>3. n \in 1..n
        BY <1>1, <3>2
      <3>4. \A k \in LettersOf(s) : k <= n
        BY <1>1, <1>2
      <3>5. s[n] \in Separators
        BY <3>1 DEF Separators
      <3> QED
        BY <3>3, <3>4, <3>5
    <2> QED
      BY <2>1 DEF Pending
  <1> QED
    BY <1>3, <1>4, <1>5 DEF t

LEMMA GappedAppends ==
  ASSUME NEW s \in Seq(TextChars), NEW x \in TextChars
  PROVE  Gapped(Append(s, x))
           = IF x \notin SlugLetters THEN Gapped(s)
             ELSE IF Pending(s) THEN Append(Append(Gapped(s), "-"), x)
             ELSE Append(Gapped(s), x)
  <1> DEFINE t == Append(s, x)
             n == Len(s)
             parts(u) == [i \in 1..Len(u) |-> LetterPart(u, i)]
  <1>1. /\ t \in Seq(TextChars) /\ n \in Nat /\ Len(t) = n + 1
        /\ DOMAIN s = 1..n /\ DOMAIN t = 1..Len(t)
        /\ \A i \in 1..n : t[i] = s[i]
        /\ t[n + 1] = x
    BY LastOfAppend
  <1>2. /\ LettersOf(s) \subseteq 1..n
        /\ LettersOf(t) = LettersOf(s) \cup (IF x \in SlugLetters THEN {n + 1} ELSE {})
    BY LettersAppend
  <1> HIDE DEF t
  <1>3. ASSUME NEW i \in 1..n PROVE LetterPart(t, i) = LetterPart(s, i)
    <2>1. i \in LettersOf(t) <=> i \in LettersOf(s)
      BY <1>1, <1>2
    <2>2. Separated(t, i) <=> Separated(s, i)
      <3>1. \A j \in 1..(i - 1) : t[j] = s[j]
        BY <1>1
      <3>2. \A j : (\A k \in LettersOf(t) : k <= j \/ k >= i) <=> (\A k \in LettersOf(s) : k <= j \/ k >= i)
        BY <1>1, <1>2
      <3> QED
        BY <3>1, <3>2 DEF Separated
    <2>3. t[i] = s[i]
      BY <1>1
    <2> QED
      BY <2>1, <2>2, <2>3 DEF LetterPart
  <1>4. LetterPart(t, n + 1) = IF x \notin SlugLetters THEN <<>>
                               ELSE IF Pending(s) THEN <<"-", x>> ELSE <<x>>
    <2>1. n + 1 \in LettersOf(t) <=> x \in SlugLetters
      BY <1>1, <1>2
    <2>2. Separated(t, n + 1) <=> Pending(s)
      <3>1. (n + 1) - 1 = n
        BY <1>1
      <3>2. \A j \in 1..n : (\A k \in LettersOf(t) : k <= j \/ k >= n + 1)
                              <=> (\A k \in LettersOf(s) : k <= j)
        BY <1>1, <1>2
      <3> QED
        BY <1>1, <3>1, <3>2 DEF Separated, Pending, Separators
    <2> QED
      BY <1>1, <2>1, <2>2 DEF LetterPart
  <1>5. Gapped(s) = FlattenSeq(parts(s)) /\ Gapped(t) = FlattenSeq(parts(t))
    BY <1>1 DEF Gapped
  <1>6. /\ \A i \in 1..n : LetterPart(s, i) \in Seq(SlugChars)
        /\ \A i \in 1..(n + 1) : LetterPart(t, i) \in Seq(SlugChars)
    BY <1>1, LetterPartType
  <1>7. /\ parts(s) \in Seq(Seq(SlugChars)) /\ parts(t) \in Seq(Seq(SlugChars))
        /\ Len(parts(s)) = n /\ Len(parts(t)) = n + 1
        /\ \A i \in 1..n : parts(t)[i] = parts(s)[i]
        /\ parts(t)[n + 1] = LetterPart(t, n + 1)
    BY <1>1, <1>3, <1>6
  <1> HIDE DEF parts
  <1>8. Gapped(t) = Gapped(s) \o LetterPart(t, n + 1)
    BY <1>5, <1>7, FlattenLast
  <1>9. Gapped(s) \in Seq(SlugChars) /\ "-" \in SlugChars /\ SlugLetters \subseteq SlugChars
    BY GappedType DEF SlugChars
  <1>10. /\ Gapped(s) \o <<>> = Gapped(s)
         /\ x \in SlugLetters => /\ Gapped(s) \o <<x>> = Append(Gapped(s), x)
                                 /\ Gapped(s) \o <<"-", x>> = Append(Append(Gapped(s), "-"), x)
    <2>1. Gapped(s) \o <<>> = Gapped(s)
      BY <1>9, ConcatEmptySeq
    <2>2. ASSUME x \in SlugLetters
          PROVE  /\ Gapped(s) \o <<x>> = Append(Gapped(s), x)
                 /\ Gapped(s) \o <<"-", x>> = Append(Append(Gapped(s), "-"), x)
      <3> DEFINE g == Gapped(s)
      <3>1. g \in Seq(SlugChars) /\ x \in SlugChars
        BY <1>9, <2>2
      <3> HIDE DEF g
      <3>2. <<"-">> \in Seq(SlugChars) /\ <<x>> \in Seq(SlugChars) /\ <<"-">> \o <<x>> = <<"-", x>>
        <4>1. <<"-">> \in Seq(SlugChars) /\ <<x>> \in Seq(SlugChars)
          BY <1>9, <3>1
        <4>2. <<"-">> \o <<x>> = <<"-", x>>
          <5>1. /\ <<"-", x>> \in Seq(SlugChars) /\ Len(<<"-", x>>) = 2
                /\ <<"-", x>>[1] = "-" /\ <<"-", x>>[2] = x
            BY <1>9, <3>1
          <5>2. /\ <<"-">> \o <<x>> \in Seq(SlugChars) /\ Len(<<"-">> \o <<x>>) = 2
                /\ (<<"-">> \o <<x>>)[1] = "-" /\ (<<"-">> \o <<x>>)[2] = x
            BY <4>1, ConcatProperties
          <5>3. \A i \in 1..2 : (<<"-">> \o <<x>>)[i] = <<"-", x>>[i]
            BY <5>1, <5>2
          <5> QED
            BY <5>1, <5>2, <5>3, SeqEqual
        <4> QED
          BY <4>1, <4>2
      <3>3. (g \o <<"-">>) \o <<x>> = g \o <<"-", x>>
        BY <3>1, <3>2, ConcatAssociative
      <3>4. g \o <<"-">> = Append(g, "-") /\ Append(g, "-") \in Seq(SlugChars)
        BY <1>9, <3>1, AppendIsConcat, AppendProperties
      <3>5. Append(g, "-") \o <<x>> = Append(Append(g, "-"), x) /\ g \o <<x>> = Append(g, x)
        BY <3>1, <3>4, AppendIsConcat
      <3> QED
        BY <3>3, <3>4, <3>5 DEF g
    <2> QED
      BY <2>1, <2>2
  <1> QED
    BY <1>4, <1>8, <1>10 DEF t

\* No two dashes in a row.
NoDoubles(s) == \A i \in 2..Len(s) : ~(s[i] = "-" /\ s[i - 1] = "-")

LEMMA NoDoublesAppends ==
  ASSUME NEW s \in Seq(SlugChars), NEW x \in SlugChars,
         NoDoubles(s), ~(x = "-" /\ EndsIn(s, "-"))
  PROVE  NoDoubles(Append(s, x))
  <1> DEFINE t == Append(s, x)
             n == Len(s)
  <1>1. /\ n \in Nat /\ Len(t) = n + 1
        /\ \A i \in 1..n : t[i] = s[i]
        /\ t[n + 1] = x
    BY LastOfAppend
  <1> HIDE DEF t
  <1> SUFFICES ASSUME NEW i \in 2..(n + 1) PROVE ~(t[i] = "-" /\ t[i - 1] = "-")
    BY <1>1 DEF NoDoubles, t
  <1>2. CASE i \in 2..n
    BY <1>1, <1>2 DEF NoDoubles
  <1>3. CASE i = n + 1
    <2>1. n # 0 /\ i - 1 = n /\ t[i] = x /\ t[i - 1] = s[n]
      BY <1>1, <1>3
    <2>2. s # <<>>
      BY <2>1, EmptySeq
    <2> QED
      BY <2>1, <2>2 DEF EndsIn
  <1> QED
    BY <1>2, <1>3

\* What one more character keeps: the text before the last squeeze ends in a
\* dash while a separator waits, and the squeezed one is the letters with
\* their dashes, and one more dash while a separator waits.
Shape(s) ==
  /\ EndsIn(Dashed(s), "-") <=> Pending(s)
  /\ Body(s) = IF Pending(s) THEN Append(Gapped(s), "-") ELSE Gapped(s)
  /\ ~EndsIn(Gapped(s), "-")
  /\ NoDoubles(Gapped(s))

LEMMA ShapeOfEmpty == Shape(<<>>)
  <1>1. /\ \A c : Squeezed(<<>>, c) = <<>> /\ Kept(<<>>) = <<>>
        /\ \A c, d : Replaced(<<>>, c, d) = <<>>
        /\ Gapped(<<>>) = <<>>
    <2>1. \A c : Squeezed(<<>>, c) = <<>>
      <3> TAKE c
      <3>1. [i \in DOMAIN <<>> |-> IF i > 1 /\ <<>>[i] = c /\ <<>>[i - 1] = c
                                   THEN <<>> ELSE <<(<<>>)[i]>>] = <<>>
        OBVIOUS
      <3> QED
        BY <3>1, FlattenEmpty DEF Squeezed
    <2>2. Kept(<<>>) = <<>>
      <3>1. [i \in DOMAIN <<>> |-> IF <<>>[i] \in {"a", "b", "e", "_", "-"}
                                   THEN <<(<<>>)[i]>> ELSE <<>>] = <<>>
        OBVIOUS
      <3> QED
        BY <3>1, FlattenEmpty DEF Kept
    <2>3. \A c, d : Replaced(<<>>, c, d) = <<>>
      BY DEF Replaced
    <2>4. Gapped(<<>>) = <<>>
      <3>1. [i \in DOMAIN <<>> |-> LetterPart(<<>>, i)] = <<>>
        OBVIOUS
      <3> QED
        BY <3>1, FlattenEmpty DEF Gapped
    <2> QED
      BY <2>1, <2>2, <2>3, <2>4
  <1>2. Dashed(<<>>) = <<>>
    BY <1>1 DEF Dashed
  <1>3. Body(<<>>) = <<>>
    BY <1>1, <1>2 DEF Body
  <1>4. ~Pending(<<>>)
    BY DEF Pending
  <1>5. \A c : ~EndsIn(<<>>, c)
    BY DEF EndsIn
  <1>6. NoDoubles(<<>>)
    BY DEF NoDoubles
  <1> QED
    BY <1>1, <1>2, <1>3, <1>4, <1>5, <1>6 DEF Shape

LEMMA ShapeAppends ==
  ASSUME NEW s \in Seq(TextChars), NEW x \in TextChars, Shape(s)
  PROVE  Shape(Append(s, x))
  <1> DEFINE t == Append(s, x)
             d == Dashed(s)
             g == Gapped(s)
  <1>1. /\ Dashed(t) = IF x \in SlugLetters THEN Append(d, x)
                       ELSE IF x \in {"_", "-"} \/ (x = " " /\ ~EndsIn(s, " ")) THEN Append(d, "-")
                       ELSE d
        /\ Gapped(t) = IF x \notin SlugLetters THEN g
                       ELSE IF Pending(s) THEN Append(Append(g, "-"), x)
                       ELSE Append(g, x)
        /\ Pending(t) <=> x \notin SlugLetters /\ (x \in Separators \/ Pending(s))
        /\ EndsIn(s, " ") => Pending(s)
    BY DashedAppends, GappedAppends, PendingAppends
  <1>2. d \in Seq(SlugChars) /\ g \in Seq(SlugChars) /\ "-" \in SlugChars /\ SlugLetters \subseteq SlugChars
    BY DashedType, GappedType DEF SlugChars
  <1>3. /\ Body(s) = Squeezed(d, "-") /\ Body(t) = Squeezed(Dashed(t), "-")
        /\ EndsIn(d, "-") <=> Pending(s)
        /\ Body(s) = IF Pending(s) THEN Append(g, "-") ELSE g
        /\ ~EndsIn(g, "-") /\ NoDoubles(g)
    BY DEF Shape, Body
  <1> HIDE DEF t, d, g
  <1>4. CASE x \in SlugLetters
    <2>1. x # "-" /\ x \in SlugChars
      BY <1>2, <1>4 DEF SlugLetters
    <2>2. Dashed(t) = Append(d, x) /\ ~Pending(t)
      BY <1>1, <1>4
    <2>3. Squeezed(Append(d, x), "-") = Append(Squeezed(d, "-"), x)
      BY <1>2, <2>1, SqueezedAppends
    <2>4. ~EndsIn(Append(d, x), "-")
      BY <1>2, <2>1, LastOfAppend
    <2>5. /\ Append(g, "-") \in Seq(SlugChars) /\ NoDoubles(Append(g, "-"))
      BY <1>2, <1>3, NoDoublesAppends, AppendProperties
    <2>6. CASE Pending(s)
      <3>1. NoDoubles(Append(Append(g, "-"), x)) /\ ~EndsIn(Append(Append(g, "-"), x), "-")
        BY <2>1, <2>5, NoDoublesAppends, LastOfAppend
      <3>2. Gapped(t) = Append(Append(g, "-"), x)
        BY <1>1, <1>4, <2>6
      <3>3. Body(t) = Gapped(t)
        BY <1>3, <2>2, <2>3, <2>6, <3>2
      <3> QED
        BY <2>2, <2>4, <3>1, <3>2, <3>3 DEF Shape, t
    <2>7. CASE ~Pending(s)
      <3>1. NoDoubles(Append(g, x)) /\ ~EndsIn(Append(g, x), "-")
        BY <1>2, <1>3, <2>1, NoDoublesAppends, LastOfAppend
      <3>2. Gapped(t) = Append(g, x)
        BY <1>1, <1>4, <2>7
      <3>3. Body(t) = Gapped(t)
        BY <1>3, <2>2, <2>3, <2>7, <3>2
      <3> QED
        BY <2>2, <2>4, <3>1, <3>2, <3>3 DEF Shape, t
    <2> QED
      BY <2>6, <2>7
  <1>5. CASE x \in {"_", "-"} \/ (x = " " /\ ~EndsIn(s, " "))
    <2>1. x \in Separators /\ x \notin SlugLetters
      BY <1>5 DEF Separators, SlugLetters
    <2>2. Dashed(t) = Append(d, "-") /\ Gapped(t) = g /\ Pending(t)
      BY <1>1, <1>5, <2>1
    <2>3. Squeezed(Append(d, "-"), "-")
            = IF EndsIn(d, "-") THEN Squeezed(d, "-") ELSE Append(Squeezed(d, "-"), "-")
      BY <1>2, SqueezedAppends
    <2>4. EndsIn(Append(d, "-"), "-")
      BY <1>2, LastOfAppend
    <2>5. Body(t) = Append(g, "-")
      BY <1>3, <2>2, <2>3
    <2> QED
      BY <1>3, <2>2, <2>4, <2>5 DEF Shape, t
  <1>6. CASE ~(x \in SlugLetters \/ x \in {"_", "-"} \/ (x = " " /\ ~EndsIn(s, " ")))
    <2>1. Dashed(t) = d /\ Gapped(t) = g
      BY <1>1, <1>6
    <2>2. Pending(t) <=> Pending(s)
      BY <1>1, <1>6 DEF Separators
    <2> QED
      BY <1>3, <2>1, <2>2 DEF Shape, t
  <1> QED
    BY <1>4, <1>5, <1>6

LEMMA ShapeHolds == \A s \in Seq(TextChars) : Shape(s)
  <1> DEFINE P == {s \in Seq(TextChars) : Shape(s)}
  <1>1. <<>> \in P
    BY ShapeOfEmpty, EmptySeq
  <1>2. ASSUME NEW s \in Seq(TextChars), NEW x \in TextChars, s \in P
        PROVE  Append(s, x) \in P
    BY <1>2, ShapeAppends, AppendProperties
  <1> HIDE DEF P
  <1>3. Seq(TextChars) \subseteq P
    BY <1>1, <1>2, SequenceInduction
  <1> QED
    BY <1>3 DEF P

LEMMA FrontOfAppend ==
  ASSUME NEW X, NEW s \in Seq(X), NEW x \in X
  PROVE  Append(s, x) # <<>> /\ Last(Append(s, x)) = x /\ Front(Append(s, x)) = s
  <1> DEFINE t == Append(s, x)
             n == Len(s)
  <1>1. /\ t \in Seq(X) /\ t # <<>> /\ n \in Nat /\ Len(t) = n + 1
        /\ \A i \in 1..n : t[i] = s[i]
        /\ t[n + 1] = x
    BY AppendProperties, LenProperties
  <1> HIDE DEF t
  <1>2. Last(t) = x /\ Front(t) = SubSeq(t, 1, n)
    BY <1>1 DEF Last, Front
  <1>3. SubSeq(t, 1, n) \in Seq(X) /\ Len(SubSeq(t, 1, n)) = n
        /\ \A i \in 1..n : SubSeq(t, 1, n)[i] = t[i]
    BY <1>1
  <1>4. SubSeq(t, 1, n) = s
    BY <1>1, <1>3, SeqEqual
  <1> QED
    BY <1>1, <1>2, <1>4 DEF t

\* So dropping the last dash leaves the letters with their dashes.
LEMMA CreateFromTextIsGapped ==
  ASSUME NEW s \in Seq(TextChars)
  PROVE  WithoutLastDash(Body(s)) = Gapped(s)
  <1>1. Shape(s) /\ Gapped(s) \in Seq(SlugChars) /\ "-" \in SlugChars
    BY ShapeHolds, GappedType DEF SlugChars
  <1> DEFINE g == Gapped(s)
  <1> HIDE DEF g
  <1>2. CASE Pending(s)
    <2>1. Body(s) = Append(g, "-") /\ g \in Seq(SlugChars)
      BY <1>1, <1>2 DEF Shape, g
    <2>2. Append(g, "-") # <<>> /\ Last(Append(g, "-")) = "-" /\ Front(Append(g, "-")) = g
      BY <1>1, <2>1, FrontOfAppend
    <2> QED
      BY <2>1, <2>2 DEF WithoutLastDash, g
  <1>3. CASE ~Pending(s)
    <2>1. Body(s) = g /\ ~EndsIn(g, "-")
      BY <1>1, <1>3 DEF Shape, g
    <2>2. ~(g # <<>> /\ Last(g) = "-")
      BY <2>1 DEF EndsIn, Last
    <2> QED
      BY <2>1, <2>2 DEF WithoutLastDash, g
  <1> QED
    BY <1>2, <1>3

\* What normalizing gives has no accented letter and no capital, whether it is
\* a title or a slug that is normalized.
LEMMA NormalizedType ==
  ASSUME NEW t \in Seq(TitleChars \cup SlugChars)
  PROVE  Normalized(t) \in Seq(TextChars)
  <1> DEFINE Raw == TextChars \cup {"B"}
             parts == [i \in 1..Len(t) |-> Decomposed(t[i])]
             d == FlattenSeq(parts)
  <1>1. /\ Len(t) \in Nat /\ DOMAIN t = 1..Len(t)
        /\ \A i \in 1..Len(t) : t[i] \in TitleChars \cup SlugChars
    BY LenProperties, ElementOfSeq
  <1>2. \A c \in TitleChars \cup SlugChars : Decomposed(c) \in Seq(Raw)
    <2> SUFFICES ASSUME NEW c \in TitleChars \cup SlugChars PROVE Decomposed(c) \in Seq(Raw)
      OBVIOUS
    <2>1. c \in Raw \cup {"eacute"}
      BY TitleCharsAssumption DEF TextChars, SlugChars, SlugLetters, Separators
    <2>2. "e" \in Raw /\ "accent" \in Raw
      BY DEF TextChars, SlugLetters
    <2> HIDE DEF Raw
    <2> QED
      BY <2>1, <2>2 DEF Decomposed
  <1>3. parts \in Seq(Seq(Raw))
    BY <1>1, <1>2
  <1>4. d \in Seq(Raw)
    <2> HIDE DEF parts, Raw
    <2> QED
      BY <1>3, FlattenType
  <1>5. Normalized(t) = [i \in DOMAIN d |-> Lower(d[i])]
    BY <1>1 DEF Normalized
  <1> HIDE DEF d, parts
  <1>6. /\ Len(d) \in Nat /\ DOMAIN d = 1..Len(d)
        /\ \A i \in 1..Len(d) : d[i] \in Raw
    BY <1>4, LenProperties, ElementOfSeq
  <1>7. \A c \in Raw : Lower(c) \in TextChars
    BY DEF Lower, TextChars, SlugLetters
  <1>8. \A i \in 1..Len(d) : Lower(d[i]) \in TextChars
    BY <1>6, <1>7
  <1> HIDE DEF Raw
  <1> QED
    BY <1>5, <1>6, <1>8

\* Positions have a first and a last one.
LEMMA FirstAndLast ==
  ASSUME NEW n \in Nat, NEW T, T \subseteq 1..n, T # {}
  PROVE  /\ Min(T) \in T /\ \A m \in T : Min(T) <= m
         /\ Max(T) \in T /\ \A m \in T : Max(T) >= m
  <1>1. \E a \in T : \A m \in T : a <= m
    <2>1. T \subseteq Nat
      OBVIOUS
    <2> QED
      BY <2>1, LeastNumber
  <1>2. \E a \in T : \A m \in T : a >= m
    <2> DEFINE R == {i \in Nat : n - i \in T}
    <2>1. R \subseteq Nat /\ R # {}
      <3>1. PICK i \in T : TRUE
        OBVIOUS
      <3>2. n - i \in R
        BY <3>1
      <3> QED
        BY <3>2
    <2>2. PICK r \in R : \A m \in R : r <= m
      <3> HIDE DEF R
      <3> QED
        BY <2>1, LeastNumber
    <2>3. ASSUME NEW m \in T PROVE n - r >= m
      <3>1. n - m \in R
        BY <2>3
      <3> QED
        BY <2>2, <3>1
    <2> QED
      BY <2>2, <2>3
  <1>3. Min(T) \in T /\ \A m \in T : Min(T) <= m
    BY <1>1 DEF Min
  <1>4. Max(T) \in T /\ \A m \in T : Max(T) >= m
    BY <1>2 DEF Max
  <1> QED
    BY <1>3, <1>4

LEMMA TrimmedType ==
  ASSUME NEW X, NEW s \in Seq(X)
  PROVE  Trimmed(s) \in Seq(X)
  <1> DEFINE kept == {i \in DOMAIN s : s[i] # " "}
  <1>1. Len(s) \in Nat /\ DOMAIN s = 1..Len(s) /\ \A i \in 1..Len(s) : s[i] \in X
    BY LenProperties, ElementOfSeq
  <1>2. CASE kept = {}
    BY <1>2, EmptySeq DEF Trimmed
  <1>3. CASE kept # {}
    <2>1. kept \subseteq 1..Len(s)
      BY <1>1
    <2>2. Trimmed(s) = SubSeq(s, Min(kept), Max(kept))
      BY <1>3 DEF Trimmed
    <2> HIDE DEF kept
    <2>3. Min(kept) \in 1..Len(s) /\ Max(kept) \in 1..Len(s)
      BY <1>1, <1>3, <2>1, FirstAndLast
    <2>4. \A i \in Min(kept)..Max(kept) : s[i] \in X
      BY <1>1, <2>3
    <2> QED
      BY <2>2, <2>3, <2>4, SubSeqProperties
  <1> QED
    BY <1>2, <1>3

\* The slug of a title is its letters and their dashes.
LEMMA SlugsAreGapped ==
  ASSUME NEW t \in Seq(TitleChars \cup SlugChars)
  PROVE  /\ CreateFromText(t) = SlugOf(t)
         /\ CreateFromText(t) \in Seq(SlugChars)
         /\ ~EndsIn(CreateFromText(t), "-")
         /\ NoDoubles(CreateFromText(t))
  <1> DEFINE s == Trimmed(Normalized(t))
  <1>1. s \in Seq(TextChars)
    BY NormalizedType, TrimmedType
  <1>2. CreateFromText(t) = WithoutLastDash(Body(s))
    BY DEF CreateFromText, Body, Dashed
  <1>3. SlugOf(t) = Gapped(s)
    BY SlugOfIsGapped
  <1> HIDE DEF s
  <1>4. CreateFromText(t) = Gapped(s)
    BY <1>1, <1>2, CreateFromTextIsGapped
  <1>5. Shape(s) /\ Gapped(s) \in Seq(SlugChars)
    BY <1>1, ShapeHolds, GappedType
  <1> QED
    BY <1>3, <1>4, <1>5 DEF Shape

\* A text of letters and single dashes, none at its end, is its own slug: no
\* step of CreateFromText has anything to do.
LEMMA SlugsAreTheirOwn ==
  ASSUME NEW u \in Seq(SlugChars), ~EndsIn(u, "-"), NoDoubles(u)
  PROVE  CreateFromText(u) = u
  <1> DEFINE n == Len(u)
             singles == [i \in 1..n |-> <<u[i]>>]
  <1>1. n \in Nat /\ DOMAIN u = 1..n /\ \A i \in 1..n : u[i] \in SlugChars
    BY LenProperties, ElementOfSeq
  <1>2. \A i \in 1..n : u[i] \notin {" ", "_", "B", "eacute"} /\ u[i] \in {"a", "b", "e", "_", "-"}
    BY <1>1 DEF SlugChars, SlugLetters
  <1>3. FlattenSeq(singles) = u
    BY FlattenSingles
  <1>4. u = [i \in 1..n |-> u[i]]
    BY <1>1
  <1> HIDE DEF n
  <1>5. Normalized(u) = u
    <2>1. [i \in DOMAIN u |-> Decomposed(u[i])] = singles
      BY <1>1, <1>2 DEF Decomposed
    <2>2. Normalized(u) = [i \in DOMAIN u |-> Lower(u[i])]
      BY <1>3, <2>1 DEF Normalized
    <2>3. \A i \in 1..n : Lower(u[i]) = u[i]
      BY <1>2 DEF Lower
    <2> QED
      BY <1>1, <1>4, <2>2, <2>3
  <1>6. Trimmed(u) = u
    <2> DEFINE kept == {i \in DOMAIN u : u[i] # " "}
    <2>1. kept = 1..n
      BY <1>1, <1>2
    <2>2. CASE n = 0
      <3>1. kept = {} /\ u = <<>>
        BY <2>1, <2>2, EmptySeq DEF n
      <3> QED
        BY <3>1 DEF Trimmed
    <2>3. CASE n # 0
      <3>1. kept # {} /\ kept \subseteq 1..n /\ 1 \in kept /\ n \in kept
        <4>1. n \in Nat /\ n >= 1
          BY <1>1, <2>3
        <4>2. 1 \in 1..n /\ n \in 1..n
          BY <4>1
        <4> HIDE DEF kept
        <4> QED
          BY <2>1, <4>2
      <3>2. Trimmed(u) = SubSeq(u, Min(kept), Max(kept))
        BY <3>1 DEF Trimmed
      <3> HIDE DEF kept
      <3>3. Min(kept) \in 1..n /\ Max(kept) \in 1..n /\ Min(kept) <= 1 /\ Max(kept) >= n
        BY <1>1, <2>1, <3>1, FirstAndLast
      <3>4. Min(kept) = 1 /\ Max(kept) = n
        BY <1>1, <3>3
      <3>5. SubSeq(u, 1, n) = u
        BY SubSeqFull DEF n
      <3> QED
        BY <3>2, <3>4, <3>5
    <2> QED
      BY <2>2, <2>3
  <1>7. Squeezed(u, " ") = u
    <2>1. [i \in DOMAIN u |-> IF i > 1 /\ u[i] = " " /\ u[i - 1] = " " THEN <<>> ELSE <<u[i]>>] = singles
      BY <1>1, <1>2
    <2> QED
      BY <1>3, <2>1 DEF Squeezed
  <1>8. Replaced(u, " ", "-") = u /\ Replaced(u, "_", "-") = u
    BY <1>1, <1>2, <1>4 DEF Replaced
  <1>9. Kept(u) = u
    <2>1. [i \in DOMAIN u |-> IF u[i] \in {"a", "b", "e", "_", "-"} THEN <<u[i]>> ELSE <<>>] = singles
      BY <1>1, <1>2
    <2> QED
      BY <1>3, <2>1 DEF Kept
  <1>10. Squeezed(u, "-") = u
    <2>1. \A i \in 1..n : ~(i > 1 /\ u[i] = "-" /\ u[i - 1] = "-")
      BY <1>1 DEF NoDoubles, n
    <2>2. [i \in DOMAIN u |-> IF i > 1 /\ u[i] = "-" /\ u[i - 1] = "-" THEN <<>> ELSE <<u[i]>>] = singles
      BY <1>1, <2>1
    <2> QED
      BY <1>3, <2>2 DEF Squeezed
  <1>11. WithoutLastDash(u) = u
    BY DEF WithoutLastDash, EndsIn, Last
  <1> QED
    BY <1>5, <1>6, <1>7, <1>8, <1>9, <1>10, <1>11 DEF CreateFromText

-----------------------------------------------------------------------------

\* The slug is always the one of the title: Order.create and the setter of
\* title compute it together with the title.
SlugInv ==
  /\ title \in Seq(TitleChars)
  /\ slug = CreateFromText(title)

LEMMA SlugInvInit == SlugInit => SlugInv
  <1> SUFFICES ASSUME SlugInit PROVE SlugInv
    OBVIOUS
  <1>1. title \in {<<>>} \cup {<<c>> : c \in TitleChars} /\ slug = CreateFromText(title)
    BY DEF SlugInit
  <1>2. title \in Seq(TitleChars)
    <2>1. CASE title = <<>>
      BY <2>1, EmptySeq
    <2>2. ASSUME NEW c \in TitleChars, title = <<c>> PROVE title \in Seq(TitleChars)
      BY <2>2
    <2> QED
      BY <1>1, <2>1, <2>2
  <1> QED
    BY <1>1, <1>2 DEF SlugInv

LEMMA SlugInvStep == SlugInv /\ [SlugNext]_slugVars => SlugInv'
  <1> SUFFICES ASSUME SlugInv, [SlugNext]_slugVars PROVE SlugInv'
    OBVIOUS
  <1>1. CASE SlugNext
    <2>1. PICK c \in TitleChars : SetTitle(Append(title, c))
      BY <1>1 DEF SlugNext
    <2>2. Append(title, c) \in Seq(TitleChars)
      BY AppendProperties DEF SlugInv
    <2>3. title' = Append(title, c) /\ slug' = CreateFromText(Append(title, c))
      BY <2>1 DEF SetTitle
    <2>4. slug' = CreateFromText(title')
      BY <2>3
    <2> QED
      BY <2>2, <2>3 DEF SlugInv
  <1>2. CASE UNCHANGED slugVars
    BY <1>2 DEF slugVars, SlugInv
  <1> QED
    BY <1>1, <1>2

LEMMA SlugInvHolds == SlugSpec => []SlugInv
  BY SlugInvInit, SlugInvStep, PTL DEF SlugSpec

LEMMA SlugInvIsEnough == SlugInv => SlugTypeOK /\ SlugIsCanonical
  <1> SUFFICES ASSUME SlugInv PROVE SlugTypeOK /\ SlugIsCanonical
    OBVIOUS
  <1>1. title \in Seq(TitleChars \cup SlugChars) /\ title \in Seq(TitleChars)
    <2>1. TitleChars \subseteq TitleChars \cup SlugChars
      OBVIOUS
    <2> HIDE DEF SlugChars
    <2> QED
      BY <2>1, SeqMonotonic DEF SlugInv
  <1>2. /\ slug = SlugOf(title) /\ slug \in Seq(SlugChars)
        /\ ~EndsIn(slug, "-") /\ NoDoubles(slug)
    BY <1>1, SlugsAreGapped DEF SlugInv
  <1>3. CreateFromText(slug) = slug
    BY <1>2, SlugsAreTheirOwn
  <1>4. SlugChars = {"a", "b", "e", "-"}
    BY DEF SlugChars, SlugLetters
  <1> QED
    BY <1>1, <1>2, <1>3, <1>4 DEF SlugTypeOK, SlugIsCanonical

\* However often the title of an order is changed, whatever characters it is
\* made of and however long it gets, its slug is the letters of the title with
\* one dash for each gap that a separator is in, and is its own slug: the five
\* replaces of Slug.createFromText leave no dash too many for any title.
THEOREM SlugsAreCanonical == SlugSpec => []SlugIsCanonical
  BY SlugInvHolds, SlugInvIsEnough, PTL

\* Titles are made of the characters titles have, slugs of lower-case letters
\* and dashes only.
THEOREM SlugsTypes == SlugSpec => []SlugTypeOK
  BY SlugInvHolds, SlugInvIsEnough, PTL

=============================================================================
