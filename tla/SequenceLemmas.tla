--------------------------- MODULE SequenceLemmas ---------------------------
(***************************************************************************)
(* Induction over the natural numbers, from the well-foundedness of finite *)
(* sets, and what FlattenSeq computes.  The other proof modules cite these *)
(* facts by name.                                                          *)
(***************************************************************************)
EXTENDS Integers, Sequences, SequencesExt, FiniteSets, FiniteSetTheorems, SequenceTheorems, TLAPS

-----------------------------------------------------------------------------

(* Induction *)

\* Of any natural numbers there is a least one: the intervals up to them are
\* finite sets, and of these there is a smallest.
LEMMA LeastNumber ==
  ASSUME NEW T, T \subseteq Nat, T # {}
  PROVE  \E n \in T : \A m \in T : n <= m
  <1> DEFINE intervals == {1..n : n \in T}
  <1>1. intervals \subseteq FiniteSubsetsOf(Nat) /\ intervals # {}
    <2>1. ASSUME NEW n \in T PROVE 1..n \in FiniteSubsetsOf(Nat)
      BY FS_Interval DEF FiniteSubsetsOf
    <2> QED
      BY <2>1
  <1>2. PICK A \in intervals : \A B \in intervals : <<B, A>> \notin StrictSubsetOrdering(Nat)
    BY <1>1, FS_StrictSubsetOrderingWellFounded, WFMin
  <1>3. PICK n \in T : A = 1..n
    OBVIOUS
  <1>4. ASSUME NEW m \in T, m < n PROVE FALSE
    <2>1. n \in 1..n /\ n \notin 1..m
      BY <1>4
    <2>2. 1..m \in SUBSET Nat /\ 1..n \in SUBSET Nat /\ 1..m \subseteq 1..n /\ 1..m # 1..n
      BY <1>4, <2>1
    <2>3. <<1..m, 1..n>> \in StrictSubsetOrdering(Nat)
      BY <2>2 DEF StrictSubsetOrdering
    <2> QED
      BY <2>3, <1>2, <1>3
  <1> QED
    BY <1>4

\* Induction, for a property given as the set of the numbers that have it.
LEMMA NumberInduction ==
  ASSUME NEW S, 0 \in S, \A n \in Nat : n \in S => n + 1 \in S
  PROVE  Nat \subseteq S
  <1> SUFFICES ASSUME ~(Nat \subseteq S) PROVE FALSE
    OBVIOUS
  <1>1. PICK n \in Nat \ S : \A m \in Nat \ S : n <= m
    BY LeastNumber
  <1>2. n # 0 /\ n - 1 \in Nat /\ n - 1 \in S
    BY <1>1
  <1> QED
    BY <1>2

\* Induction over sequences that grow at their end.
LEMMA SequenceInduction ==
  ASSUME NEW X, NEW P, <<>> \in P, \A s \in Seq(X), x \in X : s \in P => Append(s, x) \in P
  PROVE  Seq(X) \subseteq P
  <1> DEFINE S == {n \in Nat : \A s \in Seq(X) : Len(s) = n => s \in P}
  <1>1. 0 \in S
    BY EmptySeq
  <1>2. ASSUME NEW n \in Nat, n \in S PROVE n + 1 \in S
    <2> SUFFICES ASSUME NEW t \in Seq(X), Len(t) = n + 1 PROVE t \in P
      OBVIOUS
    <2>1. t # <<>>
      OBVIOUS
    <2>2. PICK s \in Seq(X), x \in X : t = Append(s, x)
      BY <2>1, SequenceEmptyOrAppend
    <2>3. Len(s) = n
      BY <2>2, AppendProperties
    <2> QED
      BY <1>2, <2>2, <2>3
  <1> HIDE DEF S
  <1>3. Nat \subseteq S
    BY <1>1, <1>2, NumberInduction
  <1> QED
    BY <1>3, LenProperties DEF S

-----------------------------------------------------------------------------

(* FlattenSeq *)

\* What the recursive function inside FlattenSeq satisfies.
Flattens(f, s) ==
  f = [i \in 1..Len(s) |-> IF i = 1 THEN s[i] ELSE f[i - 1] \o s[i]]

\* There is such a function, whose values are sequences.
LEMMA FlattensExists ==
  ASSUME NEW X, NEW s \in Seq(Seq(X))
  PROVE  \E f : Flattens(f, s)
  <1> DEFINE Upto(n) == \E f : f = [i \in 1..n |-> IF i = 1 THEN s[i] ELSE f[i - 1] \o s[i]]
             S == {n \in Nat : Upto(n)}
  <1>1. 0 \in S
    <2> DEFINE f == [i \in 1..0 |-> s[i]]
    <2>1. f = [i \in 1..0 |-> IF i = 1 THEN s[i] ELSE f[i - 1] \o s[i]]
      OBVIOUS
    <2> QED
      BY <2>1
  <1>2. ASSUME NEW n \in Nat, n \in S PROVE n + 1 \in S
    <2>1. PICK f : f = [i \in 1..n |-> IF i = 1 THEN s[i] ELSE f[i - 1] \o s[i]]
      BY <1>2
    <2> DEFINE rest(i) == IF i = 1 THEN s[i] ELSE f[i - 1] \o s[i]
               g == [i \in 1..(n + 1) |-> IF i <= n THEN f[i] ELSE rest(i)]
    <2>2. \A i \in 1..n : f[i] = rest(i)
      BY <2>1
    <2> HIDE DEF rest
    <2>3. \A i \in 1..(n + 1) : g[i] = rest(i)
      BY <2>2
    <2>4. \A i \in 1..n : g[i] = f[i]
      OBVIOUS
    <2> HIDE DEF g
    <2>5. \A i \in 1..(n + 1) : rest(i) = IF i = 1 THEN s[i] ELSE g[i - 1] \o s[i]
      <3> SUFFICES ASSUME NEW i \in 1..(n + 1), i # 1 PROVE rest(i) = g[i - 1] \o s[i]
        BY DEF rest
      <3>1. i - 1 \in 1..n
        OBVIOUS
      <3>2. g[i - 1] = f[i - 1]
        BY <2>4, <3>1
      <3> QED
        BY <3>2 DEF rest
    <2>6. g = [i \in 1..(n + 1) |-> IF i = 1 THEN s[i] ELSE g[i - 1] \o s[i]]
      BY <2>3, <2>5 DEF g
    <2>7. Upto(n + 1)
      BY <2>6
    <2> HIDE DEF Upto
    <2> QED
      BY <2>7
  <1> HIDE DEF S
  <1>3. Nat \subseteq S
    BY <1>1, <1>2, NumberInduction
  <1> QED
    BY <1>3, LenProperties DEF S, Flattens

LEMMA FlattenedBy ==
  ASSUME NEW X, NEW s \in Seq(Seq(X))
  PROVE  \E f : Flattens(f, s) /\ FlattenSeq(s) = IF Len(s) = 0 THEN <<>> ELSE f[Len(s)]
  <1> DEFINE f == CHOOSE g : g = [i \in 1..Len(s) |-> IF i = 1 THEN s[i] ELSE g[i - 1] \o s[i]]
  <1>1. Flattens(f, s)
    BY FlattensExists DEF Flattens
  <1>2. FlattenSeq(s) = IF Len(s) = 0 THEN s ELSE f[Len(s)]
    BY DEF FlattenSeq
  <1>3. Len(s) = 0 => s = <<>>
    BY EmptySeq
  <1> QED
    BY <1>1, <1>2, <1>3

\* All such functions agree, on longer sequences too.
LEMMA FlattensUnique ==
  ASSUME NEW s, NEW t, NEW f, NEW g, Len(s) \in Nat, Len(t) \in Nat,
         Flattens(f, s), Flattens(g, t), Len(s) <= Len(t),
         \A i \in 1..Len(s) : s[i] = t[i]
  PROVE  \A i \in 1..Len(s) : f[i] = g[i]
  <1> DEFINE S == {n \in Nat : n \in 1..Len(s) => f[n] = g[n]}
  <1>1. 0 \in S
    OBVIOUS
  <1>2. ASSUME NEW n \in Nat, n \in S PROVE n + 1 \in S
    <2> SUFFICES ASSUME n + 1 \in 1..Len(s) PROVE f[n + 1] = g[n + 1]
      OBVIOUS
    <2>1. n + 1 \in 1..Len(t) /\ (n + 1) - 1 = n /\ (n + 1 # 1 => n \in 1..Len(s))
      OBVIOUS
    <2>2. f[n + 1] = IF n + 1 = 1 THEN s[n + 1] ELSE f[n] \o s[n + 1]
      BY <2>1 DEF Flattens
    <2>3. g[n + 1] = IF n + 1 = 1 THEN t[n + 1] ELSE g[n] \o t[n + 1]
      BY <2>1 DEF Flattens
    <2> QED
      BY <1>2, <2>1, <2>2, <2>3
  <1> HIDE DEF S
  <1>3. Nat \subseteq S
    BY <1>1, <1>2, NumberInduction
  <1> QED
    BY <1>3 DEF S

LEMMA FlattenEmpty == FlattenSeq(<<>>) = <<>>
  BY DEF FlattenSeq

LEMMA FlattenOne ==
  ASSUME NEW X, NEW x \in Seq(X)
  PROVE  FlattenSeq(<<x>>) = x
  <1>1. <<x>> \in Seq(Seq(X)) /\ Len(<<x>>) = 1 /\ <<x>>[1] = x
    OBVIOUS
  <1>2. PICK f : /\ Flattens(f, <<x>>)
                 /\ FlattenSeq(<<x>>) = IF Len(<<x>>) = 0 THEN <<>> ELSE f[Len(<<x>>)]
    BY <1>1, FlattenedBy
  <1> QED
    BY <1>1, <1>2 DEF Flattens

\* One more sequence at the end is one more concatenation.
LEMMA FlattenAppend ==
  ASSUME NEW X, NEW s \in Seq(Seq(X)), NEW x \in Seq(X)
  PROVE  FlattenSeq(Append(s, x)) = FlattenSeq(s) \o x
  <1> DEFINE t == Append(s, x)
  <1>1. /\ t \in Seq(Seq(X)) /\ Len(t) = Len(s) + 1 /\ t[Len(s) + 1] = x
        /\ \A i \in 1..Len(s) : t[i] = s[i]
        /\ Len(s) \in Nat
    BY AppendProperties, LenProperties
  <1> HIDE DEF t
  <1>2. PICK f : Flattens(f, s) /\ FlattenSeq(s) = IF Len(s) = 0 THEN <<>> ELSE f[Len(s)]
    BY FlattenedBy
  <1>3. PICK g : Flattens(g, t) /\ FlattenSeq(t) = IF Len(t) = 0 THEN <<>> ELSE g[Len(t)]
    BY <1>1, FlattenedBy
  <1> HIDE DEF t
  <1>4. \A i \in 1..Len(s) : f[i] = g[i]
    <2>1. /\ Len(s) \in Nat /\ Len(t) \in Nat /\ Len(s) <= Len(t)
          /\ \A i \in 1..Len(s) : s[i] = t[i]
      BY <1>1
    <2> QED
      BY <1>2, <1>3, <2>1, FlattensUnique
  <1>5. CASE Len(s) = 0
    <2>1. FlattenSeq(t) = x
      BY <1>1, <1>3, <1>5 DEF Flattens
    <2>2. FlattenSeq(s) = <<>>
      BY <1>2, <1>5
    <2> QED
      BY <2>1, <2>2, ConcatEmptySeq DEF t
  <1>6. CASE Len(s) # 0
    <2>1. FlattenSeq(t) = g[Len(s)] \o x
      <3>1. /\ Len(t) \in 1..Len(t) /\ Len(t) # 0 /\ Len(t) # 1 /\ Len(t) - 1 = Len(s)
            /\ t[Len(t)] = x
        BY <1>1, <1>6
      <3>2. g[Len(t)] = IF Len(t) = 1 THEN t[Len(t)] ELSE g[Len(t) - 1] \o t[Len(t)]
        BY <1>3, <3>1 DEF Flattens
      <3> QED
        BY <1>3, <3>1, <3>2
    <2>2. FlattenSeq(s) = g[Len(s)]
      BY <1>1, <1>2, <1>4, <1>6
    <2> QED
      BY <2>1, <2>2 DEF t
  <1> QED
    BY <1>5, <1>6

LEMMA FlattenType ==
  ASSUME NEW X, NEW s \in Seq(Seq(X))
  PROVE  FlattenSeq(s) \in Seq(X)
  <1> DEFINE P == {t \in Seq(Seq(X)) : FlattenSeq(t) \in Seq(X)}
  <1>1. <<>> \in P
    BY FlattenEmpty, EmptySeq
  <1>2. ASSUME NEW t \in Seq(Seq(X)), NEW x \in Seq(X), t \in P PROVE Append(t, x) \in P
    BY <1>2, FlattenAppend, AppendProperties, ConcatProperties
  <1> HIDE DEF P
  <1>3. Seq(Seq(X)) \subseteq P
    BY <1>1, <1>2, SequenceInduction
  <1> QED
    BY <1>3 DEF P

\* The elements are those of the parts.
LEMMA FlattenRange ==
  ASSUME NEW X, NEW s \in Seq(Seq(X))
  PROVE  Range(FlattenSeq(s)) = UNION {Range(s[i]) : i \in 1..Len(s)}
  <1> DEFINE All(t) == UNION {Range(t[i]) : i \in 1..Len(t)}
             P == {t \in Seq(Seq(X)) : Range(FlattenSeq(t)) = All(t)}
  <1>1. <<>> \in P
    BY FlattenEmpty, EmptySeq DEF Range
  <1>2. ASSUME NEW t \in Seq(Seq(X)), NEW x \in Seq(X), t \in P PROVE Append(t, x) \in P
    <2>1. /\ Append(t, x) \in Seq(Seq(X)) /\ Len(Append(t, x)) = Len(t) + 1
          /\ \A i \in 1..Len(t) : Append(t, x)[i] = t[i]
          /\ Append(t, x)[Len(t) + 1] = x /\ Len(t) \in Nat
      BY AppendProperties, LenProperties
    <2>2. All(Append(t, x)) = All(t) \cup Range(x)
      <3> HIDE DEF P
      <3>1. 1..(Len(t) + 1) = 1..Len(t) \cup {Len(t) + 1}
        BY <2>1
      <3> QED
        BY <2>1, <3>1
    <2>3. Range(FlattenSeq(Append(t, x))) = Range(FlattenSeq(t)) \cup Range(x)
      <3>1. FlattenSeq(t) \in Seq(X)
        BY FlattenType
      <3>2. FlattenSeq(Append(t, x)) = FlattenSeq(t) \o x
        BY FlattenAppend
      <3> QED
        BY <3>1, <3>2, RangeConcatenation
    <2> QED
      BY <1>2, <2>1, <2>2, <2>3
  <1> HIDE DEF P
  <1>3. Seq(Seq(X)) \subseteq P
    BY <1>1, <1>2, SequenceInduction
  <1> QED
    BY <1>3 DEF P

\* Parts of one element each are put side by side.
LEMMA FlattenSingles ==
  ASSUME NEW X, NEW s \in Seq(X)
  PROVE  FlattenSeq([i \in 1..Len(s) |-> <<s[i]>>]) = s
  <1> DEFINE Singles(t) == [i \in 1..Len(t) |-> <<t[i]>>]
             P == {t \in Seq(X) : Singles(t) \in Seq(Seq(X)) /\ FlattenSeq(Singles(t)) = t}
  <1>1. <<>> \in P
    <2>1. Singles(<<>>) = <<>>
      OBVIOUS
    <2> QED
      BY <2>1, FlattenEmpty, EmptySeq
  <1>2. ASSUME NEW t \in Seq(X), NEW x \in X, t \in P PROVE Append(t, x) \in P
    <2>1. /\ Append(t, x) \in Seq(X) /\ Len(Append(t, x)) = Len(t) + 1
          /\ \A i \in 1..Len(t) : Append(t, x)[i] = t[i]
          /\ Append(t, x)[Len(t) + 1] = x /\ Len(t) \in Nat
      BY AppendProperties, LenProperties
    <2>2. Singles(t) \in Seq(Seq(X)) /\ <<x>> \in Seq(X)
      BY <1>2
    <2>3. Singles(Append(t, x)) = Append(Singles(t), <<x>>)
      <3> HIDE DEF P
      <3>1. Len(Singles(t)) = Len(t) /\ DOMAIN Singles(t) = 1..Len(t)
        BY <2>1
      <3>2. /\ Append(Singles(t), <<x>>) \in Seq(Seq(X))
            /\ Len(Append(Singles(t), <<x>>)) = Len(t) + 1
            /\ \A i \in 1..Len(t) : Append(Singles(t), <<x>>)[i] = Singles(t)[i]
            /\ Append(Singles(t), <<x>>)[Len(t) + 1] = <<x>>
        BY <2>2, <3>1, AppendProperties
      <3>3. \A i \in 1..Len(t) : Singles(t)[i] = <<t[i]>>
        BY <2>1
      <3>4. /\ DOMAIN Append(Singles(t), <<x>>) = 1..(Len(t) + 1)
            /\ Append(Singles(t), <<x>>) = [i \in 1..(Len(t) + 1) |-> Append(Singles(t), <<x>>)[i]]
        BY <3>2, LenProperties
      <3> HIDE DEF Singles
      <3>5. \A i \in 1..(Len(t) + 1) : Append(Singles(t), <<x>>)[i] = <<Append(t, x)[i]>>
        BY <2>1, <3>2, <3>3
      <3> QED
        BY <2>1, <3>4, <3>5 DEF Singles
    <2>4. FlattenSeq(Singles(Append(t, x))) = t \o <<x>>
      BY <1>2, <2>2, <2>3, FlattenAppend
    <2>5. Append(Singles(t), <<x>>) \in Seq(Seq(X)) /\ t \o <<x>> = Append(t, x)
      BY <2>2, AppendProperties, AppendIsConcat
    <2> HIDE DEF Singles
    <2> QED
      BY <2>1, <2>3, <2>4, <2>5
  <1> HIDE DEF P
  <1>3. Seq(X) \subseteq P
    BY <1>1, <1>2, SequenceInduction
  <1> QED
    BY <1>3 DEF P

\* The last part is put behind the others.
LEMMA FlattenLast ==
  ASSUME NEW X, NEW s \in Seq(Seq(X)), NEW t \in Seq(Seq(X)), Len(t) = Len(s) + 1,
         \A i \in 1..Len(s) : t[i] = s[i]
  PROVE  FlattenSeq(t) = FlattenSeq(s) \o t[Len(s) + 1]
  <1> DEFINE x == t[Len(s) + 1]
  <1>1. Len(s) \in Nat /\ x \in Seq(X)
    BY LenProperties, ElementOfSeq
  <1>2. /\ Append(s, x) \in Seq(Seq(X)) /\ Len(Append(s, x)) = Len(t)
        /\ \A i \in 1..Len(s) : Append(s, x)[i] = s[i]
        /\ Append(s, x)[Len(s) + 1] = x
    BY <1>1, AppendProperties
  <1>3. \A i \in 1..Len(t) : t[i] = Append(s, x)[i]
    BY <1>1, <1>2
  <1>4. t = Append(s, x)
    BY <1>2, <1>3, SeqEqual
  <1> HIDE DEF x
  <1> QED
    BY <1>1, <1>4, FlattenAppend DEF x

-----------------------------------------------------------------------------

(* Pieces *)

\* s is the piece of w behind its first k elements.
PieceOf(s, w, k) == \A i \in 1..Len(s) : s[i] = w[k + i]

\* Two pieces of which one begins where the other ends are one piece.
LEMMA PiecesJoin ==
  ASSUME NEW X, NEW w, NEW s \in Seq(X), NEW t \in Seq(X),
         PieceOf(s, w, 0), PieceOf(t, w, Len(s))
  PROVE  s \o t \in Seq(X) /\ Len(s \o t) = Len(s) + Len(t) /\ PieceOf(s \o t, w, 0)
  <1>1. /\ s \o t \in Seq(X) /\ Len(s \o t) = Len(s) + Len(t)
        /\ Len(s) \in Nat /\ Len(t) \in Nat
        /\ \A i \in 1..(Len(s) + Len(t)) :
             (s \o t)[i] = IF i <= Len(s) THEN s[i] ELSE t[i - Len(s)]
    BY ConcatProperties, LenProperties
  <1>2. ASSUME NEW i \in 1..(Len(s) + Len(t)) PROVE (s \o t)[i] = w[0 + i]
    <2>1. CASE i <= Len(s)
      BY <1>1, <2>1 DEF PieceOf
    <2>2. CASE ~(i <= Len(s))
      <3> DEFINE j == i - Len(s)
      <3>1. j \in 1..Len(t) /\ Len(s) + j = 0 + i
        BY <1>1, <2>2
      <3> HIDE DEF j
      <3>2. t[j] = w[0 + i]
        BY <3>1 DEF PieceOf
      <3> QED
        BY <1>1, <2>2, <3>2 DEF j
    <2> QED
      BY <2>1, <2>2
  <1> QED
    BY <1>1, <1>2 DEF PieceOf

=============================================================================
