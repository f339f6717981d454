-------------------------------- MODULE Slugs --------------------------------
(***************************************************************************)
(* The slug of an order, which follows its title: Slug.createFromText and  *)
(* the two places of Order that call it.  An edit makes the title one      *)
(* character longer, so that an order has every title up to a length.      *)
(***************************************************************************)
EXTENDS Integers, Sequences, SequencesExt

CONSTANTS
  TitleChars, \* the characters of titles
  MaxTitle    \* bound: the length of a title

\* One character of each sort the code tells apart: letters of either case, a
\* letter with an accent, a blank, the two characters of [\w-] that are no
\* letters, and one that is not in it.
ASSUME TitleCharsAssumption == TitleChars \subseteq {"a", "B", "eacute", " ", "_", "-", "!"}

VARIABLES title, slug

slugVars == <<title, slug>>

SlugTypeOK ==
  /\ title \in Seq(TitleChars)
  /\ slug \in Seq({"a", "b", "e", "-"})

-----------------------------------------------------------------------------

\* normalize('NFKD') takes the accent off the letter and leaves it behind.
Decomposed(c) == IF c = "eacute" THEN <<"e", "accent">> ELSE <<c>>

Lower(c) == IF c = "B" THEN "b" ELSE c

\* trim: from the first character that is not a blank to the last.
Trimmed(s) ==
  LET kept == {i \in DOMAIN s : s[i] # " "} IN
  IF kept = {} THEN <<>> ELSE SubSeq(s, Min(kept), Max(kept))

Replaced(s, c, d) == [i \in DOMAIN s |-> IF s[i] = c THEN d ELSE s[i]]

\* A run of c becomes one c: the + of \s+ and of --+.
Squeezed(s, c) ==
  FlattenSeq([i \in DOMAIN s |->
    IF i > 1 /\ s[i] = c /\ s[i - 1] = c THEN <<>> ELSE <<s[i]>>])

\* What [^\w-]+ does not match.
Kept(s) ==
  FlattenSeq([i \in DOMAIN s |->
    IF s[i] \in {"a", "b", "e", "_", "-"} THEN <<s[i]>> ELSE <<>>])

\* A replace of /-$/: one dash at most.
WithoutLastDash(s) == IF s # <<>> /\ Last(s) = "-" THEN Front(s) ELSE s

Normalized(t) ==
  LET decomposed == FlattenSeq([i \in DOMAIN t |-> Decomposed(t[i])])
  IN [i \in DOMAIN decomposed |-> Lower(decomposed[i])]

\* Dashes squeezed before underscores have become dashes.
CreateFromTextSqueezingFirst(t) ==
  LET dashed == Replaced(Squeezed(Trimmed(Normalized(t)), " "), " ", "-")
  IN WithoutLastDash(Replaced(Squeezed(Kept(dashed), "-"), "_", "-"))

CreateFromText(t) ==
  LET dashed == Replaced(Squeezed(Trimmed(Normalized(t)), " "), " ", "-")
  IN WithoutLastDash(Squeezed(Replaced(Kept(dashed), "_", "-"), "-"))

-----------------------------------------------------------------------------

\* Order.create: a title may be empty.
SlugInit ==
  /\ title \in {<<>>} \cup {<<c>> : c \in TitleChars}
  /\ slug = CreateFromText(title)

\* The setter of Order.title.
SetTitle(t) ==
  /\ Len(t) <= MaxTitle
  /\ title' = t
  /\ slug' = CreateFromText(t)

SlugNext == \E c \in TitleChars : SetTitle(Append(title, c))

SlugSpec == SlugInit /\ [][SlugNext]_slugVars

-----------------------------------------------------------------------------

\* The letters of the title, with a dash before one that something separates
\* from the letter before it (or, for the first, from the start).
SlugOf(t) ==
  LET s == Trimmed(Normalized(t))
      letters == {i \in DOMAIN s : s[i] \in {"a", "b", "e"}}
      Separated(i) ==
        \E j \in 1..(i - 1) :
          /\ s[j] \in {" ", "_", "-"}
          /\ \A k \in letters : k <= j \/ k >= i
  IN FlattenSeq([i \in DOMAIN s |->
       IF i \notin letters THEN <<>>
       ELSE IF Separated(i) THEN <<"-", s[i]>> ELSE <<s[i]>>])

\* The slug holds the letters of the title and one dash for each gap with a
\* separator in it, never one at the end; so it is its own slug, and titles
\* that differ in other characters only have one slug.
SlugIsCanonical ==
  /\ slug = SlugOf(title)
  /\ CreateFromText(slug) = slug

=============================================================================
