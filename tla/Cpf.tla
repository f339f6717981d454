--------------------------------- MODULE Cpf ---------------------------------
(***************************************************************************)
(* The value object CPF: a text is cleaned, checked and kept as eleven     *)
(* digits, and printed raw (columns, JSON) or with dots and a dash.  A     *)
(* printed CPF comes back as the text of a later request.                  *)
(***************************************************************************)
EXTENDS Integers, Sequences, SequencesExt

CONSTANTS
  Typed,   \* the texts that arrive
  NoObject \* no CPF object

\* Characters: digits are themselves, what \D matches is numbered from ten.
Digits == 0..9
Dot == 10
Dash == 11
Blank == 12
Characters == Digits \cup {Dot, Dash, Blank}

ASSUME TypedAssumption == Typed \subseteq Seq(Characters)
ASSUME NoObjectAssumption == NoObject \notin Seq(Digits)

VARIABLES
  text,    \* the text given to CPF.create
  made,     \* the object made of it
  outcome, \* what became of the text
  first    \* history: the digits of the text that arrived

cpfVars == <<text, made, outcome, first>>

CpfTypeOK ==
  /\ text \in Seq(Characters)
  /\ made \in [1..11 -> Digits] \cup {NoObject}
  /\ outcome \in {"waiting", "created", "refused"}
  /\ first \in Seq(Digits)

-----------------------------------------------------------------------------

\* The replace of each \D by nothing.
Clean(t) == FlattenSeq([i \in DOMAIN t |-> IF t[i] \in Digits THEN <<t[i]>> ELSE <<>>])

\* The reduce: the first base digits, weighted from base + 1 down to 2.
Total(c, base) ==
  LET sum[k \in 0..base] ==
        IF k = 0 THEN 0 ELSE sum[k - 1] + c[k] * (base + 2 - k)
  IN sum[base]

\* A check digit that forgets the remainder of one.
CheckDigitOfZero(total) ==
  LET remainder == total % 11 IN IF remainder = 0 THEN 0 ELSE 11 - remainder

CheckDigit(total) ==
  LET remainder == total % 11 IN IF remainder < 2 THEN 0 ELSE 11 - remainder

AllTheSame(c) == \A i \in DOMAIN c : c[i] = c[1]

IsValid(c) ==
  /\ Len(c) = 11 /\ ~AllTheSame(c)
  /\ c[10] = CheckDigit(Total(c, 9))
  /\ c[11] = CheckDigit(Total(c, 10))

\* The replace of getFormatted: three, three, three and two digits.
Formatted(c) ==
  SubSeq(c, 1, 3) \o <<Dot>> \o SubSeq(c, 4, 6) \o <<Dot>> \o SubSeq(c, 7, 9)
    \o <<Dash>> \o SubSeq(c, 10, 11)

-----------------------------------------------------------------------------

CpfInit ==
  /\ text \in Typed
  /\ made = NoObject
  /\ outcome = "waiting"
  /\ first = Clean(text)

\* CPF.create.
CreateCpf ==
  /\ outcome = "waiting"
  /\ IF IsValid(Clean(text))
     THEN outcome' = "created" /\ made' = Clean(text)
     ELSE outcome' = "refused" /\ UNCHANGED made
  /\ UNCHANGED <<text, first>>

\* What is printed of a CPF is typed again.
PrintCpf ==
  /\ outcome = "created"
  /\ text' \in {made, Formatted(made)}
  /\ made' = NoObject
  /\ outcome' = "waiting"
  /\ UNCHANGED first

CpfNext == CreateCpf \/ PrintCpf

CpfSpec == CpfInit /\ [][CpfNext]_cpfVars

-----------------------------------------------------------------------------

\* The rule for a check digit: ten times the weighted sum, modulo eleven, ten
\* counting as zero.
OfficialDigit(total) == ((10 * total) % 11) % 10

Official(c) ==
  /\ Len(c) = 11
  /\ \E i, j \in DOMAIN c : c[i] # c[j]
  /\ c[10] = OfficialDigit(Total(c, 9))
  /\ c[11] = OfficialDigit(Total(c, 10))

\* A text is accepted exactly when its digits follow the rule, and neither
\* form that getRaw and getFormatted give of a CPF is ever refused or read as
\* another, however often it is printed and typed again.
CpfFollowsRules ==
  /\ outcome = "created" => made = first /\ Official(first)
  /\ outcome = "refused" => ~Official(first)

=============================================================================
