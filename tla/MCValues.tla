------------------------------ MODULE MCValues ------------------------------
(***************************************************************************)
(* Small instances of the objects that keep no table: a watched list, a    *)
(* CPF and the slug of an order.  A behaviour is about one of them.        *)
(***************************************************************************)
EXTENDS WatchedList, Cpf, Slugs

VARIABLE object

ValuesTypeOK ==
  /\ object \in {"list", "cpf", "slug"}
  /\ TypeOK /\ CpfTypeOK /\ SlugTypeOK

\* None of the three, when another service runs.
NoValues ==
  /\ object = "list"
  /\ loaded = {} /\ list = ConstructedEmpty /\ history = "constructed"
  /\ text = <<>> /\ made = NoObject /\ outcome = "waiting" /\ first = <<>>
  /\ title = <<>> /\ slug = <<>>

ValuesInit ==
  /\ object \in {"list", "cpf", "slug"}
  /\ IF object = "list" THEN Init
     ELSE loaded = {} /\ list = ConstructedEmpty /\ history = "constructed"
  /\ IF object = "cpf" THEN CpfInit
     ELSE text = <<>> /\ made = NoObject /\ outcome = "waiting" /\ first = <<>>
  /\ IF object = "slug" THEN SlugInit ELSE title = <<>> /\ slug = <<>>

ValuesNext ==
  /\ UNCHANGED object
  /\ \/ object = "list" /\ Next /\ UNCHANGED <<cpfVars, slugVars>>
     \/ object = "cpf" /\ CpfNext /\ UNCHANGED <<vars, slugVars>>
     \/ object = "slug" /\ SlugNext /\ UNCHANGED <<vars, cpfVars>>

valueVars == <<object, vars, cpfVars, slugVars>>

-----------------------------------------------------------------------------

\* Eleven digits, the first nine of them zeros and ones: the weighted sums of
\* these have every remainder.  Those with one digit wrong are among them.
ElevenDigits ==
  {bits \o <<d, e>> : bits \in [1..9 -> {0, 1}], d \in Digits, e \in Digits}

\* Texts of other lengths, and repeated digits.
OtherTexts ==
  {<<>>, <<1, 2, 3>>, [i \in 1..12 |-> 0], <<Dot, Dash, Blank>>} \cup
  {[i \in 1..11 |-> d] : d \in Digits} \cup
  {<<Blank, 1, 2, 3, Dot, 4, 5, 6, Dot, 7, 8, 9, Dash, 0, 9, Blank>>}

MCTyped == ElevenDigits \cup OtherTexts

=============================================================================
