----------------------------- MODULE MCAccounts -----------------------------
(***************************************************************************)
(* A small instance of Accounts: an admin, a courier, and two ids for new  *)
(* users; one CPF that nobody has and one that is not valid.               *)
(***************************************************************************)
EXTENDS Accounts, TLC

CONSTANTS admin, ana, new1, new2, cpfAdmin, cpfAna, cpfFree, cpfBad,
          mailAdmin, mailAna, mailFree, old, fresh1, fresh2

MCUserIds == {admin, ana, new1, new2}
MCCpfs == {cpfAdmin, cpfAna, cpfFree, cpfBad}
MCValidCpfs == {cpfAdmin, cpfAna, cpfFree}
MCEmails == {mailAdmin, mailAna, mailFree}
MCPasswords == {old, fresh1, fresh2}

AdminAndCourier ==
  (admin :> [cpf |-> <<cpfAdmin, "raw">>, email |-> mailAdmin, password |-> old]) @@
  (ana :> [cpf |-> <<cpfAna, "raw">>, email |-> mailAna, password |-> old]) @@
  (new1 :> NoRow) @@ (new2 :> NoRow)

TheirRoles ==
  (admin :> OneRole("ADMIN")) @@ (ana :> OneRole("COURIER")) @@
  (new1 :> OneRole("none")) @@ (new2 :> OneRole("none"))

Recipients == {admin}

\* A call by the admin, with the fields an operation ignores filled in.
Blank == [op |-> "get", kind |-> "COURIER", by |-> admin, user |-> ana,
          cpf |-> <<cpfAna, "raw">>, email |-> mailAna, password |-> old,
          roles |-> OneRole("none")]

Create(u, cpf, mail) ==
  [Blank EXCEPT !.op = "create", !.user = u, !.cpf = <<cpf, "raw">>, !.email = mail,
                !.roles = OneRole("RECIPIENT")]
Registration(u, cpf, how, mail) ==
  [Blank EXCEPT !.op = "register", !.user = u, !.cpf = <<cpf, how>>, !.email = mail]
EditTo(kind, cpf, mail) ==
  [Blank EXCEPT !.op = "edit", !.kind = kind, !.cpf = <<cpf, "raw">>, !.email = mail]
ChangeTo(p) == [Blank EXCEPT !.op = "password", !.password = p]
Deletion(kind, u) == [Blank EXCEPT !.op = "delete", !.kind = kind, !.user = u]
LogIn == [Blank EXCEPT !.op = "login"]

\* Two creations of the free CPF, one of them typed with dots, an edit that
\* claims it; edits, password changes and a deletion of the courier; a CPF
\* that is not valid; logins, a read and a request by someone who is no admin.
AccountCalls ==
  {Create(new1, cpfFree, mailFree), Create(new1, cpfBad, mailFree),
   Create(new1, cpfFree, mailAna), Create(new2, cpfAna, mailFree),
   Registration(new2, cpfFree, "formatted", mailAdmin),
   Registration(new2, cpfFree, "formatted", mailFree),
   Registration(new2, cpfAna, "raw", mailFree),
   [Registration(new1, cpfFree, "raw", mailFree) EXCEPT !.kind = "RECIPIENT"],
   EditTo("COURIER", cpfFree, mailFree), EditTo("RECIPIENT", cpfAna, mailAna),
   ChangeTo(fresh1), ChangeTo(fresh2), [ChangeTo(fresh1) EXCEPT !.user = new1],
   Deletion("COURIER", ana), Deletion("RECIPIENT", new1), Deletion("RECIPIENT", admin),
   LogIn, Blank, [Blank EXCEPT !.by = ana]}

\* Requests are interchangeable: no action or property orders them.
Interchangeable == Permutations(Requests)

=============================================================================
