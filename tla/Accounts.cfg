SPECIFICATION Spec
CONSTANTS
  admin = admin
  ana = ana
  new1 = new1
  new2 = new2
  cpfAdmin = cpfAdmin
  cpfAna = cpfAna
  cpfFree = cpfFree
  cpfBad = cpfBad
  mailAdmin = mailAdmin
  mailAna = mailAna
  mailFree = mailFree
  old = old
  fresh1 = fresh1
  fresh2 = fresh2
  Requests = {r1, r2, r3}
  UserIds <- MCUserIds
  Cpfs <- MCCpfs
  ValidCpfs <- MCValidCpfs
  Emails <- MCEmails
  Passwords <- MCPasswords
  Calls <- AccountCalls
  InitialAccounts <- AdminAndCourier
  InitialRoles <- TheirRoles
  Named <- Recipients
  NoRow = NoRow
  NoCall = NoCall
INVARIANTS TypeOK OneAccountPerCpf OneCreationPerCpf RolesAreGiven
  PasswordLossNeedsRival DeletedStaysDeleted
PROPERTIES RegistrySpec
SYMMETRY Interchangeable
CHECK_DEADLOCK FALSE
