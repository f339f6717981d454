SPECIFICATION HttpSpec
CONSTANTS
  r1 = r1
  r2 = r2
  r3 = r3
  root = root
  boss = boss
  ana = ana
  new = new
  Requests = {r1, r2, r3}
  UserIds <- MCUserIds
  Calls <- MCCalls
  InitialUsers <- MCUsers
  InitialTokens = {root, boss, ana}
  NoUser = NoUser
  NoToken = NoToken
  NoCall = NoCall
INVARIANTS HttpTypeOK OnlyAdminsAct AnswersMatchRows AnswersAreDocumented
SYMMETRY Interchangeable
CHECK_DEADLOCK FALSE
