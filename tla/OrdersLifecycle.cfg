SPECIFICATION FairSpec
CONSTANTS
  o1 = o1
  o2 = o2
  admin = admin
  ana = ana
  bia = bia
  rui = rui
  p1 = p1
  p2 = p2
  s1 = s1
  s2 = s2
  Requests = {r1, r2, r3}
  OrderIds <- MCOrderIds
  Users <- MCUsers
  Admins <- MCAdmins
  Photos <- MCPhotos
  Slugs <- MCSlugs
  Calls <- LifecycleCalls
  InitialOrders <- PickedUp
  InitialPhotos <- LoosePhotos
  NoUser = NoUser
  NoRow = NoRow
  NoOrder = NoOrder
  NoCall = NoCall
  MaxConcurrent = 2
  MaxRestarts = 1
PROPERTIES CacheSettles EveryCallAnswered NotifiedUnlessLost RegistrySpec
CHECK_DEADLOCK FALSE
