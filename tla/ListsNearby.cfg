SPECIFICATION ServicesSpec
CONSTANTS
  admin = admin
  ana = ana
  rui = rui
  zoe = zoe
  o1 = o1
  o2 = o2
  o3 = o3
  o4 = o4
  o5 = o5
  cpf1 = cpf1
  cpf2 = cpf2
  cpf3 = cpf3
  cpf4 = cpf4
  Readers = {r1}
  Orders <- MCOrders
  Users <- MCUsers
  Admins <- MCAdmins
  Cpfs <- MCCpfs
  CreatedAt <- Dates
  PageSize = 2
  Asks <- MCAsks
  OrderRows <- MCOrderRows
  InitialOrders <- ThreeOrders
  InitialUsers <- ThreeUsers
  NoOrder = NoOrder
  NoUser = NoUser
  NoCpf = NoCpf
  NoAsk = NoAsk
  MaxWrites = 2
  Devices = {d1, d2, d3}
  NotificationIds = {n1, n2}
  Recipients = {ana, rui}
  Unread = Unread
  NoNotification = NoNotification
  NoRead = NoRead
  MaxTime = 2
  Uploaders = {c1, c2}
  FileNames = {photo, receipt}
  Uuids = {uuid1, uuid2}
  NoFile = NoFile
  Elements = {a, b, c}
  Typed <- MCTyped
  NoObject = NoObject
  TitleChars = {"a", "B", "eacute", " ", "_", "-", "!"}
  MaxTitle = 5
PROPERTIES OrdersNameRecipients
CHECK_DEADLOCK FALSE
