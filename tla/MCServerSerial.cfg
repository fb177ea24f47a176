CONSTANTS
  badRole = badRole  UnknownRole = badRole
  f = f  r = r  p1 = p1  p2 = p2  p3 = p3  n1 = n1  n2 = n2
  noName = noName  s1 = s1  s2 = s2  w1 = w1  w2 = w2
  NoRole = NoRole  NoId = NoId  NoRoom = NoRoom  NoSession = NoSession
  NoDecisions = NoDecisions  NoPlayer = NoPlayer  EmptyName = noName
  AllRoles <- TwoRoles
  PlayerIds = {p1, p2, p3}
  Names = {n1, n2, noName}
  SessionIds = {s1}
  MaxWeeks = 2
  OrderChoices <- ThreeOrders
  Workers = {w1}
  Failures = TRUE
StoreKinds = {"redis", "memory"}
SPECIFICATION Spec
INVARIANTS
  TypeOK
  RoomNotAheadOfSession
  QueuesInStep
  OffersAccepted
PROPERTIES
  ImplementsTurns
  JoinedPlayersStay
  StartedRoomFrozen
CHECK_DEADLOCK FALSE
