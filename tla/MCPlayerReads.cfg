CONSTANTS
  NoState = NoState
  badRole = badRole  UnknownRole = badRole
  f = f  r = r  p1 = p1  p2 = p2  p3 = p3  n1 = n1  n2 = n2
  noName = noName  s1 = s1  s2 = s2  w1 = w1  w2 = w2
  NoRole = NoRole  NoId = NoId  NoRoom = NoRoom  NoSession = NoSession
  NoDecisions = NoDecisions  NoPlayer = NoPlayer  EmptyName = noName
  AllRoles <- TwoRoles
  PlayerIds = {p1, p2}
  Names = {n1, n2}
  SessionIds = {s1, s2}
  MaxWeeks = 2
  OrderChoices = {1}
  Workers = {w1}
  Failures = TRUE
StoreKinds = {"redis"}
SPECIFICATION FullReadSpec
INVARIANTS
  ShownOrdersStand
  FinishedShownWhole
PROPERTIES
  ShownWeekNeverBack
CHECK_DEADLOCK FALSE
