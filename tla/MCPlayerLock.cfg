CONSTANTS
  a = a  b = b  c = c
  NoTab = NoTab  Former = Former
  Tabs = {a, b, c}
  Background = {c}
  TTL = 3
  RefreshInterval = 1
  Mishaps = TRUE
SPECIFICATION Spec
INVARIANTS
  TypeOK
  OneTabPlays
  PlayerKept
PROPERTY ConflictEnds
CHECK_DEADLOCK FALSE
