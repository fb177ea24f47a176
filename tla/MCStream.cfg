CONSTANTS
  t1 = t1  t2 = t2
  NoStream = NoStream
  Streams = {t1, t2}
  Buses = {"memory", "redis"}
  BufferSize = 1
  MaxVersion = 3
  Flushable = TRUE
  Refreshes = TRUE
  Drops = TRUE
SPECIFICATION Spec
INVARIANTS
  TypeOK
  NotifiedPageCurrent
  MemoryBusNeverPanics
PROPERTIES
  ViewNeverOlder
  NotifiedPageCatchesUp
CHECK_DEADLOCK FALSE
