CONSTANTS
  t1 = t1  t2 = t2
  NoStream = NoStream
  Streams = {t1}
  Buses = {"redis"}
  BufferSize = 1
  MaxVersion = 3
  Flushable = TRUE
  Refreshes = FALSE
  Drops = TRUE
SPECIFICATION Spec
INVARIANTS
  NoPanic
CHECK_DEADLOCK FALSE
