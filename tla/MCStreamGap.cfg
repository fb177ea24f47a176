CONSTANTS
  t1 = t1  t2 = t2
  NoStream = NoStream
  Streams = {t1}
  Buses = {"memory"}
  BufferSize = 1
  MaxVersion = 3
  Flushable = TRUE
  Refreshes = FALSE
  Drops = FALSE
SPECIFICATION Spec
INVARIANTS
  ConnectedPageCurrent
CHECK_DEADLOCK FALSE
