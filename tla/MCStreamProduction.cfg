CONSTANTS
  t1 = t1  t2 = t2
  NoStream = NoStream
  Streams = {t1}
  Buses = {"memory"}
  BufferSize = 1
  MaxVersion = 3
  Flushable = FALSE
  Refreshes = FALSE
  Drops = FALSE
SPECIFICATION Spec
PROPERTIES
  StreamShowsRoom
CHECK_DEADLOCK FALSE
