CONSTANTS
  MaxMachines = 2
  Conns = {c1, c2}
  MaxFd = 5
  MaxFiles = 1
  MaxChunks = 2
  HalfCloses = TRUE
  Prompt = TRUE
  NegativeGarbage = FALSE
SPECIFICATION ReadingSpec
CHECK_DEADLOCK FALSE
PROPERTIES
  BusyIsFreed
  QueueMoves
  HeardIsClosed
