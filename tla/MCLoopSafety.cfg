CONSTANTS
  MaxMachines = 2
  Conns = {c1, c2, c3}
  MaxFd = 5
  MaxFiles = 2
  MaxChunks = 2
  HalfCloses = FALSE
  Prompt = TRUE
  NegativeGarbage = TRUE
SPECIFICATION Spec
CHECK_DEADLOCK FALSE
SYMMETRY Symmetry
INVARIANTS
  TypeOK
  TimersIntact
  BusyIsTimed
  ClientsOwned
  
  EventsAreCurrent
PROPERTIES
  ClosedByItsOwn
  DownOnlyWhenExhausted
