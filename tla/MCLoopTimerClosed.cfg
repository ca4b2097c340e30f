CONSTANTS
  MaxMachines = 2
  Conns = {c1, c2}
  MaxFd = 6
  MaxFiles = 1
  MaxChunks = 1
  HalfCloses = TRUE
  Prompt = FALSE
  NegativeGarbage = FALSE
SPECIFICATION Spec
INVARIANTS
  BusyIsTimed
