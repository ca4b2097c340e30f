CONSTANTS
  MaxMachines = 2
  Conns = {c1, c2, c3}
  MaxFd = 7
  MaxFiles = 1
  MaxChunks = 1
  HalfCloses = TRUE
  Prompt = TRUE
  NegativeGarbage = FALSE
SPECIFICATION Spec
INVARIANTS
  ServerStaysUp
