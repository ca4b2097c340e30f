CONSTANTS
  NULL = NULL
  Garbage = Garbage
  Keys <- MCKeys
  MaxRest = 4
SPECIFICATION Spec
INVARIANTS
  TypeOK
  StringsOwned
  ParamsAreTheUrls
CHECK_DEADLOCK FALSE
