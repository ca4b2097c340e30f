CONSTANTS
  BUFFER = 13
  LineLengths = {2, 11}
  HeaderLengths = {2, 13, 14}
  MaxHeaders = 2
  Bodies <- Pictures
SPECIFICATION Spec
CHECK_DEADLOCK FALSE
INVARIANTS
  TypeOK
  DispatchedIsRight
  WellCutIsParsed
  BadlyCutIsNotServed
  OnlyLongLinesOverflow
