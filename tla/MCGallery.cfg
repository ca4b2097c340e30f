CONSTANTS
  DEFAULT_LIMIT = 2
  BATCHES_PER_PAGE = 2
  MaxPictures = 5
  MaxTasks = 2
SPECIFICATION ScrollingSpec
INVARIANTS
  TypeOK
  OneLoader
  ShownFromTheTop
  EndIsTheEnd
PROPERTIES
  EverythingIsSeen
