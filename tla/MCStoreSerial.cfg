CONSTANTS
  Machines = {m1}
  FileTypes = {png, jpeg}
  MaxSegments = 2
  MaxUploads = 3
  MayCrash = TRUE
  StorageFails = TRUE
  MaxCut = 0
  NoUpload = NoUpload
SPECIFICATION Spec
CHECK_DEADLOCK FALSE
INVARIANTS
  AckedIsIntact
  NextIdIsFresh
  BatchListsItsWindow
  RecordedIsFound
PROPERTY ImplementsAlbum
