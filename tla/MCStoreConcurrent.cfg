CONSTANTS
  Machines = {m1, m2, m3}
  FileTypes = {png, jpeg}
  MaxSegments = 2
  MaxUploads = 3
  MayCrash = TRUE
  StorageFails = TRUE
  MaxCut = 1
  NoUpload = NoUpload
SPECIFICATION Spec
CHECK_DEADLOCK FALSE
SYMMETRY Symmetry
INVARIANTS
  TypeOK
  DenseIds
  AckedIsKept
  AloneIsIntact
  BatchInBounds
