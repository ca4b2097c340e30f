CONSTANTS
  Machines = {m1, m2}
  FileTypes = {jpeg}
  MaxSegments = 2
  MaxUploads = 2
  MayCrash = FALSE
  StorageFails = FALSE
  MaxCut = 0
  NoUpload = NoUpload
SPECIFICATION Spec
CHECK_DEADLOCK FALSE
INVARIANT AckedIsIntact
