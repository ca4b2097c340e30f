CONSTANTS
  Machines = {m1}
  FileTypes = {jpeg}
  MaxSegments = 1
  MaxUploads = 10
  MayCrash = FALSE
  StorageFails = FALSE
  MaxCut = 0
  NoUpload = NoUpload
SPECIFICATION Spec
CHECK_DEADLOCK FALSE
INVARIANT ThumbnailIsOfItsId
