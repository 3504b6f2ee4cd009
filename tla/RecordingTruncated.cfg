SPECIFICATION Spec
CONSTANTS
  WindowSeconds = 2
  OverlapSeconds = 0
  Duration = 2
  UploadLength = 2
  MaxChunk = 1
  MaxQueue = 2
  DiskFaults = FALSE
  Jobs = {j1}
  Keys = {k1}
  Requests = {t1, t2}
  NoKey = NoKey
  NoJob = NoJob
  Poison = Poison
INVARIANTS
  SucceededHeardAll
