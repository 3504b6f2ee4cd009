SPECIFICATION FairSpec
CONSTANTS
  WindowSeconds = 2
  OverlapSeconds = 0
  Duration = 2
  UploadLength = 2
  MaxChunk = 2
  MaxQueue = 2
  DiskFaults = FALSE
  Jobs = {j1}
  Keys = {k1}
  Requests = {t1}
  NoKey = NoKey
  NoJob = NoJob
  Poison = Poison
PROPERTIES
  ExpiredIsRemoved
