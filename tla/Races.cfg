\* Two requests at once on one job of two overlapping windows, with crashes
\* everywhere and audio damaged while the server is down.
SPECIFICATION Spec
CONSTANTS
  WindowSeconds = 3
  OverlapSeconds = 1
  Duration = 4
  UploadLength = 3
  MaxChunk = 1
  MaxQueue = 1
  DiskFaults = TRUE
  Jobs = {j1}
  Keys = {k1}
  Requests = {t1, t2}
  NoKey = NoKey
  NoJob = NoJob
  Poison = Poison
SYMMETRY RequestSymmetry
VIEW Unheard
INVARIANTS
  TypeOK
  AudioHasOwner
  CommittedIsOnDisk
  QueuedIsScheduled
  RunnableIsProbed
  SucceededIsComplete
  NoWindowRedone
PROPERTIES
  CheckpointsSurvive
  RestartAgreesWithDisk
