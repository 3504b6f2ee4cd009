\* One request at a time, two jobs that share the key, the queue and the
\* worker: what a client that waits for its answers may rely on.
SPECIFICATION FairSpec
CONSTANTS
  WindowSeconds = 3
  OverlapSeconds = 1
  Duration = 4
  UploadLength = 3
  MaxChunk = 2
  MaxQueue = 1
  DiskFaults = FALSE
  Jobs = {j1, j2}
  Keys = {k1}
  Requests = {t1}
  NoKey = NoKey
  NoJob = NoJob
  Poison = Poison
INVARIANTS
  SucceededHeardAll
PROPERTIES
  ImplementsLifecycle
  OffsetAdvances
  QueuedIsRun
  CancelledStops
  StopEnds
