\* Two threads, two models, one inference at a time, with fairness.
SPECIFICATION FairSpec
CONSTANTS
  Threads = {t1, t2}
  Models = {sensevoice, paraformer}
  Tracing = {sensevoice}
  PreloadModel = sensevoice
  MaxConcurrent = 1
  MaxCalls = 3
  NoThread = NoThread
INVARIANTS
  LoadedOnce
  TraceIsOwn
  VoicesBounded
PROPERTY Answered
