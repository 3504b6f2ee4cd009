\* Interrupted and repeated installations, one installer at a time, starting
\* from any mixture of absent, good and damaged components.
SPECIFICATION FairSpec
CONSTANTS
  asr = asr
  vad = vad
  speech = speech
  voice = voice
  Installers = {cli}
  Models = {speech, voice}
  Components = {asr, vad}
  ModelComponents <- MCModelComponents
  Pinned = {asr}
  Files = {config, weights}
  Required = {config}
  Marker = Marker
  Released = Released
  Drifted = Drifted
  Decayed = Decayed
  NoTree = NoTree
  OtherDigest = OtherDigest
  Exclusive = TRUE
  MaxMishaps = 2
INVARIANT ServedIsVerified
PROPERTIES
  ExposedIsVerified
  InstallsAtomically
  AnInstallationSucceeds
