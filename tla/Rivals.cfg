\* Two processes install the same component at once, or one after the other.
SPECIFICATION FairSpec
CONSTANTS
  asr = asr
  vad = vad
  speech = speech
  voice = voice
  Installers = {cli, manager}
  Models = {voice}
  Components = {vad}
  ModelComponents <- MCModelComponents
  Pinned = {vad}
  Files = {config, weights}
  Required = {config}
  Marker = Marker
  Released = Released
  Drifted = Drifted
  Decayed = Decayed
  NoTree = NoTree
  OtherDigest = OtherDigest
  Exclusive = FALSE
  MaxMishaps = 0
PROPERTY AnInstallationSucceeds
