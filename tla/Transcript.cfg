\* One window of up to three regions of speech, words in up to two of them.
SPECIFICATION Spec
CONSTANTS
  Speakers = {A, B}
  NoSpeaker = NoSpeaker
  ChunkLength = 4
  Shift = 2
  MinTurn = 2
  Lengths = {1, 5, 7}
  Gaps = {0, 1}
  MaxRegions = 3
  Letters = {a, b}
  Blank = Blank
  Break = Break
  MaxOverlap = 2
  TokenLengths = {0, 3}
  Pauses = {0, 5}
  MaxLetters = 3
  MaxWorded = 6
INVARIANTS
  TurnsOrdered
  SpeechHasSpeaker
  NearestChunkSpeaks
  AbsorbedByNearest
  PiecesReproduce
\* The window ends.
CHECK_DEADLOCK FALSE
