\* The same window: a letter is said by one speaker and again by the next.
SPECIFICATION Spec
CONSTANTS
  Speakers = {A, B}
  NoSpeaker = NoSpeaker
  ChunkLength = 4
  Shift = 2
  MinTurn = 2
  Lengths = {1, 5, 7}
  Gaps = {0, 1}
  MaxRegions = 3
  Letters = {a, b}
  Blank = Blank
  Break = Break
  MaxOverlap = 2
  TokenLengths = {3}
  Pauses = {0, 5}
  MaxLetters = 3
  MaxWorded = 8
PROPERTY NothingDiscarded
\* The window ends.
CHECK_DEADLOCK FALSE
