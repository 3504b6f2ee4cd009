\* Windows with every kind of overlap, recordings that end in, at and after a
\* window, and two changes of settings while a job is under way.
SPECIFICATION Spec
CONSTANTS
  Dirs = {home, away}
  Relative = Relative
  DefaultWindow = 3
  DefaultOverlap = 1
  Durations = {3, 5, 6, 8}
  Windows = {2, 4}
  Overlaps = {0, 1, 3}
  Unset = Unset
  Down = Down
  MaxEdits = 2
SYMMETRY DirSymmetry
INVARIANTS
  TranscriptIsWhole
  PlanIsFeasible
  WorkingDirectoryIsIgnored
\* A recording of which the transcript is ready is not processed again.
CHECK_DEADLOCK FALSE
