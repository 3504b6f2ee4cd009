\* One request with up to two samples: one of 3.5, 5.5, 5.75 or 8.75 seconds,
\* or two of at most 12 together.
SPECIFICATION Spec
CONSTANTS
  MaxFiles = 2
  MaxTotal = 480
  Durations = {140, 220, 230, 350}
INVARIANTS
  NothingLeft
  EnrolledIsStable
  PreviewIsEnrolled
\* The request ends.
CHECK_DEADLOCK FALSE
