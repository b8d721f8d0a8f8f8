SPECIFICATION FairSpec
CONSTANTS
  Files = {f1}
  MaxLines <- TwoLines
  MaxRuns = 3
  Rotated = {f1}
  MaxFiles = 3
CHECK_DEADLOCK FALSE
INVARIANTS OffsetsRight
PROPERTIES ShutdownEnds
