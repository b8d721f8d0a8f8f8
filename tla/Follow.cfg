SPECIFICATION FairFollowSpec
CONSTANTS
  MaxAppended = 3
  MaxAtPath = 3
  Parts = 2
CHECK_DEADLOCK FALSE
INVARIANTS Following
PROPERTIES SendsAndEnds
