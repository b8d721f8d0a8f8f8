SPECIFICATION FairSpec
CONSTANTS
  MaxMsgs = 5
  MaxStops = 2
  Backlog = 2
  MaxBuffer = 2
  MaxTries = 2
CHECK_DEADLOCK FALSE
INVARIANTS Orderly
PROPERTIES ClosesAndRecovers
