SPECIFICATION FairSpec
CONSTANTS
  MaxMsgs = 3
  MaxConns = 3
  Buffer = 2
  Window = 2
CHECK_DEADLOCK FALSE
INVARIANTS Bookkeeping NothingLost
PROPERTIES ImplementsAtLeastOnce AcksAndCloses
