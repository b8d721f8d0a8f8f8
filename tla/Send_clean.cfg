SPECIFICATION FairSpec
CONSTANTS
  Callers = {c1}
  Window = 3
  MaxMsgs = 6
  WriteErrors = FALSE
  Confused = FALSE
CHECK_DEADLOCK FALSE
INVARIANTS WindowRespected
PROPERTIES KeepsPromise BlockedSendReturns EverySendResolved
