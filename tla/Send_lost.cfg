SPECIFICATION Spec
CONSTANTS
  Callers = {c1}
  Window = 2
  MaxMsgs = 3
  WriteErrors = TRUE
  Confused = FALSE
CHECK_DEADLOCK FALSE
INVARIANT NoSilentLoss
