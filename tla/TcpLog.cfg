SPECIFICATION FairSpec
CONSTANTS
  a = a
  b = b
  Callers = {a, b}
  MaxCalls <- FewCalls
  BufferSize = 1
  Width = 32
  PumpReport = PumpReport
  ConnReport = ConnReport
CHECK_DEADLOCK FALSE
INVARIANTS LinesAccounted
PROPERTIES SettlesAndEnds
