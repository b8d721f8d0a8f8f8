SPECIFICATION Spec
CONSTANTS
  Callers = {c1, c2}
  Window = 2
  MaxMsgs = 5
  WriteErrors = TRUE
  Confused = TRUE
CHECK_DEADLOCK FALSE
SYMMETRY Symmetry
INVARIANTS SlotsConserved AckedDelivered NotifiedOnce
