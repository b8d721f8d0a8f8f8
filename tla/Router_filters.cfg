SPECIFICATION Spec
CONSTANTS
  Routes <- OneRoute
  Enabled <- OneRoute
  Input <- OneInput
  Filter <- OneFilter
  Output <- OneOutput
  Generators <- MCGenerators
  Filterers <- MCFilterers
  Receivers <- MCReceivers
  Drops <- MCDrops
  Fails <- MCFails
  InPlace <- MCInPlace
  MaxMsgs = 2
CHECK_DEADLOCK FALSE
INVARIANTS FiltersApply
