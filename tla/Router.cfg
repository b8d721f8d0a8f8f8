SPECIFICATION FairSpec
CONSTANTS
  Routes <- MCRoutes
  Enabled <- MCEnabled
  Input <- MCInput
  Filter <- MCFilter
  Output <- MCOutput
  Generators <- MCGenerators
  Filterers <- MCFilterers
  Receivers <- MCReceivers
  Drops <- MCDrops
  Fails <- MCFails
  InPlace <- MCInPlace
  MaxMsgs = 2
CHECK_DEADLOCK FALSE
INVARIANTS Distribution
PROPERTIES DeliversAndStops
