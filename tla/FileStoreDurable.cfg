SPECIFICATION Spec
CONSTANTS
  Ids = {1, 2, 3}
  Nothing = Nothing
  MaxOffset = 2
  RuntimeStates <- McStates
  LegacyFiles <- McLegacy
  MaxFaults = 3
  MaxPowerLosses = 1
INVARIANT
  CheckpointBeforeCommit
CHECK_DEADLOCK FALSE
