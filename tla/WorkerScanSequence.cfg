SPECIFICATION RetainedSpec
CONSTANTS
  Keys = {k1}
  NoKey = NoKey
  Kinds = {"order", "liquidation"}
  MaxLog = 2
  MaxFaults = 1
CHECK_DEADLOCK FALSE
INVARIANTS
  SequencesIncrease
