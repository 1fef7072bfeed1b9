SPECIFICATION McSpec
CONSTANTS
  Keys = {k1, k2}
  OnlyKey = k1
  NoKey = NoKey
  Kinds = {"order", "liquidation", "foreign", "malformed"}
  MaxLog = 3
  MaxFaults = 2
CHECK_DEADLOCK FALSE
INVARIANTS
  StateCoversLog
  CommittedWithinCheckpoint
  PublishedAtMostOnce
  RetainedSequencesIncrease
PROPERTY
  Progress
