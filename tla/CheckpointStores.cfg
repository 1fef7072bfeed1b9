SPECIFICATION StoreSpec
CONSTANTS
  Ids = {1, 2, 3}
  Nothing = Nothing
  MaxOffset = 2
  RuntimeStates <- McStates
  LegacyFiles <- McLegacy
  MaxFaults = 3
  MaxPowerLosses = 1
  S3MaxOffset = 4
  S3PageSize = 2
  S3RuntimeStates <- McS3States
CHECK_DEADLOCK FALSE
INVARIANTS
  FileStoreReadsBack
PROPERTIES
  NewestSaveIsFound
