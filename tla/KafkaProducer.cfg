SPECIFICATION Spec
CONSTANTS
  MaxResults = 2
  MaxRecords = 2
  MaxResends = 1
  MaxCrashes = 1
CHECK_DEADLOCK FALSE
INVARIANTS
  PublishedInOrder
PROPERTIES
  Publishes
  SettledWhenPublished
  PublishingEnds
