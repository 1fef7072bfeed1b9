SPECIFICATION McSpec
CONSTANTS
  name1 = name1
  name2 = name2
  MarketIds = {0, 1, 2, 3, 4}
  Names = {name1, name2}
  Partitions <- McPartitions
  MaxSymbolId = 3
  PollLimits = {1, 2}
  MaxArguments = 2
  MaxLines = 11
  None = None
  TradeIds = 12
  Namespace = 4
  Base = 2
  Width = 2
CHECK_DEADLOCK FALSE
INVARIANTS
  WorkersApart
  SuccessIsComplete
PROPERTIES
  MarketsAsWritten
  FailureEndsApp
