SPECIFICATION Spec
CONSTANTS
  Orders = {1, 2, 3}
  Prices <- McPrices
  TickSize = 2
  BaseTick = 2
  Capacity = 3
  HeadIndex = 0
  WordBits = 2
  MaxQuantity = 2
  NoLevel = NoLevel
  NoPrice = NoPrice
INVARIANTS
  LevelsMatchOrders
  CachedBestIsBest
PROPERTIES
  ImplementsPriceLevels
