SPECIFICATION McSpec
CONSTANTS
  OrderIds = {1, 2, 3, 4}
  ClientIds = {1, 2, 3, 4}
  Users = {1, 2}
  CommandIds = {1, 2, 3, 4, 5, 11, 12, 13, 14}
  SymbolIds = {"btc", "other"}
  Listed = "btc"
  MaxPrice <- McMaxPrice
  MaxQuantity <- McMaxQuantity
  PlaceCommands <- McAllPlaces
  CancelCommands <- McAllCancels
  MaxSequence = 4
  NoOrder = NoOrder
CHECK_DEADLOCK FALSE
PROPERTIES
  PriceTimePriority
