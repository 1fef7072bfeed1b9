SPECIFICATION Spec
CONSTANTS
  Users = {1, 2, 3}
  OrderIds = {1, 2, 3, 4}
  PlaceInputs <- McThinPlaces
  LiquidateInputs = {}
  MarkPrices = {10, 20}
  FundingRates = {}
  RateScale = 10
  BookPrices = {10, 20}
  MaxQuantity = 5
  MaxAttempts = 2
  MaxRestarts = 2
  Nothing = Nothing
PROPERTY
  BookBeforeAdl
