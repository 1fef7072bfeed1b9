SPECIFICATION McSpec
CONSTANTS
  Users = {1, 2, 3}
  OrderIds = {1, 2, 3, 4}
  PlaceInputs <- McPlaces
  LiquidateInputs <- McLiquidations
  MarkPrices = {10, 20}
  FundingRates <- McRates
  RateScale = 10
  BookPrices = {10, 20}
  MaxQuantity = 5
  MaxAttempts = 2
  MaxRestarts = 1
  Nothing = Nothing
  RefusedId = 4
INVARIANTS
  PositionsBalance
  MetadataMatchesBook
  ReservationsAddUp
  RiskIsCurrent
  ReduceOnlyHolds
  WalletFollowsReservations
  MoneyIsConserved
  OpenOrdersFollow
  LiquidatablesWereTried
PROPERTIES
  BookBeforeAdl
  InputsFinish
  FundingBalances
