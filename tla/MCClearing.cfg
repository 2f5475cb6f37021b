SPECIFICATION FairClearingSpec
CONSTANTS
  Accounts = {1, 2, 3}
  Markets = {1, 2}
  Requests <- MCRequests
  Leverages = {2}
  InitialCore <- MCCore
  InitialMark = 100
  DefaultLeverage = 20
  MaintenanceRate = 5
  FeeRate = 1
  SpreadRate = 3
  MaxFundingRate = 100
  PartialDen = 4
  MaxTrades = 2
  MaxResting = 1
  MaxFundings = 1
  MaxChanges = 1
INVARIANT FundingIndexCurrent
PROPERTIES
  ClearingShrinks
  ClearingConverges
