SPECIFICATION Spec
CONSTANTS
  a1 = a1
  a2 = a2
  Accounts = {a1, a2}
  Tokens <- MCTokens
  MaxTokens = 1
  MaxOrders = 4
  MaxDisturbances = 1
  MaxEvents = 4
  Prices <- MCPrices
  Sizes = {1, 2}
  TIFs = {"Gtc", "Ioc"}
  Amounts <- MCAmounts
  InitialUsdc = 2
  MaxSupply = 3
  GenesisAllocations <- MCThreeEach
  TickSize = 1
  LotSize = 2
  MaxOrderSize = 4
  LotScale = 2
  LotCut = 1
  PriceScale = 1
  UsdcScale = 2
  FeeScale = 4
  MakerRebateRate = 1
  TakerFeeRate = 2
SYMMETRY Symmetry
CHECK_DEADLOCK FALSE
INVARIANTS
  ViewsAddUp
  BookNotCrossed
  AsksReserved
  FillsInPriority
  NothingNegative
  ReservedWithinCore
  SellerDelivers
PROPERTIES
  BaseNotMinted
