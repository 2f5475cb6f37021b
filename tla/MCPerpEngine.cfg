SPECIFICATION Spec
CONSTANTS
  Accounts = {a, b}
  Requests <- MCRequests
  MaxOrders = 6
  MaxLiquidations = 1
  InitialMark = 10
  TickSize = 10
  LotSize = 1
  MaxOrderSize = 2
  PartialNum = 1
  PartialDen = 2
  Refused = Refused
SYMMETRY Symmetry
INVARIANTS
  PositionConsistency
  BookIsListed
  NoOverfill
  TriggersSwept
PROPERTY
  CascadeEnds
