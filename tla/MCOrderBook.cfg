SPECIFICATION Spec
CONSTANTS
  o1 = o1
  o2 = o2
  Orders <- MCOrders
  MaxQty = 2
  Prices <- MCPrices
  InitialPositions <- MCPositions
  Scale = 60
  MaxStarts = 2
SYMMETRY MCSymmetry
INVARIANTS FillsAreCounted PositionFollowsBuys ListedAreOpen
PROPERTIES FillsAreNeutral
CHECK_DEADLOCK FALSE
