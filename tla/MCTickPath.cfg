SPECIFICATION TicksSpec
CONSTANTS
  Feed <- MCFeed
  MaxTicks = 4
  BatchCapacity = 2
  PriceWindow = 3
  ReturnWindow = 2
  RsiPeriod = 3
  AtrPeriod = 2
INVARIANTS WindowsHoldLatest RequestsArePriced TicksAreAccounted
PROPERTIES SnapshotsCover
