SPECIFICATION FairRolloutSpec
CONSTANTS
  s1 = s1
  s2 = s2
  c1 = c1
  Symbols <- MCSymbols
  Assets <- MCAssets
  Versions <- MCVersions
  Invalid <- MCInvalid
  Shipped = 1
  Clients <- MCClients
  PerWindow = 1
  Capacity = 1
  MaxEdits = 2
  MaxRequests = 2
INVARIANTS BreakersFollowConfig
PROPERTIES ReloadKeepsConfig ReloadsAreApplied
CHECK_DEADLOCK FALSE
