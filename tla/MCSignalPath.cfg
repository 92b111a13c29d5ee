SPECIFICATION FairSpec
CONSTANTS
  Readings <- MCReadings
  RsiWeight = 40
  MacdWeight = 40
  VolumeWeight = 20
  VolumeClamp = 30
  AtrThreshold = 200
  AtrPenalty <- MCPenalty
  Overbought = 70
  Oversold = 30
  Neutral = 50
  Long = 50
  Short <- MCShort
  Deadband = 15
  Minima <- MCMinima
  MaxLong = 100
  MaxShort = 100
  EntryCooldown = 2
  ExitCooldown = 1
  Staleness = 1
  Rate = 1
  Second = 3
  Cost = 2
  MaxBack = 1
INVARIANTS UnsureNeverEnters OrderRateHolds
PROPERTIES EntriesAreSpaced StanceIsLeft
