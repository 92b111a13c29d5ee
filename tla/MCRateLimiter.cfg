SPECIFICATION LimiterSpec
CONSTANTS
  s1 = s1
  s2 = s2
  Symbols <- MCSymbols
  Rates <- MCRates
  Second = 2
  Cost = 3
  Width = 8
  MaxSetback = 1
PROPERTIES ImplementsQuota
