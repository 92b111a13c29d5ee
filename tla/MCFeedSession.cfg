SPECIFICATION FairSpec
CONSTANTS
  s1 = s1
  s2 = s2
  Symbols <- MCSymbols
  StartSymbols <- MCStart
  MaxAttempts = 3
  SubCapacity = 1
  TickCapacity = 2
  MaxReplay = 2
  MaxBytes = 3
  MaxTicks = 3
  MaxCommands = 3
INVARIANTS CommandsReachFeed PeerKnowsActive ReplayIsAccounted
PROPERTIES ThreadsAreReleased ReconnectsRunOut
CHECK_DEADLOCK FALSE
