SPECIFICATION Spec
CONSTANTS
  MaxIntents = 2
  MaxTrace = 1
  MaxTries = 1
  MaxCrashes = 1
  MaxJournal = 4
INVARIANTS RecordsHold
PROPERTIES PlacedIsFinal
CHECK_DEADLOCK FALSE
