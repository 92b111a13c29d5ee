SPECIFICATION JournalSpec
CONSTANTS
  api = api
  main = main
  Flushers = {main, api}
  Capacity = 2
  Clock = {1, 2, 3}
  FirstSecond = 2
  MaxEntries = 3
  MaxRestarts = 1
INVARIANTS NothingSkipped FlushIsDurable
SYMMETRY Symmetry
