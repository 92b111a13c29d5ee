SPECIFICATION FairSpec
CONSTANTS
  w1 = w1
  w2 = w2
  Workers <- MCWorkers
  QueueCap = 1
  MaxLost = 1
INVARIANTS NoCommandAfterFlush LoopIsStopped
PROPERTIES KillIsCarriedOut SilenceIsNoticed
