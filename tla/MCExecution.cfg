SPECIFICATION FairSpec
CONSTANTS
  i1 = i1
  exec = exec
  Exec = exec
  nobody = nobody
  Nobody = nobody
  Intents <- MCIntents
  QueueCap = 1
  MaxDecisions = 2
  MaxRetries = 2
  Burst = 1
  LifecycleCap = 1
  Thresholds <- MCThresholds
  Cooldowns <- MCCooldowns
  MaxFailures = 2
  MaxElapsed = 1
  MaxBackstep = 0
INVARIANTS AcknowledgedAreTracked LateCallsBounded OpenBreakerHoldsBack
PROPERTIES ImplementsSubmission ThreadIsNotHeld
