SPECIFICATION FairSpec
CONSTANTS
  c1 = c1
  c2 = c2
  Callers <- MCCallers
  Thresholds <- MCThresholds
  Cooldowns <- MCCooldowns
  MaxFailures = 4
  MaxElapsed = 2
  MaxBackstep = 1
INVARIANTS OpenAdmitsNobody
PROPERTIES OpenClosesOnlyLate Recovers
