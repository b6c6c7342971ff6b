SPECIFICATION Spec
CONSTANTS
  j1 = j1
  j2 = j2
  w1 = w1
  w2 = w2
  r1 = r1
  Jobs = {j1}
  Workers = {w1, w2}
  Runs = {r1}
  RunOf <- MCRunOf
  Prio <- MCPrio
  MaxAttempts = 2
  StaleTicks = 1
  BackoffTicks = 1
  MaxDelay = 1
  Batch = 1
  Concurrency = 1
  Overrun = TRUE
  MaxClaims = 3
  MaxFaults = 2
SYMMETRY MCSymmetry
INVARIANTS
  TypeOK
  LeaseExclusive
  AttemptBudget
  EffectOnceWithoutFault
PROPERTY NoRevival
