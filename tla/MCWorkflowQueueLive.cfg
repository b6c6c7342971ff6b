SPECIFICATION FairSpec
CONSTANTS
  j1 = j1
  j2 = j2
  w1 = w1
  w2 = w2
  r1 = r1
  Jobs = {j1, j2}
  Workers = {w1}
  Runs = {r1}
  RunOf <- MCRunOf
  Prio <- MCPrio
  MaxAttempts = 2
  StaleTicks = 1
  BackoffTicks = 1
  MaxDelay = 1
  Batch = 2
  Concurrency = 1
  Overrun = FALSE
  MaxClaims = 3
  MaxFaults = 1
PROPERTY EventuallyFinished
