\* outside events between the transactions of one run
SPECIFICATION Spec
CONSTANTS
  Steps <- ChaseSteps
  Kind <- ChaseKind
  NextOf <- ChaseNext
  YesOf <- ChaseYes
  NoOf <- ChaseNo
  Entry = "remind"
  WaitFor <- ChaseWaitFor
  CaseEffect <- NoEffect
  Rules = {"Require Human Review"}
  Inputs = {"payment", "communication", "review", "deactivate", "supersede"}
  Redeliver = FALSE
  Races = FALSE
  MaxExecs = 1
  MaxCopies = 2
  MaxReviews = 2
  MaxInputs = 3
  MaxFaults = 1
INVARIANT
  NotStranded
\* a finished run takes no further step
CHECK_DEADLOCK FALSE
