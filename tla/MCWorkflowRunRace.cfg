\* events inside an execution, redelivered jobs
SPECIFICATION Spec
CONSTANTS
  Steps <- ChaseSteps
  Kind <- ChaseKind
  NextOf <- ChaseNext
  YesOf <- ChaseYes
  NoOf <- ChaseNo
  Entry = "remind"
  WaitFor <- ChaseWaitFor
  CaseEffect <- NoEffect
  Rules = {}
  Inputs = {"payment", "import", "review", "deactivate"}
  Redeliver = TRUE
  Races = TRUE
  MaxExecs = 1
  MaxCopies = 1
  MaxReviews = 1
  MaxInputs = 2
  MaxFaults = 1
INVARIANT
  SendOnce
PROPERTIES
  WaitHonored
  TerminalIsFinal
\* a finished run takes no further step
CHECK_DEADLOCK FALSE
