\* a run ends, whatever comes
SPECIFICATION FairSpec
CONSTANTS
  Steps <- ChaseSteps
  Kind <- ChaseKind
  NextOf <- ChaseNext
  YesOf <- ChaseYes
  NoOf <- ChaseNo
  Entry = "remind"
  WaitFor <- ChaseWaitFor
  CaseEffect <- NoEffect
  Rules = {"Require Human Review"}
  Inputs = {"payment", "communication"}
  Redeliver = FALSE
  Races = FALSE
  MaxExecs = 1
  MaxCopies = 2
  MaxReviews = 2
  MaxInputs = 2
  MaxFaults = 1
PROPERTY
  EventuallyEnds
\* a finished run takes no further step
CHECK_DEADLOCK FALSE
