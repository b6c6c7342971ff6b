\* a hold set by a Case Action, lifted by an import
SPECIFICATION Spec
CONSTANTS
  Steps <- HoldSteps
  Kind <- HoldKind
  NextOf <- HoldNext
  YesOf <- HoldYes
  NoOf <- HoldNo
  Entry = "start"
  WaitFor <- NoWaitFor
  CaseEffect <- Freeze
  Rules = {}
  Inputs = {"import"}
  Redeliver = FALSE
  Races = FALSE
  MaxExecs = 1
  MaxCopies = 1
  MaxReviews = 1
  MaxInputs = 1
  MaxFaults = 0
INVARIANT
  NotStranded
\* a finished run takes no further step
CHECK_DEADLOCK FALSE
