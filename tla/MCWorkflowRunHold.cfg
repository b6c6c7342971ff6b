\* every governance rule, a job delivered again, a payment or an import inside an execution
SPECIFICATION Spec
CONSTANTS
  Steps <- HoldSteps
  Kind <- HoldKind
  NextOf <- HoldNext
  YesOf <- HoldYes
  NoOf <- HoldNo
  Entry = "start"
  WaitFor <- HoldWaitFor
  CaseEffect <- Freeze
  Rules = {"Prevent Communication", "Hold Action", "Require Human Review", "Request Reassessment", "Change Workflow"}
  Inputs = {"payment", "import"}
  Redeliver = TRUE
  Races = TRUE
  MaxExecs = 1
  MaxCopies = 1
  MaxReviews = 1
  MaxInputs = 1
  MaxFaults = 0
INVARIANT
  TypeOK
PROPERTY
  ReviewGate
\* a finished run takes no further step
CHECK_DEADLOCK FALSE
