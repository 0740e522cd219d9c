SPECIFICATION Spec
\* The daemons block on their devices once the environment is silent.
CHECK_DEADLOCK FALSE
CONSTANTS
  Started <- BothDaemons
  Modes <- NormalMode
  Requests <- StopReset
  RequestsWaitForBoot = FALSE
  Budget <- BudgetLoss
INVARIANTS
  StoppedIsStopped
  NoMutualWait
