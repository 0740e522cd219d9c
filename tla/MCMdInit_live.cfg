SPECIFICATION FairSpec
\* The daemons block on their devices once the environment is silent.
CHECK_DEADLOCK FALSE
CONSTANTS
  Started <- BothDaemons
  Modes <- AllModes
  Requests <- AllRequests
  RequestsWaitForBoot = TRUE
  Budget <- BudgetLive
PROPERTIES
  PccifResetQuiet
  ComesBack
