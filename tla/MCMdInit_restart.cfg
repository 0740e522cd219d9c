SPECIFICATION Spec
\* The daemons block on their devices once the environment is silent.
CHECK_DEADLOCK FALSE
CONSTANTS
  Started <- BothDaemons
  Modes <- NormalMode
  Requests <- AllRequests
  RequestsWaitForBoot = TRUE
  Budget <- BudgetFaults
INVARIANTS
  TypeOK
  HandshakeInv
  ReadyIsReal
  QuietRestart
  ServedWhenReady
PROPERTIES
  ImplementsBarrier
