SPECIFICATION Spec
\* The service waits for ever once the stack is silent.
CHECK_DEADLOCK FALSE
CONSTANTS
  MaxInit = 2
  MaxSends = 1
  NCmds = 1
  NCfg = 1
  OpenMayFail = TRUE
INVARIANTS
  TypeOK
  ReadyHasInterface
  RepliesReachWorker
PROPERTIES
  ImplementsSession
