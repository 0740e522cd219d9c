SPECIFICATION FairSpec
\* The service waits for ever once the stack is silent.
CHECK_DEADLOCK FALSE
CONSTANTS
  MaxInit = 1
  MaxSends = 0
  NCmds = 1
  NCfg = 1
  OpenMayFail = TRUE
PROPERTIES
  Answered
