SPECIFICATION Spec
CONSTANTS
  GAMING = 1
  APP_TOUCH = 2
  WHITELIST_LAUNCH = 3
  Hint <- Hints
  Hold = {1}
  Ext <- Follows
  HintScreenOff <- HintsScreenOff
  CusHint = {c1}
  Pid = {p1, p2}
  REG_SCN_MAX = 2
  MAX_TIMER_COUNT = 9
  HANDLE_RAND_MAX = 4
  MaxRequests = 4
SYMMETRY Processes
INVARIANTS
  TypeOK
  TimersMatchLocks
  StaleHandlesHarmless
  TimedHintEnds
  AlwaysHintStays
