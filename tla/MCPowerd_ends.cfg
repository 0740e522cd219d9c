SPECIFICATION FairSpec
CONSTANTS
  GAMING = 1
  APP_TOUCH = 2
  WHITELIST_LAUNCH = 3
  Hint <- NoHints
  Hold <- NoHints
  Ext <- NoFollows
  HintScreenOff <- NoFollows
  CusHint = {c1}
  Pid = {p1}
  REG_SCN_MAX = 2
  MAX_TIMER_COUNT = 5
  HANDLE_RAND_MAX = 9
  MaxRequests = 4
PROPERTIES
  DeadLocksReleased
  TimedLocksEnd
