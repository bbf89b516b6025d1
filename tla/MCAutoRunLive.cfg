CONSTANTS
  Inst = {a, b}
  None = None
  ManualStarts = TRUE
  Events = 6
SPECIFICATION LiveSpec
INVARIANTS
  OneFlow
  BackoffKeepsGuardOpen
  NothingArmedWhileOff
  QuietOnlyAfterLostWakeup
PROPERTIES
  FlowsEnd
  IdleWakesUp
CHECK_DEADLOCK FALSE
