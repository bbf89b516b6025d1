CONSTANTS
  Inst = {a}
  None = None
  MaxAttempts = 3
  MaxStops = 3
  MaxChecks = 2
SPECIFICATION Spec
INVARIANTS RetriesStop
PROPERTIES SwitchUnlocks GuardSeesItThrough
CHECK_DEADLOCK FALSE
