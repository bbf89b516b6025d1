CONSTANTS
  Inst = {a, b}
  None = None
  MaxFlows = 3
  MaxClicks = 5
SPECIFICATION Spec
INVARIANTS
  OverridesHaveOwners
  FreshStartShowsBusy
PROPERTY PageSettles
CHECK_DEADLOCK FALSE
