CONSTANTS
  Inst = {a, b}
  None = None
  ManualStarts = FALSE
SPECIFICATION Spec
INVARIANT OneDeployed
CHECK_DEADLOCK FALSE
