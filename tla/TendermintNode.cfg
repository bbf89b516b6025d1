SPECIFICATION SupervisorSpec
CONSTANTS
  Nodes = {n1, n2, n3, n4}
  Monitors = {m1, m2}
  Agent = Agent
  Pearl = Pearl
  None = None
INVARIANTS
  NoNodeIsLost
  PruneOnlyStopped
PROPERTY RequestsEnd
CHECK_DEADLOCK FALSE
