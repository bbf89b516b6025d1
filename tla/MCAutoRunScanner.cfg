CONSTANTS
  a = a
  b = b
  c = c
  None = None
  Events = 4
  Queue <- ThreeQueued
SPECIFICATION LiveSpec
INVARIANTS
  VisitsInOrder
PROPERTIES
  KeepsContract
  FlowsEnd
CHECK_DEADLOCK FALSE
