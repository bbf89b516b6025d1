CONSTANTS
  Checks = {k1, k2}
  Leftover = Leftover
  NoDaemon = NoDaemon
  MaxPort = 2
  Signals = TRUE
SPECIFICATION Spec
INVARIANTS
  QuitLeavesNoDaemon
PROPERTIES
  QuittingStartsNothing
  QuitEnds
  BootEnds
CHECK_DEADLOCK FALSE
