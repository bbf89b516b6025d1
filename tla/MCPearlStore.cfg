CONSTANTS
  autoRun = autoRun
  trader = trader
  Keys <- MCKeys
  AutoRun = autoRun
  Legacy <- BothSet
  CorruptAnswers = TRUE
  MaxWrites = 2
  MaxLaunches = 2
SPECIFICATION Spec
INVARIANTS
  NothingLeftBehind
  WritesAreSeen
PROPERTY HydrationEnds
