CONSTANTS
  N = 3
  MaxLaunches = 2
  MaxLag = 2
SPECIFICATION Spec
INVARIANTS
  CompletedMeansSwapped
  LoginBlockedOnceKnown
PROPERTIES
  WelcomeSettles
  ButtonUnlocks
CHECK_DEADLOCK FALSE
