CONSTANTS
  Quotes = {q1, q2}
  None = None
  MaxOutages = 1
SPECIFICATION Spec
INVARIANT CompletedMeansDelivered
PROPERTIES
  SafeAfterBridge
  BackToDepositAfterFailure
  DeliveryIsNoticed
CHECK_DEADLOCK FALSE
