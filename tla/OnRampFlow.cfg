CONSTANTS
  Quotes = {q1}
  None = None
  MaxOutages = 1
  MaxOrders = 2
SPECIFICATION OnRampSpec
INVARIANT SetupMeansSwapped
PROPERTIES
  ReceiptIsBacked
  WatchedPurchaseIsNoticed
CHECK_DEADLOCK FALSE
