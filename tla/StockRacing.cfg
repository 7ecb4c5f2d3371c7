SPECIFICATION Spec
CONSTANTS
  Workers = {w1, w2}
  NumArticles = 1
  Locations = {l1, l2}
  MaxAmount = 6
  Quantities = {1}
  Counts = {0}
  Keys = {k1}
  Lines <- OneLine
  NumOrders = 1
  Needs <- OneNeed
  NumSessions = 0
  ManualTypes = {"transfer"}
  MaxReceiptLines = 1
  MaxMovements = 3
  Retirable = {1}
  None = None
CHECK_DEADLOCK FALSE
INVARIANT ReversedAtMostOnce NeedDeliveredOnce BalanceIgnoresReversed
PROPERTY LedgerPromise
