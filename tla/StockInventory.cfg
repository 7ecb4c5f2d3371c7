SPECIFICATION Spec
CONSTANTS
  Workers = {w1}
  NumArticles = 2
  Locations = {l1}
  MaxAmount = 6
  Quantities = {1}
  Counts = {0, 1}
  Keys = {}
  Lines <- NoLines
  NumOrders = 0
  Needs <- NoNeeds
  NumSessions = 1
  ManualTypes = {"entry", "exit", "return"}
  MaxReceiptLines = 1
  MaxMovements = 3
  Retirable = {1}
  None = None
CHECK_DEADLOCK FALSE
INVARIANT AdjustmentMatchesCount
PROPERTY SerialLedgerPromise
