SPECIFICATION Spec
CONSTANTS
  Workers = {w1, w2}
  NumArticles = 1
  Locations = {l1}
  MaxAmount = 6
  Quantities = {1}
  Counts = {1}
  Keys = {}
  Lines <- NoLines
  NumOrders = 0
  Needs <- NoNeeds
  NumSessions = 1
  ManualTypes = {}
  MaxReceiptLines = 1
  MaxMovements = 2
  Retirable = {}
  None = None
CHECK_DEADLOCK FALSE
INVARIANT InventoryAdjustedOnce
