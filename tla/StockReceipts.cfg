SPECIFICATION Spec
CONSTANTS
  Workers = {w1}
  NumArticles = 2
  Locations = {l1}
  MaxAmount = 6
  Quantities = {1, 2}
  Counts = {0}
  Keys = {k1}
  Lines <- TwoLines
  NumOrders = 1
  Needs <- TwoNeeds
  NumSessions = 0
  ManualTypes = {}
  MaxReceiptLines = 2
  MaxMovements = 4
  Retirable = {}
  None = None
CHECK_DEADLOCK FALSE
INVARIANT TypeOK ReceivedMatchesEntries OrdersTellReceipts
PROPERTY NoOverdraw SerialLedgerPromise
