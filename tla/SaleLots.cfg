SPECIFICATION Spec
CONSTANTS
  Slow = {r1}
  Vehicles = {x1, x2}
  Default <- MCDefault
  Lots = {l1, l2}
  MaxVersion = 2
  HandStatuses = {"for_sale", "reserved"}
  MaxCommits = 6
  None = None
CHECK_DEADLOCK FALSE
SYMMETRY Alike
INVARIANT HeldIsListed
PROPERTY NoLotTakesAnothers
