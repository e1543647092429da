SPECIFICATION Spec
CONSTANTS
  Items = {1, 2}
  Compacts = {}
  Outlives = FALSE
  MaxOthers = 2
  MaxLosses = 1
  MaxRemounts = 0
CHECK_DEADLOCK FALSE
INVARIANT NothingDropped
