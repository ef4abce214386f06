CONSTANTS
  g1 = g1
  g2 = g2
  x = x
  y = y
  Guids <- MCGuids
  Ids <- MCIds
  Pumps = FALSE
  MaxStep = 1
  MaxRevision = 2
  MaxClock = 4
  MaxLives = 3
  MaxNest = 1
SPECIFICATION Spec
SYMMETRY Symmetric
INVARIANT FailureChangedNothing
CHECK_DEADLOCK FALSE
