CONSTANTS
  g1 = g1
  g2 = g2
  x = x
  y = y
  Absent = Absent
  Guids <- MCGuids
  Ids <- MCIds
  Pumps = TRUE
  MaxStep = 1
  MaxRevision = 1
  MaxClock = 3
  MaxLives = 3
  MaxNest = 1
SPECIFICATION LayoutSpec
SYMMETRY Symmetric
INVARIANT StaleAddedNothing
CHECK_DEADLOCK FALSE
