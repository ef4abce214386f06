CONSTANTS
  g1 = g1
  g2 = g2
  x = x
  y = y
  Absent = Absent
  Guids <- MCGuids
  Ids <- MCIds
  Pumps = TRUE
  MaxStep = 1
  MaxRevision = 1
  MaxClock = 3
  MaxLives = 2
  MaxNest = 2
SPECIFICATION LayoutSpec
SYMMETRY Symmetric
INVARIANTS
  LayoutTypeOK
  AcknowledgedStay
  EntitiesAreUnique
  FilesHoldTheirRevision
  EngineInv
PROPERTY SheetsAreComplete
CHECK_DEADLOCK FALSE
