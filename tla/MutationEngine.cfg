CONSTANTS
  g1 = g1
  g2 = g2
  x = x
  y = y
  Guids <- MCGuids
  Ids <- MCIds
  Pumps = FALSE
  MaxStep = 2
  MaxRevision = 3
  MaxClock = 3
  MaxLives = 3
  MaxNest = 1
SPECIFICATION Spec
SYMMETRY Symmetric
INVARIANTS
  EngineTypeOK
  AtMostOnce
  OneWriterPerRevision
  NoLostUpdate
  SuccessWasApplied
  SnapshotsNameContents
PROPERTIES
  ResultsStick
  KeepsPromise
CHECK_DEADLOCK FALSE
