CONSTANTS
  g1 = g1
  g2 = g2
  s = s
  c = c
  d = d
  Guids <- MCGuids
  Sections <- MCSections
  Scenes <- MCScenes
  MaxStep = 2
  MaxRevision = 4
  MaxDrawn = 2
SPECIFICATION Spec
SYMMETRY Symmetric
INVARIANTS
  PassedUndisturbed
  CopyIsPrepared
  RepeatCreatesNothing
PROPERTY CreatesOnlyWhatIsMissing
CHECK_DEADLOCK FALSE
