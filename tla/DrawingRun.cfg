CONSTANTS
  r1 = r1
  r2 = r2
  r3 = r3
  None = None
  Runs <- MCRuns
  Fixtures <- MCFixtures
  Template <- MCTemplate
SPECIFICATION Spec
SYMMETRY Symmetric
INVARIANTS
  DimensionsFindViewports
PROPERTIES
  PassesOnItsOwn
  PassesSound
CHECK_DEADLOCK FALSE
