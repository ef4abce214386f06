CONSTANTS
  p = p
  q = q
  steady = steady
  shaky = shaky
  c1 = c1
  c2 = c2
  c3 = c3
  c4 = c4
  Procs <- TwoProcs
  Sids <- TwoSids
  Steady <- SteadySid
  Cancels = TRUE
  Clients <- Pool
SPECIFICATION Spec
SYMMETRY Callers
INVARIANTS
  TypeOK
  CallsAreTruthful
  LooksAtFreshEntries
  CallsKeepTheirEntry
  OpenClientsAreOwned
  ServedTogether
CHECK_DEADLOCK FALSE
