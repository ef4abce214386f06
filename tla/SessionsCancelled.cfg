CONSTANTS
  p = p
  q = q
  steady = steady
  shaky = shaky
  c1 = c1
  c2 = c2
  c3 = c3
  c4 = c4
  Procs <- TwoProcs
  Sids <- TwoSids
  Steady <- SteadySid
  Cancels = TRUE
  Clients <- Pool
SPECIFICATION Spec
SYMMETRY Callers
INVARIANT
  ServedAlone
CHECK_DEADLOCK FALSE
