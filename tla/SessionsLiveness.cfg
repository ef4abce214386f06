CONSTANTS
  p = p
  q = q
  steady = steady
  shaky = shaky
  c1 = c1
  c2 = c2
  c3 = c3
  c4 = c4
  Procs <- TwoProcs
  Sids <- ShakySid
  Steady <- NoSid
  Cancels = TRUE
  Clients <- Pool
SPECIFICATION FairSpec
PROPERTY
  CallsReturn
CHECK_DEADLOCK FALSE
