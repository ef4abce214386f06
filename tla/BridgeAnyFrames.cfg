CONSTANTS
  c1 = c1
  c2 = c2
  r1 = r1
  r2 = r2
  r3 = r3
  Conns <- OneConn
  ReqIds <- ThreeIds
  Kinds <- AllKinds
  Timeouts = {"idle"}
  MaxClients = 1
  MaxOutstanding = 2
  QueueCapacity = 1
  MaxPendingWrites = 2
  MaxAccepts = 1
  MaxReads = 1
  MaxFrames = 2
  MaxWrites = 1
  MaxPerTick = 1
  SocketCapacity = 1
  MaxSent <- Five
SPECIFICATION Spec
SYMMETRY Symmetric
INVARIANTS
  TypeOK
  EveryRequestAnsweredOnce
  SlotsAreInFlight
  WithinLimits
CHECK_DEADLOCK FALSE
