CONSTANTS
  c1 = c1
  c2 = c2
  r3 = r3
  r1 = r1
  r2 = r2
  Conns <- TwoConns
  ReqIds <- OneId
  Kinds <- GoodKinds
  Timeouts = {"handshake", "idle", "write"}
  MaxClients = 1
  MaxOutstanding = 1
  QueueCapacity = 1
  MaxPendingWrites = 2
  MaxAccepts = 1
  MaxReads = 1
  MaxFrames = 2
  MaxWrites = 1
  MaxPerTick = 1
  SocketCapacity = 1
  MaxSent <- ThreeByOne
SPECIFICATION FairSpec
INVARIANTS
  RunsAreAnswered
  WithinLimits
PROPERTIES
  SlotsAreFreed
  HandshakesEnd
  BacklogIsServed
CHECK_DEADLOCK FALSE
