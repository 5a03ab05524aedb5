SPECIFICATION HandlesSpec
CONSTANTS
  c1 = c1
  c2 = c2
  c3 = c3
  q1 = q1
  x = x
  y = y
  None = None
  Conn <- Three
  Request = {}
  MaxKeys = 2
  MaxPins = 1
  Invocation = {x, y}
  Abandoned = Abandoned
  MaxLives = 2
  MaxEpochs = 2
  Snapper = {x, y}
  MaxSessions = 1
  MaxPushes = 1
  Index = {"refs", "meta"}
  a1 = a1
  a2 = a2
  b1 = b1
  mcp = mcp
  Proc <- Strangers
  App <- MCApp
  Dir <- MCDir
  Exact <- MCExact
  Port = {1, 2}
  NoPort = 0
  Pid = {1, 2}
  NoRecord = NoRecord
  Client = {mcp}
  Near <- MCNear
  Workspace <- Nowhere
  Foreign <- Nowhere
  Wants <- MCWants
  AnyApp = AnyApp
  OptIn = {}
  Refusing = {}
  NoProc = NoProc
  MaxCalls = 2
  Times = {1000, 29950, 40000}
  Queueing = {0, 14999}
  Prompt = 300
  Lag = 100
SYMMETRY HandlesSymmetry
CHECK_DEADLOCK FALSE
INVARIANTS
  OneRuntimePerDocument
  RunsWhereConfirmed
  NothingIsMixed
  RightInstance
  AnsweredInTime
  ActsOnce
PROPERTIES
  PinStaysStale
  ClientLeavesForCause
