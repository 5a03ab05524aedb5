SPECIFICATION HostSpec
CONSTANTS
  c1 = c1
  c2 = c2
  NoRequest = NoRequest
  Free = Free
  Listing = Listing
  All = All
  Owner <- MCOwner
  RequestId <- MCRequestId
  Http <- MCHttp
  Resource <- MCResource
  Scopes <- MCScopes
  Waits <- MCWaits
  LateHistory = 2
  TTL = 1
  MaxTime = 2
  p1 = p1
  p2 = p2
  a = a
  b = b
  Nobody = Nobody
  Nothing = Nothing
  Process <- MCProcess
  Run <- MCRun
  MaxRevision = 2
  MaxRecords = 3
  QueueCapacity = 2
  MaxKeys = 2
  Packet = {d1, d2}
  Conflicting = {d2}
  Element = {e1, e2}
  Nowhere = Nowhere
  MaxChanges = 2
  Heights = {1, 8, 9}
  Nodes = {1, 9, 100, 101}
  Nesting = {0, 3, 4, 5}
CHECK_DEADLOCK FALSE
INVARIANTS
  ExclusiveEffects
  HistoryIsReadable
  AcceptedCanRun
PROPERTIES
  StepsHappenOnce
  EveryCommandAnswered
  ClosingEnds
  ImplementsDurableLog
