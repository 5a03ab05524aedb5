SPECIFICATION LeasesSpec
CONSTANTS
  o1 = o1
  o2 = o2
  r1 = r1
  r2 = r2
  NoRequest = NoRequest
  Free = Free
  Listing = Listing
  All = All
  Owner <- MCOwner
  RequestId <- MCRequestId
  Resource <- MCResource
  Scopes <- MCScopes
  Waits <- MCWaits
  LateHistory = 2
  TTL = 2
  MaxTime = 3
  MaxDispatches = 2
  MaxShots = 2
  MaxAttempts = 2
  MaxCallbacks = 2
  Retained = 1
  Memory = 2
  MaxTrouble = 2
  s1 = s1
  s2 = s2
  Post = {s1, s2}
  Stream = {v1}
  MaxSessions = 2
  IdleTTL = 2
  MaxWait = 1
  EndOfTime = 3
SYMMETRY LeasesSymmetry
CHECK_DEADLOCK FALSE
INVARIANTS
  ActiveIsExclusive
  SettledNotQuarantined
  NoLostWakeup
  RepliesAreTrue
  ReceiptsAreTrue
PROPERTIES
  SessionsEndForCause
  IsolationEndsForCause
  ImplementsIsolation
