SPECIFICATION CommandSpec
CONSTANTS
  c1 = c1
  c2 = c2
  NoRequest = NoRequest
  Free = Free
  Listing = Listing
  All = All
  Owner <- MCOwner
  RequestId <- MCRequestId
  Http <- MCHttp
  Resource <- MCResource
  Scopes <- MCScopes
  Waits <- MCWaits
  LateHistory = 2
  TTL = 1
  MaxTime = 2
CHECK_DEADLOCK FALSE
INVARIANT
  DisconnectKeepsQuarantine
