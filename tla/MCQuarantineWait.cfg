SPECIFICATION Spec
CONSTANTS
  o1 = o1
  o2 = o2
  r1 = r1
  r2 = r2
  NoRequest = NoRequest
  Free = Free
  Listing = Listing
  All = All
  Owner <- MCOwner
  RequestId <- MCRequestId
  Resource <- MCResource
  Scopes <- MCScopes
  Waits <- MCWaits
  LateHistory = 2
  TTL = 2
  MaxTime = 3
SYMMETRY Symmetry
INVARIANT
  NeverWaitsOnQuarantine
