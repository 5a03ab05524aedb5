SPECIFICATION Spec
CONSTANTS
  r1 = r1
  r2 = r2
  Key = {r1}
  Other = other
  Steps = 1
  Writing <- One
  Expecting <- One
  Faults = {}
  Slots = 1
  MaxLive = 1
  NoRun = NoRun
  NoOutcome = NoOutcome
INVARIANT AdvertisedIsAccepted
CHECK_DEADLOCK FALSE
