SPECIFICATION Spec
CONSTANTS
  r1 = r1
  r2 = r2
  Key = {r1, r2}
  Other = other
  Steps = 1
  Writing <- One
  Expecting <- None
  Faults = {}
  Slots = 2
  MaxLive = 2
  NoRun = NoRun
  NoOutcome = NoOutcome
PROPERTY WritesDoNotMeet
SYMMETRY Runs
CHECK_DEADLOCK FALSE
