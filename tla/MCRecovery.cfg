SPECIFICATION FairSpec
CONSTANTS
  r1 = r1
  r2 = r2
  Key = {r1}
  Other = other
  Steps = 2
  Writing <- Both
  Expecting <- One
  Faults = {"crash", "poisoned", "torn"}
  Slots = 1
  MaxLive = 2
  NoRun = NoRun
  NoOutcome = NoOutcome
CHECK_DEADLOCK FALSE
INVARIANTS
  AtMostOnce
  ReportsAreTrue
  DoubtIsKept
PROPERTY
  EveryDriverEnds
