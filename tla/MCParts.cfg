SPECIFICATION PartsSpec
CONSTANTS
  Picker = {p1}
  NoPicker = none
  MaxActive = 2
  MaxDocs = 2
  Session = {s1, s2}
  Following = {s2}
  Queried = {s1}
  MaxStored = 1
  MaxSources = 2
  MaxDocuments = 2
  MaxRecorded = 2
  MaxTrouble = 1
  NumActions = 3
  MaxEntries = 3
  MaxBuffer = 2
  MaxLoads = 2
  MaxStray = 1
  MaxSaves = 3
  MaxMillis = 1
  MaxFaults = 1
  Keeps = {0, 1}
CHECK_DEADLOCK FALSE
INVARIANTS
  LeaseFollowsSurface
  NoEventLostUntold
  RunsInOrder
  LogsAreComplete
  SavedIsKept
PROPERTIES
  EveryPickerCompletes
  LeaseLostForCause
