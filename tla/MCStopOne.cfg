SPECIFICATION CaptureSpec
CONSTANTS
  Session = {s1, s2}
  Following = {s2}
  Queried = {s1}
  MaxStored = 1
  MaxSources = 2
  MaxDocuments = 2
  MaxRecorded = 2
  MaxTrouble = 1
CHECK_DEADLOCK FALSE
PROPERTY
  StopChangesOnlyItself
