SPECIFICATION CallsSpec
CONSTANTS
  c1 = c1
  c2 = c2
  c3 = c3
  q1 = q1
  None = None
  Conn <- Two
  Request <- One
  MaxKeys = 2
  MaxPins = 0
CHECK_DEADLOCK FALSE
INVARIANTS
  AtMostOnce
  AnswersAreTrue
  NothingStranded
PROPERTIES
  EveryCallEnds
  TimedOutIsSettled
