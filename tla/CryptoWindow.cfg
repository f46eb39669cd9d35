SPECIFICATION WalkSpec
CONSTANTS
  LastMinute = 4
  CandleWindow = 2
  MaxAge = 2
  MaxGap = 1
INVARIANTS ClosesAfterItOpens
CHECK_DEADLOCK FALSE
