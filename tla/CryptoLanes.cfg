SPECIFICATION Spec
CONSTANTS
  Symbols = {BTC}
  Strategies = {s1, s2}
  Timeframes <- TwoMinutes
  Rows = {r1, r2}
  LastMinute = 2
  MaxAttempts = 2
  MaxEntries = 1
  MaxAge = 1
  MaxCrashes = 1
SYMMETRY Symmetry
PROPERTIES LanesAreSeparate
CHECK_DEADLOCK FALSE
