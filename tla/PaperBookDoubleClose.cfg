SPECIFICATION Spec
CONSTANTS
  Trades = {t1}
  Symbols = {s1}
  AutoSources = {dp}
  ScalpSources = {m1}
  Triggers = {5}
  Jobs = {"auto", "scalper", "eod"}
  Requests = {r1}
  MaxConcurrent = 2
  DailyBudget = 4
  TradeNotional = 2
  PositionCap = 2
  ExposureCap = 3
  RawSizes = {1, 3}
  MaxPerDay = 3
  ResolveBatch = 2
  RedisUp = TRUE
  MaxCrashes = 0
CHECK_DEADLOCK FALSE
PROPERTIES ClosedForGood
