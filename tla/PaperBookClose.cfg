SPECIFICATION FairSpec
CONSTANTS
  Trades = {t1, t2}
  Symbols = {s1}
  AutoSources = {dp}
  ScalpSources = {}
  Triggers = {5}
  Jobs = {"auto", "scalper", "eod"}
  Requests = {r1}
  MaxConcurrent = 2
  DailyBudget = 4
  TradeNotional = 2
  PositionCap = 2
  ExposureCap = 3
  RawSizes = {1}
  MaxPerDay = 1
  ResolveBatch = 1
  RedisUp = TRUE
  MaxCrashes = 1
CHECK_DEADLOCK FALSE
PROPERTIES SquaredOff
