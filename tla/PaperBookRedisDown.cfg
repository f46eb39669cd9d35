SPECIFICATION FairSpec
CONSTANTS
  Trades = {t1}
  Symbols = {s1}
  AutoSources = {dp}
  ScalpSources = {m1}
  Triggers = {5}
  Jobs = {"auto", "scalper", "eod"}
  Requests = {}
  MaxConcurrent = 2
  DailyBudget = 4
  TradeNotional = 2
  PositionCap = 2
  ExposureCap = 3
  RawSizes = {1, 3}
  MaxPerDay = 3
  ResolveBatch = 2
  RedisUp = FALSE
  MaxCrashes = 0
CHECK_DEADLOCK FALSE
PROPERTIES SquaredOff
