SPECIFICATION MCSpec
CONSTANTS
  ScalpRows = 2
  ScalpSymbols = 2
  Trades = {t1, t2, t3}
  Symbols = {s1, s2, s3}
  AutoSources = {dp}
  ScalpSources = {m1, m2}
  Triggers = {4, 5}
  Jobs = {"auto", "scalper"}
  Requests = {}
  MaxConcurrent = 2
  DailyBudget = 4
  TradeNotional = 2
  PositionCap = 2
  ExposureCap = 3
  RawSizes = {1, 3}
  MaxPerDay = 3
  ResolveBatch = 1
  RedisUp = TRUE
  MaxCrashes = 1
SYMMETRY Symmetry
CHECK_DEADLOCK FALSE
INVARIANTS
  TypeOK AutoPositionCap BudgetKept LedgerMatchesRows AutoOnePerSymbol FinalisedIsClosed
  ScalpOnePerSymbol SignalOpensOnce
PROPERTIES FinalisedIsFrozen
