SPECIFICATION Spec
CONSTANTS
  c1 = c1
  c2 = c2
  c3 = c3
  LockClients = {c1, c2, c3}
  LockTokens = 2
  w1 = w1
  w2 = w2
  a1 = a1
  a2 = a2
  Replicas = {w1, w2}
  Alerts = {a1, a2}
  Steady = {a1}
  MaxBars = 4
  MaxHold = 2
  e1 = e1
  arm1 = arm1
  arm2 = arm2
  k1 = k1
  k2 = k2
  ExperimentIds = {e1}
  ArmIds = {arm1, arm2}
  TokenIds = {k1, k2}
  s1 = s1
  s2 = s2
  s3 = s3
  ShadowSymbols = {s1, s2, s3}
  ShadowPrices = {5, 7}
  Slippage = 1
  Commission = 1
  Capital = 20
  MaxOpen = 2
  MaxCloses = 2
  b1 = b1
  b2 = b2
  MlCallers = {b1, b2}
  OpenThreshold = 2
  CloseThreshold = 2
  MaxReconnects = 2
  IngestSymbols = {1, 2}
  SignalTypes = {"BUY", "SELL"}
  SteadySymbols = {2}
  SteadyType = "BUY"
  Attempts = 3
  MaxRows = 2
  LastMinute = 4
  CandleWindow = 2
  MaxAge = 2
  MaxGap = 1
INVARIANTS
  ServicesTypeOK
  OncePerReplica
  OnePosition NoEntryMissed FirstTouchCloses
  LiveWasApproved ActiveWhileRunning
  CashIsExplained OneStream
  NoRepeatedRow OutcomeIsFirstTouch
PROPERTIES RaceIsContained FinishedStaysFinished AlertsGetThrough MlServiceComesBack StreamReconnects SignalsAreRecorded
CHECK_DEADLOCK FALSE
