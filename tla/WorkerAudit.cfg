SPECIFICATION Spec
CONSTANTS
  Jobs = {auto}
  RunOnStart = {auto}
  Emitters = {auto}
  Clients = {c1}
  Threshold = 2
  MaxEvents = 2
INVARIANTS AuditSurvivesShutdown
CHECK_DEADLOCK FALSE
