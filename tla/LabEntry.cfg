SPECIFICATION EngineSpec
CONSTANTS
  MaxBars = 4
  MaxHold = 2
PROPERTY FreshEntryIsOpened
