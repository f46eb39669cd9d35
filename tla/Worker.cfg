SPECIFICATION FairSpec
CONSTANTS
  Jobs = {auto, eod}
  RunOnStart = {auto}
  Emitters = {auto}
  Clients = {c1, c2}
  Threshold = 2
  MaxEvents = 3
INVARIANTS TypeOK OneTickPerJob StoppedIsQuiet NoEventStranded NothingLeftQueued
PROPERTIES TrailIsKept TicksGoOn ShutdownEnds EventsAreDecided
CHECK_DEADLOCK FALSE
