CONSTANTS
  f1 = f1
  f2 = f2
  lib = lib
  app = app
  Threads = {lib, app}
  LibraryThreads = {lib}
  Says <- MCSays
  Levels = {2, 3}
  Warning = 2
  MaxLogLevel = 3
  Files = {f1, f2}
  Asks <- MCAsks
  MaxAsks = 2
  MaxFaults = 1
  NoFile = NoFile
  NoThread = NoThread
  NoLine = NoLine
SPECIFICATION FairSpec
INVARIANTS LinesWhole LinesReachTheirFile UrgentLinesSurvive
PROPERTIES LogCallsReturn
CHECK_DEADLOCK FALSE
