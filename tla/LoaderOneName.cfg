SPECIFICATION Spec
CONSTANTS
  a = a
  b = b
  w1 = w1
  w2 = w2
  w3 = w3
  local = local
  empty = empty
  broken = broken
  hostless = hostless
  Loaders <- MCLoaders
  Records <- MCRecords
  Own <- MCOwn
  DirAddress <- MCDirAddress
  PathAddress <- MCPathAddress
  Hosts <- MCHosts
  Clock <- MCClock
  Parts = 2
  MaxLoads = 2
  MaxCleans = 0
  NetFaults = FALSE
  DiskFaults = FALSE
INVARIANTS LoadedIsWhole
CHECK_DEADLOCK FALSE
