SPECIFICATION FairSpec
CONSTANTS
  a = a
  b = b
  w1 = w1
  w2 = w2
  w3 = w3
  local = local
  empty = empty
  broken = broken
  hostless = hostless
  Loaders <- MCLoaders
  Records <- MCRecords
  Own <- MCOwn
  DirAddress <- MCDirAddress
  PathAddress <- MCPathAddress
  Hosts <- MCHosts
  Clock <- MCClock
  Parts = 2
  MaxLoads = 3
  MaxCleans = 1
  NetFaults = TRUE
  DiskFaults = TRUE
INVARIANTS OwnBytesOnly
PROPERTIES OthersCopiesKept SuccessLeavesFile CallsReturn
CHECK_DEADLOCK FALSE
