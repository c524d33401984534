SPECIFICATION Spec
CONSTANTS
  i1 = i1
  i2 = i2
  i3 = i3
  NRuns = 1
  Concurrent = FALSE
  Words <- MCWords
  Images <- MCTwins
  SourceName <- MCTwinNames
  Classes <- MCClasses
  DBs <- MCTwinDBs
INVARIANTS LabelsDescribeImages
