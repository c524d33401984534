SPECIFICATION Spec
CONSTANTS
  a1 = a1
  a2 = a2
  b = b
  t = t
  u = u
  r1 = r1
  r2 = r2
  NRuns = 2
  Concurrent = FALSE
  Words <- MCWords
  Images <- MCImages
  SourceName <- MCNames
  Classes <- MCClasses
  Unnamed <- MCUnnamed
  DBs <- MCDBs
  Layouts <- MCUltralyticsOnly
  Databases <- MCApartDatabases
INVARIANTS LabelsFollowNames
