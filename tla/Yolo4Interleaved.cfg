SPECIFICATION FairSpec
CONSTANTS
  i1 = i1
  i2 = i2
  i3 = i3
  NRuns = 2
  Concurrent = TRUE
  Words <- MCWords
  Images <- MCImages
  SourceName <- MCNames
  Classes <- MCClasses
  DBs <- MCShortDBs
INVARIANTS LabelsOfListedImages ListedOnce
PROPERTIES ImagesKept RunsEnd ImplementsStore
