SPECIFICATION FolderSpec
CONSTANTS
  i1 = i1
  i2 = i2
  i3 = i3
  NRuns = 2
  Concurrent = FALSE
  Words <- MCWords
  Images <- MCImages
  SourceName <- MCNames
  Classes <- MCClasses
  DBs <- MCDBs
INVARIANTS TypeOK ListedImagesComplete DirectoryAgrees LabelsDescribeImages
