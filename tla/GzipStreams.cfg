SPECIFICATION StreamsFairSpec
CONSTANTS
  Chunk = 2
  Chars <- MCChars
  MaxOpens = 2
  Data <- MCData
  Expand <- MCExpand
  OtherFiles <- MCFiles
  Faults = TRUE
INVARIANTS CloseTellsTheTruth NothingLost EndMeansComplete CompleteIsRead ReadBackWhole
PROPERTIES CallsReturn
CHECK_DEADLOCK FALSE
