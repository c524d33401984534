SPECIFICATION Spec
CONSTANTS
  ClassCounts <- MCClassCounts
  ImageCounts <- MCImageCounts
  Positions <- MCPositions
  Widths <- MCWidths
  Sides <- MCSides
  Bytes <- MCBytes
  Marks <- MCMarks
  CfgLines <- MCCfgLines
  Characters <- MCCharacters
  MaxValue = 0
  Width <- MCWidth
  Letters = {"p", "q"}
  MaxWords = 0
  MaxPath = 0
  MaxLines = 0
  PART = 3
  CHUNK = 2
  MaxBuffer = 0
  MaxBytes = 0
  Tasks = {"cut"}
INVARIANT CropIsOverlap
CHECK_DEADLOCK FALSE
