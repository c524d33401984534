SPECIFICATION Spec
CONSTANTS
  ClassCounts <- MCClassCounts
  ImageCounts <- MCImageCounts
  Positions <- MCPositions
  Widths <- MCWidths
  Sides <- MCSides
  Bytes <- MCBytes
  Marks <- MCMarks
  CfgLines <- MCCfgLines
  Characters <- MCCharacters
  MaxValue = 5
  Width <- MCWidth
  Letters = {"p", "q"}
  MaxWords = 4
  MaxPath = 6
  MaxLines = 4
  PART = 3
  CHUNK = 2
  MaxBuffer = 6
  MaxBytes = 4
  Tasks = {"cfg", "json", "value", "cut", "quote", "escape", "buffer", "name"}
INVARIANTS CfgIsSound NoPixelIsLost NetworkKept  NamesReadBack BuffersReadBack ExtensionIsOfTheImage
CHECK_DEADLOCK FALSE
