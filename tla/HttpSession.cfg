SPECIFICATION Spec
CONSTANTS
  Texts <- MCTexts
  Paths <- MCPaths
  CgiFolder <- MCCgiFolder
  Index = "page"
  Disk <- MCDisk
  MaxSent = 2
  MaxEdits = 1
INVARIANTS
  TypeOK
  ResponsesInOrder
  NothingSkipped
  CloseHonest
  FramedUnlessEdited
  OwnOutput
  AbortsOnlyOnChange
CHECK_DEADLOCK FALSE
