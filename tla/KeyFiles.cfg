CONSTANTS
  a = a
  b = b
  Texts <- MCTexts
  Pairs = {a, b}
  Padded <- MCPadded
  Error = Error
  NoLabel = NoLabel
SPECIFICATION Spec
INVARIANTS
  HalfWrittenFilesAreRefused
  FirstOfEachDecides
CHECK_DEADLOCK FALSE
