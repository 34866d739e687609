SPECIFICATION ParseSpec
CONSTANTS
  None = None
  MaxPecks = 4
  OffsetIds = {1, 2}
  Inch = 3
  Lengths <- MCLengths
  Increment = None
  ExecuteBlockSkip = FALSE
  ChipBreak = None
  MaxDepth = 2
  Programs <- AllPrograms
  Texts <- MCTexts
INVARIANTS
  ToolpathValid
  OffsetsRecoverable
  ReentryThroughAir
  CallsAreLonghand
  NothingIsSilent
PROPERTIES
  G92ReadsAsProgrammed
  Terminates
