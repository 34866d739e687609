SPECIFICATION ParseSpec
CONSTANTS
  None = None
  MaxPecks = 4
  OffsetIds = {1, 2}
  Inch = 3
  Lengths <- MCLengths
  Increment = None
  ExecuteBlockSkip = FALSE
  ChipBreak = None
  MaxDepth = 2
  Programs <- FlatAndNone
  Texts <- NoTexts
PROPERTY CycleDepthIsLonghand
