SPECIFICATION SessionSpec
CONSTANTS
  big = big
  small = small
  chip = chip
  NoLimit = NoLimit
  None = NoLimit
  Bundles = 3
  Rays = 2
  Cell <- Cells
  Weight <- Weights
  Spans <- MCSpans
  Precision = 2
  NoShape <- Empty
  Surface <- Whole
  Missing <- Lacks
  Paths <- MCPaths
  Shapes <- MCShapes
  Cutters <- MCCutters
  Disks <- MCDisks
  Invocations <- MCInvocations
  MaxInvocations = 3
INVARIANTS
  RunsAreInvisible
  ResumedRunIsTheWhole
  AnswersAreWhole
\* A session ends when its commands are used up.
CHECK_DEADLOCK FALSE
