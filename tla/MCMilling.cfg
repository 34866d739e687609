SPECIFICATION MillSpec
CONSTANTS
  None = None
  LEAF_SIZE = 2
  FAR = 1000
  MaxNumber = 8
  Sources <- MCMillSources
  Damages <- MCDamages
  MaxRays = 12
INVARIANTS
  WeldIsCanonical
  FieldIsTheSolid
  FilesReadBack
  CrossingsTurn
  SurfaceIsClosed
  CutIsTheSweep
  LibraryReadsBack
  ToolMeshIsSolid
CHECK_DEADLOCK FALSE
