SPECIFICATION MillSpec
CONSTANTS
  None = None
  LEAF_SIZE = 2
  FAR = 1000
  MaxNumber = 8
  Sources <- PlungeSources
  Damages <- MCDamages
  MaxRays = 12
INVARIANT WallsFaceOut
CHECK_DEADLOCK FALSE
