SPECIFICATION Spec
CONSTANTS
  None = None
  Cells <- MCCells
  Image <- MCImage
  Jobs <- MCJobs
  Errors = {"rotated", "sheared"}
INVARIANTS
  HitsAreTheTrajectory
  PassMeansGoodPart
CHECK_DEADLOCK FALSE
