SPECIFICATION Spec
CONSTANTS
  None = None
  Eps = 2
  Tasks <- MCTasks
INVARIANTS
  StructurallyValid
  ResultIsTheSet
  FacesOutward
CHECK_DEADLOCK FALSE
