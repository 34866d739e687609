SPECIFICATION Spec
CONSTANTS
  big = big
  small = small
  chip = chip
  Bundles = 2
  Rays = 3
  Cell <- Cells
  Weight <- Weights
  Precision = 2
  Programs <- MCPrograms
  Stocks <- MCStocks
  Schedules <- MCSchedules
  PARALLEL_BATCH = 2
INVARIANTS FieldIsSequential TotalsAreSequential
PROPERTIES Terminates
