\* The bounds of the other modules are in MC_Kernels.
SPECIFICATION MCSpec
CONSTANTS
  MaxTeam = 3
  MaxBound = 5
  Cols = 2
  Threshold = 2
CHECK_DEADLOCK FALSE
INVARIANTS
  WindowsCompute
  ElementsCompute
  ProductsCompute
  RowsCompute
  AttentionComputes
  LoopsShared
PROPERTIES
  EveryRegionEnds
