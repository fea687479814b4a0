CONSTANTS
  Specs <- Pair
  DependsOn <- Row2
  Ceiling = 1
  Threshold = "moderate"
  DepthCap = 1
  Operations = {"lax"}
  Faults = {}
  MaxTurns = 0
SPECIFICATION Spec
INVARIANTS MergedCrosses
CHECK_DEADLOCK FALSE
