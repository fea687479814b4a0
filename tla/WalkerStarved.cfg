CONSTANTS
  Specs <- Three
  DependsOn <- Beside
  Ceiling = 2
  Threshold = "moderate"
  DepthCap = 1
  Operations = {}
  Faults = {}
  MaxTurns = 2
SPECIFICATION Spec
PROPERTIES NothingStarves
CHECK_DEADLOCK FALSE
