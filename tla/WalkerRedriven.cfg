CONSTANTS
  Specs <- Pair
  DependsOn <- Row2
  Ceiling = 2
  Threshold = "aggressive"
  DepthCap = 1
  Operations = {}
  Faults = {}
  MaxTurns = 1
SPECIFICATION Spec
PROPERTIES RedrivenIsPicked
CHECK_DEADLOCK FALSE
