CONSTANTS
  Specs <- Pair
  DependsOn <- Row2
  Ceiling = 2
  Threshold = "aggressive"
  DepthCap = 1
  Operations = {}
  Faults = {}
  MaxTurns = 0
SPECIFICATION Spec
INVARIANTS ParkedBlocks
CHECK_DEADLOCK FALSE
