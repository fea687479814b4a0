CONSTANTS
  Specs <- Three
  DependsOn <- Row3
  Ceiling = 2
  Threshold = "aggressive"
  DepthCap = 2
  Operations = {"cancel", "lax"}
  Faults = {}
  MaxTurns = 2
SPECIFICATION Spec
INVARIANTS TypeOK StackComplete NoWorkOnCancelled
CHECK_DEADLOCK FALSE
