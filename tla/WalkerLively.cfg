CONSTANTS
  Specs <- Three
  DependsOn <- Beside
  Ceiling = 1
  Threshold = "moderate"
  DepthCap = 1
  Operations = {"hand", "archive", "budget", "cancel", "requeue"}
  Faults = {"crash", "db"}
  MaxTurns = 2
SPECIFICATION Spec
PROPERTIES ImplementsBoard NothingLeftWaiting
CHECK_DEADLOCK FALSE
