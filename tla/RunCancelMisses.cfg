CONSTANTS
  Jobs <- TwoRuns
  Specs <- OneSpec
  DependsOn <- Alone
  Slots <- OneSlot
  NoRun <- MCNoRun
  NoSpec = "none"
  Operations = {"cancel"}
  Faults = {}
  CrashPoints <- AtWork
  MaxFaults = 0
SPECIFICATION Spec
PROPERTY CancelReachesRun
CHECK_DEADLOCK FALSE
