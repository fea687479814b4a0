CONSTANTS
  Jobs <- TwoRuns
  Specs <- OneSpec
  DependsOn <- Alone
  Slots <- MCSlots
  NoRun <- MCNoRun
  NoSpec = "none"
  Operations = {"cancel", "requeue", "replan", "archive"}
  Faults = {"crash", "stall", "db"}
  CrashPoints <- Anywhere
  MaxFaults = 1
SPECIFICATION Spec
PROPERTY EndedRunFrozen
CHECK_DEADLOCK FALSE
