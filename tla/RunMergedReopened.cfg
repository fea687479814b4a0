CONSTANTS
  Jobs <- OneRun
  Specs <- OneSpec
  DependsOn <- Alone
  Slots <- OneSlot
  NoRun <- MCNoRun
  NoSpec = "none"
  Operations = {}
  Faults = {"db"}
  CrashPoints <- AtWork
  MaxFaults = 1
SPECIFICATION Spec
PROPERTY MergedStays
CHECK_DEADLOCK FALSE
