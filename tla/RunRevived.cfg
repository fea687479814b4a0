CONSTANTS
  Jobs <- OneRun
  Specs <- OneSpec
  DependsOn <- Alone
  Slots <- OneSlot
  NoRun <- MCNoRun
  NoSpec = "none"
  Operations = {"cancel"}
  Faults = {}
  CrashPoints <- AtWork
  MaxFaults = 0
SPECIFICATION Spec
PROPERTY CancelledSpecStays
CHECK_DEADLOCK FALSE
