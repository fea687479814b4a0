CONSTANTS
  Jobs <- OneRun
  Specs <- OneSpec
  DependsOn <- Alone
  Slots <- OneSlot
  NoRun <- MCNoRun
  NoSpec = "none"
  Operations = {}
  Faults = {"crash"}
  CrashPoints <- AtEnding
  MaxFaults = 1
SPECIFICATION Spec
INVARIANT NeverStranded
CHECK_DEADLOCK FALSE
