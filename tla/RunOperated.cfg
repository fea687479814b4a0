CONSTANTS
  Jobs <- ThreeRuns
  Specs <- TwoSpecs
  DependsOn <- Chain
  Slots <- MCSlots
  NoRun <- MCNoRun
  NoSpec = "none"
  Operations = {"cancel", "archive"}
  Faults = {"crash"}
  CrashPoints <- AtWork
  MaxFaults = 1
SPECIFICATION Spec
INVARIANTS OneRunPerSpec OpenIsFree
PROPERTY ImplementsRelay
CHECK_DEADLOCK FALSE
