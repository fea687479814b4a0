CONSTANTS
  Jobs <- ThreeRuns
  Specs <- TwoSpecs
  DependsOn <- Chain
  Slots <- MCSlots
  NoRun <- MCNoRun
  NoSpec = "none"
  Operations = {}
  Faults = {"crash"}
  CrashPoints <- AtWork
  MaxFaults = 2
SPECIFICATION Spec
INVARIANTS TypeOK NeverStranded PausedHoldsSpec
PROPERTIES SpecFollowsTable SpecLeavesFlight QueuedRunEnds
CHECK_DEADLOCK FALSE
