CONSTANTS
  Entries <- Single
  Coordinators = {c1, c2}
  DependsOn <- Alone
  Scope <- Apart
  Operations = {"cancel", "dequeue", "policy"}
  Faults = {"crash", "receipt", "answer"}
  MaxFaults = 2
  MaxClaims = 3
  MaxLands = 3
  MaxBatch = 2
SPECIFICATION Spec
INVARIANT OneHolder
PROPERTIES EveryClaimEnds SettledForGood
CHECK_DEADLOCK FALSE
