CONSTANTS
  Entries <- MCEntries
  Coordinators = {c1}
  DependsOn <- Chain
  Scope <- Apart
  Operations = {"cancel"}
  Faults = {}
  MaxFaults = 0
  MaxClaims = 2
  MaxLands = 3
  MaxBatch = 2
SPECIFICATION Spec
INVARIANT AncestorsAlwaysFirst
CHECK_DEADLOCK FALSE
