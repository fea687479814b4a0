CONSTANTS
  Entries <- MCEntries
  Coordinators = {c1, c2}
  DependsOn <- Chain
  Scope <- Apart
  Operations = {"cancel"}
  Faults = {"crash", "receipt", "answer"}
  MaxFaults = 1
  MaxClaims = 2
  MaxLands = 3
  MaxBatch = 2
SPECIFICATION Spec
INVARIANTS TypeOK MergedIsOnMain MarkedIsMerged AncestorsFirst
PROPERTY ImplementsMainline
SYMMETRY MCSymmetry
CHECK_DEADLOCK FALSE
