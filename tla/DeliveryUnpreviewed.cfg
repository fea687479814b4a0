CONSTANTS
  g1 = g1
  g2 = g2
  w1 = w1
  w2 = w2
  Groups <- One
  Workers <- Solo
  MaxClaims = 1
  Nodes = {"run"}
  Faults = {}
  MaxFaults = 0
SPECIFICATION Spec
INVARIANTS WorksOnPreview
CHECK_DEADLOCK FALSE
