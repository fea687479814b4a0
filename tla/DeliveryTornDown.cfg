CONSTANTS
  g1 = g1
  g2 = g2
  w1 = w1
  w2 = w2
  Groups <- One
  Workers <- Duo
  MaxClaims = 2
  Nodes = {"connection"}
  Faults = {"stall"}
  MaxFaults = 1
SPECIFICATION Spec
INVARIANTS ServedIsUp
CHECK_DEADLOCK FALSE
