CONSTANTS
  g1 = g1
  g2 = g2
  w1 = w1
  w2 = w2
  Groups <- Both
  Workers <- Duo
  MaxClaims = 1
  Nodes = {"connection"}
  Faults = {}
  MaxFaults = 0
SPECIFICATION Spec
INVARIANTS LiveIsServed
CHECK_DEADLOCK FALSE
