CONSTANTS
  g1 = g1
  g2 = g2
  w1 = w1
  w2 = w2
  Groups <- Both
  Workers <- Duo
  MaxClaims = 2
  Nodes = {"run", "connection"}
  Faults = {"crash", "stall", "refuse", "throw"}
  MaxFaults = 1
SPECIFICATION Spec
INVARIANTS TypeOK EffectsOnce OneLive Evidence
PROPERTIES ImplementsRollout DeliveryEnds
CHECK_DEADLOCK FALSE
