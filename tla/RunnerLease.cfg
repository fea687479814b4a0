CONSTANTS
  Jobs <- OneRun
  Workers = {"w1", "w2"}
  Requests <- MCRequests
  Sweep <- MCSweep
  NoRun <- MCNoRun
  Nobody = "nobody"
  Operations = {"cancel", "archive"}
  Faults = {"crash", "stall", "http", "db", "boot", "docker", "down"}
  MaxFaults = 2
SPECIFICATION Spec
INVARIANT SandboxKept
PROPERTIES ImplementsCustody SandboxEnds
CHECK_DEADLOCK FALSE
