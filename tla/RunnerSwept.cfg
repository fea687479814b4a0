CONSTANTS
  Jobs <- OneRun
  Workers = {"w1", "w2"}
  Requests <- MCRequests
  Sweep <- MCSweep
  NoRun <- MCNoRun
  Nobody = "nobody"
  Operations = {}
  Faults = {"crash"}
  MaxFaults = 1
SPECIFICATION Spec
INVARIANT SandboxInUse
CHECK_DEADLOCK FALSE
