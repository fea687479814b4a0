CONSTANTS
  Jobs <- OneRun
  Workers = {"w1", "w2"}
  Requests <- MCRequests
  Sweep <- MCSweep
  NoRun <- MCNoRun
  Nobody = "nobody"
  Operations = {"cancel"}
  Faults = {}
  MaxFaults = 0
SPECIFICATION Spec
PROPERTY NoSandboxLeaks
CHECK_DEADLOCK FALSE
