CONSTANTS
  Jobs <- MCJobs
  Slots <- ThreeSlots
  ProcessOf <- SharedProcess
  NoJob <- MCNoJob
  Faults = {"crash", "drain", "db"}
  MaxFaults = 2
SPECIFICATION Spec
INVARIANTS TypeOK ExclusiveExecution ExecutingIsLeased
PROPERTIES DrainEnds ImplementsDispatch
