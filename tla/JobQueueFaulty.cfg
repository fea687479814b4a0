CONSTANTS
  Jobs <- MCJobs
  Slots <- ThreeSlots
  ProcessOf <- ThreeProcesses
  NoJob <- MCNoJob
  Faults = {"crash", "drain", "stall", "miss", "db"}
  MaxFaults = 2
SPECIFICATION Spec
INVARIANT ClaimHasOneHolder
PROPERTIES CancelIsDurable EveryJobSettles
