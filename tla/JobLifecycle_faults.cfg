SPECIFICATION Spec
CONSTANTS
  MaxJobs = 1
  Specs <- MCMixed
  GpuBudget = 1
  MaxConcurrent = 2
  MaxCrashes = 2
  Requests <- MCBothRequests
  Faults <- MCAllFaults
INVARIANTS
  NoDoubleSubmit
  RunningIsKillable
  SucceededIsTrue

  
