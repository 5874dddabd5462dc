SPECIFICATION Spec
CONSTANTS
  MaxJobs = 1
  Specs <- MCMixed
  GpuBudget = 1
  MaxConcurrent = 2
  MaxCrashes = 0
  Requests <- MCCancelOnly
  Faults <- MCNoFaults
PROPERTY CancelledIsFinal
