SPECIFICATION FairSpec
CONSTANTS
  MaxJobs = 2
  Specs <- MCOneKind
  GpuBudget = 1
  MaxConcurrent = 2
  MaxCrashes = 1
  Requests <- MCCancelOnly
  Faults <- MCNoFaults
INVARIANTS
  WithinBudget
  NoOrphan
PROPERTIES
  Settles
  QueueDrains
