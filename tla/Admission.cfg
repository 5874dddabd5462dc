SPECIFICATION AdmissionFairSpec
CONSTANTS
  w1 = w1
  w2 = w2
  Workers <- MCTwoWorkers
  MaxJobs = 4
  Demands <- MCNoneOrAll
  GpuBudget = 1
  MaxConcurrent = 2
  PageSize = 2
  MaxFailures = 1
INVARIANTS NoDoubleRun TasksFit
PROPERTIES ClaimsOldestFit CpuJobsRun
