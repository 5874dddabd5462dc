SPECIFICATION Spec
CONSTANTS
  Templates <- MCTemplates
  FirstJobs <- MCFirstJobs
  MaxWork = 3
  MaxFaults = 1
INVARIANTS MissingHasEditor EditsKept ToldBeforeNext
