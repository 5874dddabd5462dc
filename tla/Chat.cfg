SPECIFICATION FairSpec
CONSTANTS
  Jobs = {j1, j2}
  Refs = {r1}
  MaxMounts = 2
  MaxTroubles = 1
  MaxCards = 1
  MaxFailures = 1
INVARIANTS OneTurn NoOrphanAtTheEnd ToldOnce CardSubmitsOnce
PROPERTY EndIsReported
CHECK_DEADLOCK FALSE
