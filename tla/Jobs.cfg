SPECIFICATION Spec
CONSTANTS
  a = a
  b = b
  Jobs = {a, b}
  NoJob = NoJob
  NoData = NoData
  FirstStatus <- MCFirstStatus
  MaxMoves = 2
  MaxActs = 2
  MaxFaults = 1
  MaxVisits = 2
INVARIANT ChangesAreListed
PROPERTY EndIsShown
