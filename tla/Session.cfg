SPECIFICATION FairSpec
CONSTANTS
  MaxTurns = 2
  MaxSessions = 5
  Views = {v1, v2}
  MaxDeaths = 1
  MaxFaults = 1
  MaxRetries = 2
  Models = {m1, m2}
  MaxPicks = 1
INVARIANTS AnsweredByStored ContextSurvives TurnKeepsItsModel
PROPERTY TurnEnds
