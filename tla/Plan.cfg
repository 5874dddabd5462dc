SPECIFICATION Spec
CONSTANTS
  Replies <- MCReplies
  MaxTurns = 3
  MaxJobs = 1
  MaxFaults = 1
INVARIANTS StepsAreOfThisPhase BarFollowsAgent QuestionHasItsCard
