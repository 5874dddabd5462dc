SPECIFICATION Spec
CONSTANTS
  Targets <- MCTargets
  Askers <- MCAskers
  Steps <- MCSteps
  MaxConversations = 3
  MaxFailures = 1
INVARIANTS
  OneOwner
  ConsumerWaits
  PointerIsItsOwn
  SignalsAreAnswered
