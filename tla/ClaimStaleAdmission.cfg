SPECIFICATION Spec
CONSTANTS
  Helpers = {h1}
  MaxModelCalls = 4
  MaxAssistantTurns = 2
  MaxAttempts = 1
  MaxLives = 1
INVARIANT
  UncertainRequestBlocksResume
CHECK_DEADLOCK FALSE
