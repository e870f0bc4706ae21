SPECIFICATION Spec
CONSTANTS
  Helpers = {h1, h2}
  MaxModelCalls = 4
  MaxAssistantTurns = 2
  MaxAttempts = 2
  MaxLives = 2
SYMMETRY Permuted
INVARIANTS
  CeilingKept
  UncertainWorkBlocksResume
  ExclusiveAlone
CHECK_DEADLOCK FALSE
