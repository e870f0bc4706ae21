SPECIFICATION RuntimeSpec
CONSTANTS
  MaxSteps = 2
  MaxCalls = 2
  MaxFree = 0
  ParseRecoveryMax = 0
  HookReasons <- NoStops
  Configs <- OneConcurrentRun
  Every = 2
INVARIANT
  UnknownEffectsKept
CHECK_DEADLOCK FALSE
