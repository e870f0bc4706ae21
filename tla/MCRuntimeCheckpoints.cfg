SPECIFICATION RuntimeSpec
CONSTANTS
  MaxSteps = 3
  MaxCalls = 2
  MaxFree = 0
  ParseRecoveryMax = 0
  HookReasons <- NoStops
  Configs <- BothDispatches
  Every = 2
INVARIANTS
  StoreBlocksResume
  StoreSettles
