SPECIFICATION RecoverySpec
CONSTANTS
  MaxSteps = 3
  MaxCalls = 2
  MaxFree = 1
  ParseRecoveryMax = 0
  HookReasons <- NoStops
  Configs <- BothDispatches
  MaxLives = 2
INVARIANTS
  AtMostOnce
  SpendingKept
PROPERTY
  ImplementsLedger
CHECK_DEADLOCK FALSE
