SPECIFICATION Spec
CONSTANTS
  MaxSteps = 2
  MaxCalls = 1
  MaxFree = 0
  ParseRecoveryMax = 0
  HookReasons = {"hook_stop"}
  Configs <- OneReactiveRun
INVARIANT
  RecoveredTurnProceeds
CHECK_DEADLOCK FALSE
