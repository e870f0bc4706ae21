SPECIFICATION AsyncSpec
CONSTANTS
  MaxSteps = 2
  MaxCalls = 2
  MaxFree = 0
  ParseRecoveryMax = 1
  HookReasons = {"hook_stop"}
  Configs <- TwoConfigs
  Workers = 1
  Requests = {1}
  MaxCancels = 2
INVARIANTS
  CleanupOnce
  UncertainEffectsBlockResume
  NestedSettled
  CancellationSurfaces
PROPERTIES
  Termination
