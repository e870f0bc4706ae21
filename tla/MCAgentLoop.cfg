SPECIFICATION Spec
CONSTANTS
  MaxSteps = 2
  MaxCalls = 2
  MaxFree = 1
  ParseRecoveryMax = 1
  HookReasons = {"hook_stop"}
  Configs <- AllConfigs
INVARIANTS
  TypeOK
  BudgetRespected
  StepsNumbered
  CompletedMeansAccepted
  CleanupOnce
  LateWorkBounded
  UncertainEffectsBlockResume
  ResultsRecorded
PROPERTIES
  AcceptedIsFinal
  StopHonoured
  Termination
