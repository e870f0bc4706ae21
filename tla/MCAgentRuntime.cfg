SPECIFICATION Spec
CONSTANTS
  Runs = {r1, r2}
  Closers = {c1, c2}
  Nobody = nobody
INVARIANTS
  PresetKept
  ConfigRestored
  CleanCloseMeansSettled
  HandlesForgotten
PROPERTY
  CloseStopsRun
CHECK_DEADLOCK FALSE
