SPECIFICATION Spec
CONSTANTS
  Size = 3
  Workers = 2
  MaxCancels = 2
INVARIANTS
  Drained
  CleanupUninterrupted
  NothingSwallowed
  OverlapBounded
PROPERTIES
  QueuedStayQueued
  CancelledBatchEnds
CHECK_DEADLOCK FALSE
