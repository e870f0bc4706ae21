SPECIFICATION Spec
CONSTANT
  Lines = 5
INVARIANTS
  EachLineOnce
  OrderKept
  CancelStopsItsRun
PROPERTIES
  CancelEndsRun
  ServedToTheEnd
CHECK_DEADLOCK FALSE
