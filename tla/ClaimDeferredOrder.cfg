SPECIFICATION Spec
CONSTANT
  Lines = 3
INVARIANT
  DeferredKeepTheirPlace
CHECK_DEADLOCK FALSE
