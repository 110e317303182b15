SPECIFICATION Spec
CONSTANTS
  MaxPolls = 1
  MaxToggles = 0
INVARIANT
  OksMeanTookEffect
CHECK_DEADLOCK FALSE
