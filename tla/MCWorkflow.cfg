SPECIFICATION Spec
CONSTANTS
  MaxPolls = 3
  MaxToggles = 2
INVARIANT
  AnsweredOksMeanTookEffect
PROPERTY
  Terminates
CHECK_DEADLOCK FALSE
