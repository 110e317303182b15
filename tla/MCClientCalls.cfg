SPECIFICATION Spec
CONSTANTS
  c1 = c1
  c2 = c2
  Caller = {c1, c2}
  CallsChoice <- Calls
  NewChoice <- Clients
  FlagsChoice <- Flags
  TokenKey = "key"
  TicksPerHour = 1
  MountPath <- Mount
  LandingPage <- Login
  Locations <- Targets
  MaxToggles = 2
  MaxRedirects = 1
INVARIANTS
  TypeOK
  SignatureMeansIntent
  FreshAnswer
  SuccessIsEffect
PROPERTY
  EveryCallReturns
CHECK_DEADLOCK FALSE
