SPECIFICATION Spec
CONSTANTS
  Caller = {c1, c2}
INVARIANTS
  TypeOK
  SuccessMeansIngested
  NoCrosstalk
  LostJobsAreEmpty
  OneJobPerCall
  NothingEndedEmpty
  RequestsNameTheirJob
PROPERTIES
  ImplementsIngestJob
  EveryCallReturns
CHECK_DEADLOCK FALSE
