SPECIFICATION Spec
CONSTANTS
  Byte <- MCByte
  SpoolThreshold = 4
  DefaultSpoolThreshold = 9
  TicksPerHour = 2
  GraphChoice <- MCGraphChoice
  TokenKey = "key"
  BasePath <- NoBasePath
  JobPath <- MCJobPath
  MaxAge = 2
  MaxTime = 3
INVARIANTS
  TypeOK
  SpoolAndSignerAgree
  SuccessMeansDelivered
  SignatureCoversRequest
  ContentLengthIsExact
  PartialDocumentIsNotSent
  NoFileLeft
PROPERTY
  Returns
CHECK_DEADLOCK FALSE
