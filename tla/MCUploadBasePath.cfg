SPECIFICATION Spec
CONSTANTS
  Byte <- MCByte
  SpoolThreshold = 4
  DefaultSpoolThreshold = 9
  TicksPerHour = 2
  GraphChoice <- MCGraphChoice
  TokenKey = "key"
  BasePath <- PrefixedBasePath
  JobPath <- MCJobPath
  MaxAge = 2
  MaxTime = 3
INVARIANT
  SignatureCoversRequest
CHECK_DEADLOCK FALSE
