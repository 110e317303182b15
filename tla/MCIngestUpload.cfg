SPECIFICATION IngestSpec
CONSTANTS
  Byte <- Bytes
  SpoolThreshold = 4
  DefaultSpoolThreshold = 9
  TicksPerHour = 2
  GraphChoice <- Graphs
  TokenKey = "key"
  BasePath <- RootPath
  JobPath <- UploadPath
  MaxAge = 2
  MaxTime = 3
PROPERTY
  ImplementsIngestJob
CHECK_DEADLOCK FALSE
