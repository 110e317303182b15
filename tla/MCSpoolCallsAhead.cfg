SPECIFICATION Spec
CONSTANTS
  Byte = {1, 2}
  SpoolThreshold = 2
  DefaultSpoolThreshold = 4
  Chunk <- MCChunk
  MaxBytes = 6
INVARIANT
  CountNeverRunsAhead
CHECK_DEADLOCK FALSE
