SPECIFICATION FileSpec
CONSTANTS
  GraphChoice <- Graphs
  Letter <- Letters
  Earlier <- Files
INVARIANT
  DoneMeansWhole
CHECK_DEADLOCK FALSE
