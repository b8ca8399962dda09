CONSTANTS
  MaxSkipPerChain = 1
  MaxSkippedKeys = 2
  Duplicates = TRUE
  MaxSends = 3
  MaxKeys = 6
SPECIFICATION Spec
INVARIANT SessionSurvivesReplays
CHECK_DEADLOCK FALSE
