CONSTANTS
  MaxSkipPerChain = 1
  MaxSkippedKeys = 2
  Duplicates = TRUE
  MaxSends = 5
  MaxKeys = 6
SPECIFICATION Spec
INVARIANTS TypeOK MessageKeysUnique NoSecondAcceptance DeliveredKeysErased OutOfOrderDecrypts
PROPERTY TurnsHeal
CHECK_DEADLOCK FALSE
