CONSTANTS
  FreeAttempts = 1
  BaseLockout = 1
  MaxLockout = 2
  Grace = 1
  MaxClock = 1
  MaxStarts = 2
  MaxFailures = 2
  MaxMail = 1
  Losses = {"absent", "unreadable"}
SPECIFICATION Spec
INVARIANT LockoutsEnd
CHECK_DEADLOCK FALSE
