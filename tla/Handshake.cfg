CONSTANTS
  Device = {alice, bob}
  alice = alice
  bob = bob
  Batch = 2
  LowWater = 1
  Cap = 1
  MaxStarts = 3
  MaxIssued = 2
  MaxKeys = 16
  MaxSends = 3
  MaxSkipPerChain = 3
  MaxSkippedKeys = 6
SPECIFICATION Spec
INVARIANTS TypeOK OneTimePreKeysHandedOutOnce AnsweredOnce OneTimeSecretsWait SessionsUnderstand
SYMMETRY Devices
CHECK_DEADLOCK FALSE
