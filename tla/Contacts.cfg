CONSTANTS
  Identity = {alice, bob}
  alice = alice
  bob = bob
  Task = {task1, task2}
  task1 = task1
  task2 = task2
  MaxSealed = 3
SPECIFICATION Spec
INVARIANTS OnlyPairedSessions SealedToKnown VerifiedIsOneKey
CHECK_DEADLOCK FALSE
