CONSTANTS
  Identity = {alice, bob}
  alice = alice
  bob = bob
  Task = {task1, task2}
  task1 = task1
  task2 = task2
  MaxSealed = 3
SPECIFICATION Spec
INVARIANT AcceptedWasCompared
CHECK_DEADLOCK FALSE
