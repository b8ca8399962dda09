CONSTANTS
  Device = {alice, bob}
  alice = alice
  bob = bob
  MaxCalls = 2
  MaxEngines = 3
SPECIFICATION Spec
INVARIANTS TypeOK FreshFrameKeys SameWords EndedLeavesNothing
CHECK_DEADLOCK FALSE
