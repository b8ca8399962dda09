CONSTANTS
  Address = {a, b}
  Conn = {c}
  a = a
  b = b
  c = c
  ChallengeTtl = 0
  TokenTtl = 0
  MessageTtl = 1
  MaxQueue = 1
  MaxDrawn = 4
  MaxTime = 1
  MaxAccepted = 1
SPECIFICATION Spec
INVARIANTS EarnedOnce OnlyKeyHoldersRead ClosedAreForgotten
CHECK_DEADLOCK FALSE
