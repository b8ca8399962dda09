CONSTANTS
  Address = {a}
  Conn = {c1, c2}
  a = a
  c1 = c1
  c2 = c2
  ChallengeTtl = 0
  TokenTtl = 0
  MessageTtl = 1
  MaxQueue = 1
  MaxDrawn = 2
  MaxTime = 1
  MaxAccepted = 2
SPECIFICATION FairSpec
INVARIANTS TypeOK NoMissedDelivery NothingLostSilently
PROPERTIES ConnectedReceives IsMailbox
CHECK_DEADLOCK FALSE
