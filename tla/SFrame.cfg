CONSTANTS
  MaxFrameCounter = 11
  ReplayWindow = 3
SPECIFICATION SFrameSpec
INVARIANTS SFrameTypeOK NonceNeverReused AcceptedOnce WindowStaysOpen
