SPECIFICATION FairSpec
CONSTANTS
  READER_SLOTS = 2
  MaxEpoch = 3
INVARIANTS
  HeldPinNotReclaimed
PROPERTIES
  PinReturns
