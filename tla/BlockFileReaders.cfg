SPECIFICATION Spec
CONSTANTS
  Reader = {r1}
  ChainCap = 2
  MaxBlock = 5
  MaxEpoch = 5
  MaxCrash = 0
  MaxFail = 1
  MaxFreed = 1
  Allow = {"multipart"}
CHECK_DEADLOCK FALSE
INVARIANTS LeasedIntact
