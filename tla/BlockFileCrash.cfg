SPECIFICATION Spec
CONSTANTS
  Reader = {}
  ChainCap = 2
  MaxBlock = 5
  MaxEpoch = 5
  MaxCrash = 2
  MaxFail = 0
  MaxFreed = 1
  Allow = {"explicit"}
CHECK_DEADLOCK FALSE
INVARIANTS RecoveryIntact WriterIntact ListInv RollbackWins CrashRollsBack
