SPECIFICATION FairSpec
CONSTANTS
  Writers = {w1, w2, w3}
  NoWriter = NoWriter
  MaxSize = 2
  MaxLen = 4
  MaxCommits = 3
  MaxCuts = 1
  MaxFails = 1
CHECK_DEADLOCK FALSE
INVARIANTS AckedUnlessRaced SettledUnlessRaced LeaderInv
PROPERTIES SyncThroughReturns
