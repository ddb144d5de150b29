SPECIFICATION Spec
CONSTANTS
  Label = {"L"}
  Null = Null
  Zero = Zero
  MaxRows = 4
  MaxCommit = 3
  Slack = 2
  Allow = {}
CHECK_DEADLOCK FALSE
INVARIANTS
  FoldAgrees
  ReplayAgrees
  ReaderCurrent
  OverlayInv
PROPERTIES
  Implements
