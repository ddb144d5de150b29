SPECIFICATION FairSpec
CONSTANTS
  MaxTxn = 3
  MaxLog = 6
  MaxCrash = 2
  Allow = {}
INVARIANTS AckedSurvive UndoneStaysUndone ReplayInv
PROPERTIES ComesBack
