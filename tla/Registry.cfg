SPECIFICATION FairSpec
CONSTANTS
  Session = {s1, s2, s3}
  MaxOpen = 3
  MaxCommit = 2
  Allow = {}
CHECK_DEADLOCK FALSE
INVARIANTS RegistryInv DiskComplete ConnectedSeeAll
PROPERTIES AttachReturns
