CONSTANTS
  ann = ann
  bob = bob
  cid = cid
  NoName = NoName
  Names <- MCTwoNames
  MaxUsers = 2
  MaxVersion = 3
  BatchSize = 2
  InitialUsers <- MCOneUser
  Registrants <- MCTwoNames
  Readers = {ann}
  AdminOps = {}
  MaxFaults = 0
  MaxCrashes = 2
SPECIFICATION FairSpec
INVARIANTS OwnKey
PROPERTIES RetiringResolved
