CONSTANTS
  ann = ann
  bob = bob
  cid = cid
  NoName = NoName
  Names <- MCTwoNames
  MaxUsers = 2
  MaxVersion = 3
  BatchSize = 1
  InitialUsers <- MCOneUser
  Registrants <- MCTwoNames
  Readers = {}
  AdminOps = {"rename", "delete"}
  MaxFaults = 1
  MaxCrashes = 1
SPECIFICATION Spec
INVARIANTS TypeOK KeysHeld StrandedOnlyLate LogHonest
PROPERTIES NoDowngrade
