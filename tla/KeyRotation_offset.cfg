CONSTANTS
  ann = ann
  bob = bob
  cid = cid
  NoName = NoName
  Names <- MCNames
  MaxUsers = 3
  MaxVersion = 2
  BatchSize = 2
  InitialUsers <- MCThreeUsers
  Registrants = {}
  Readers = {}
  AdminOps = {}
  MaxFaults = 0
  MaxCrashes = 0
SPECIFICATION Spec
INVARIANTS RewrapCoversAll
CHECK_DEADLOCK FALSE
