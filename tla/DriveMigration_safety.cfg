CONSTANTS
  f1 = f1
  f2 = f2
  d1 = d1
  d2 = d2
  r1 = r1
  j1 = j1
  j2 = j2
  j3 = j3
  grandchild = grandchild
  parent = parent
  child = child
  NoDrive = NoDrive
  NoFile = NoFile
  Scanner = Scanner
  Files <- MCOneFile
  Drives <- MCDrives
  Primary = d1
  Videos = {}
  Requests <- OneRequest
  Purges = FALSE
  SlowTranscodes = FALSE
  Quota = 2
  MaxFaults = 1
  MaxCrashes = 1
  Jobs <- TwoJobs
  FolderOf <- SameFolder
  Subtree <- MCSubtree
SPECIFICATION MigrationFairSpec
INVARIANTS ReadableUnlessMoving
CHECK_DEADLOCK FALSE
PROPERTIES MigrationEnds
