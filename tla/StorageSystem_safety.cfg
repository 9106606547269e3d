CONSTANTS
  f1 = f1
  d1 = d1
  d2 = d2
  r1 = r1
  j1 = j1
  parent = parent
  NoDrive = NoDrive
  NoFile = NoFile
  Scanner = Scanner
  Files <- MCOneFile
  Drives <- MCDrives
  Primary = d1
  Videos = {}
  Requests <- OneRequest
  Purges = FALSE
  SlowTranscodes = FALSE
  Quota = 2
  MaxFaults = 1
  MaxCrashes = 1
  Jobs <- OneJob
  FolderOf <- SameFolder
  Subtree <- MCSubtree
SPECIFICATION SystemSpec
INVARIANTS LostOnlyByOverlap
