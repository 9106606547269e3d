CONSTANTS
  f1 = f1
  f2 = f2
  d1 = d1
  d2 = d2
  r1 = r1
  r2 = r2
  NoDrive = NoDrive
  NoFile = NoFile
  Scanner = Scanner
  Files <- MCFiles
  Drives <- MCDrives
  Primary = d1
  Videos = {f1}
  Requests <- OneRequest
  Purges = TRUE
  SlowTranscodes = TRUE
  Quota = 2
  MaxFaults = 1
  MaxCrashes = 1
SPECIFICATION StoreSpec
INVARIANTS InStepAtRest CounterExact
PROPERTIES ImplementsFileVault
CHECK_DEADLOCK FALSE
