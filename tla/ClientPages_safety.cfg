\* Every page with its server side, one page to a behaviour.
SPECIFICATION Spec
CONSTANTS
  p = p
  q = q
  Rows <- TwoRows
  Home <- OwnRow
  MaxRoom = 2
  MaxOrders = 1
  PurchaseFaults = 1
  MaxInvoices = 2
  MaxSubs = 2
  MaxBatches = 2
  MaxTries = 2
  UploadFaults = 2
  Chunks = {p, q}
  MaxSends = 3
  MaxCompletes = 2
  SessionFaults = 1
  Folders = {p, q}
  Files = {"f"}
  OtherTabs = 1
  Media = {p, q}
  Concurrency = 1
  OtherDevices = 1
  MaxDets = 2
  MaxTrouble = 1
  Labels = {"Ann", "Ben"}
  MaxElsewhere = 1
  Room = 2
  MaxSlots = 2
  MaxFailed = 1
  MailRuns = {"one", "two"}
  Disks = {p, q}
  Capacity = 2
  Grain = 2
  MaxMoves = 2
  MaxRequests = 3
  Plans = {p, q}
  MaxDeposits = 2
  Guests = {"Ann"}
  MaxInvites = 2
  MaxLinks = 3
  Jobs = {p, q}
INVARIANTS
  PurchasesServed
  ExpansionsHonoured
  
  UploadsAsTold
  ChunksKept
  NothingLostUnasked
  CropsInStep
  PeopleKept
  SlotsHonoured
  AllocationsFit
  RequestsBacked
PROPERTIES
  AlwaysToldIsDone
  RetrievalStops
SYMMETRY Alike
CHECK_DEADLOCK FALSE
