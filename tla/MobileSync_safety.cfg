\* Two runners over one queue.
SPECIFICATION SyncFairSpec
CONSTANTS
  MaxPhotos = 2
  PendingLimit = 2
  Quota = 3
  Refused <- NoPhotos
  MaxFaults = 1
  MaxKills = 1
  MaxDeletes = 1
INVARIANTS
  CleanedAreStored
  StillRemembered
PROPERTIES
  EventuallyBackedUp
  
CHECK_DEADLOCK FALSE
