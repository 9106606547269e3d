SPECIFICATION Spec
CONSTANTS
  Items <- MCItems
  Photos <- MCPhotos
  MaxRuns = 2
  Quota = 2
  MaxFaults = 1
  OverlapPicks = FALSE
INVARIANT SafelyBackedUp
CHECK_DEADLOCK FALSE
