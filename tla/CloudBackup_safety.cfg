SPECIFICATION Spec
CONSTANTS
  Items <- MCItems
  Photos <- MCPhotos
  MaxRuns = 2
  Quota = 2
  MaxFaults = 1
  OverlapPicks = FALSE
INVARIANTS MailLostOnlyByOverlap RetryAccounts ListingFresh
CHECK_DEADLOCK FALSE
PROPERTY CancelEnds
