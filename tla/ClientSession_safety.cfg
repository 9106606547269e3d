\* Both platforms, three requests.
SPECIFICATION SessionFairSpec
CONSTANTS
  MaxReqs = 3
  Platforms <- Both
  MaxLogins = 2
  MaxUpsets = 1
  MaxFaults = 1
INVARIANTS
  NotLeftBehind
  MethodMatches
PROPERTIES
  WaitersSettle
CHECK_DEADLOCK FALSE
