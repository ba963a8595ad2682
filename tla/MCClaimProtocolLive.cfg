SPECIFICATION FairSpec
CONSTANTS
  Deals = {d1}
  Versions = {1, 2}
  Managers = {m1}
  GrantIds = {}
  MaxAttempts = 2
  Requests = {r1}
  DailyLimit = 1
  LateWrites = TRUE
  MaxCrashes = 1
  None = None
  Sweeper = sweeper
  Foreign = Foreign
PROPERTIES
  AppliedRecorded
CHECK_DEADLOCK FALSE
