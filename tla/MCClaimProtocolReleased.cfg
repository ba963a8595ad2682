SPECIFICATION ProtocolSpec
CONSTANTS
  Deals = {d1}
  Versions = {1, 2, 3}
  Managers = {m1}
  GrantIds = {}
  MaxAttempts = 2
  Requests = {r1}
  DailyLimit = 1
  LateWrites = TRUE
  MaxCrashes = 1
  None = None
  Sweeper = sweeper
  Foreign = Foreign
INVARIANTS
  ReleasedUnapplied
CHECK_DEADLOCK FALSE
