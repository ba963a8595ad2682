SPECIFICATION ProtocolSpec
CONSTANTS
  Deals = {d1, d2}
  Versions = {1, 2}
  Managers = {m1}
  GrantIds = {g1}
  MaxAttempts = 2
  Requests = {r1, r2}
  DailyLimit = 1
  LateWrites = FALSE
  MaxCrashes = 0
  None = None
  Sweeper = sweeper
  Foreign = Foreign
SYMMETRY Symmetry
INVARIANTS
  QuotaRespected
CHECK_DEADLOCK FALSE
