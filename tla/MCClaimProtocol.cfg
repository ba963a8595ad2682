SPECIFICATION ProtocolSpec
CONSTANTS
  Deals = {d1}
  Versions = {1, 2, 3, 4}
  Managers = {m1, m2}
  GrantIds = {}
  MaxAttempts = 2
  Requests = {r1}
  DailyLimit = 1
  LateWrites = FALSE
  MaxCrashes = 1
  None = None
  Sweeper = sweeper
  Foreign = Foreign
SYMMETRY Symmetry
INVARIANTS
  ProtocolTypeOK
  OneAppliedClaim
  NoLostClaim
PROPERTIES
  Allocated
CHECK_DEADLOCK FALSE
