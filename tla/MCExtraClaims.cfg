SPECIFICATION FairSpec
CONSTANTS
  MaxRequests = 2
  MaxClaims = 2
  Shapes = {"keyed", "bare"}
  Expiring = {1}
  MaxFaults = 1
  None = None
INVARIANTS
  TypeOK
  PaidOnce
PROPERTIES
  Authorized
  Settled
CHECK_DEADLOCK FALSE
