SPECIFICATION FairSpec
CONSTANTS
  Threads = {t1, t2}
  Managers = {1, 2}
  Deals = {d1}
  MaxRequests = 2
  None = None
INVARIANTS
  MutualExclusion
  OwnerFenced
  DisableFence
PROPERTIES
  CallsEnd
