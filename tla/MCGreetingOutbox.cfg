SPECIFICATION FairSpec
CONSTANTS
  Claims = {c1}
  Loops = {l1, l2}
  Actors = {a1}
  Attempts = 2
  ActivationAttempts = 3
  None = None
INVARIANTS
  AuditOnce
  NotHindered
PROPERTIES
  Promise
  JobsEnd
