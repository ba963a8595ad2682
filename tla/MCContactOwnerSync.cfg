SPECIFICATION FairSpec
CONSTANTS
  Claims = {c1, c2}
  Managers = {m1, m2}
  Others = {other}
  EditedTo = {other}
  Workers = {w1, w2}
  MaxFaults = 1
  None = None
INVARIANTS
  SentOnce
  Serialized
PROPERTIES
  GenerationOrder
  EditKept
  JobsEnd
CHECK_DEADLOCK FALSE
