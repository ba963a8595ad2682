SPECIFICATION FairSpec
CONSTANTS
  MaxSessions = 2
  MaxRevisions = 2
  Managers = {m1, m2}
  Others = {other}
  MaxAccepts = 2
  MaxEvents = 2
  None = None
INVARIANTS
  TypeOK
  JobsJustified
  Fenced
  ContactSettled
PROPERTIES
  NotOverwritten
  NativeEnds
CHECK_DEADLOCK FALSE
