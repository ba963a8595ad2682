SPECIFICATION FairSpec
CONSTANTS
  Deals = {d1}
  Pollers = {p1, p2}
  MaxAttempts = 2
  MaxMoves = 2
  MaxEdits = 1
  MaxFaults = 1
  None = None
INVARIANTS
  TypeOK
  Justified
  NothingMissed
PROPERTIES
  FinishPromise
  LossesHandled
