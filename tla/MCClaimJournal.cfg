SPECIFICATION Spec
CONSTANTS
  Deals = {d1}
  Versions = {v1, v2}
  Managers = {m1, m2}
  GrantIds = {g1}
  MaxAttempts = 2
  None = None
SYMMETRY Symmetry
INVARIANTS
  OneOpenLifecycle
  OneAllocation
  AuditExact
  GrantLedger
  FollowUpsConfirmed
PROPERTIES
  TerminalImmutable
