SPECIFICATION Spec
CONSTANTS
  Claims = {c1}
  Loops = {l1, l2}
  Actors = {a1}
  Attempts = 2
  ActivationAttempts = 3
  None = None
SYMMETRY Symmetry
INVARIANTS
  NoLateGreeting
