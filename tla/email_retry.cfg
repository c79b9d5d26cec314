SPECIFICATION Spec
CONSTANTS
  Keys = {k1}
  Workers = {w1}
  Attempts = 3
  None = None
INVARIANTS
  RetriesRecover
