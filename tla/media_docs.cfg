SPECIFICATION Spec
CONSTANTS
  Calls = {a, b}
  Files = {f, g}
  MaxImages = 2
  MIN_AGE = 0
  MaxTime = 1
CHECK_DEADLOCK FALSE
INVARIANT DocsAreKept
