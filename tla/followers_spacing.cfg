SPECIFICATION Spec
CONSTANTS
  Listings = {l1}
  Followers = {f1, f2}
  MinInterval = 4
  Lookback = 6
  Retention = 6
  Horizon = 6
SYMMETRY Symmetry
CHECK_DEADLOCK FALSE
PROPERTIES
  OnePerInterval
