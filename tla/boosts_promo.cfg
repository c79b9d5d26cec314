SPECIFICATION Spec
CONSTANTS
  Requests = {r1}
  Products = {p1}
  Ids = {i1, i2}
  Quotas = {1}
  Durations = {1}
  Cycle = 2
  Horizon = 1
  MaxSold = 3
  None = None
INVARIANTS
  PromoBoostsConsumeNothing
