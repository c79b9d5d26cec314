SPECIFICATION Spec
CONSTANTS
  PLAN_LIMITS <- NoneOrOne
  NoDate = NoDate
  Sellers = {s1}
  Products = {p1, p2}
  Requests = {r1, r2}
  SellerOf <- OneSeller
  Plans = {"FREE", "STAR"}
  Promos <- OffOnly
  Images = {0, 1}
SYMMETRY Symmetry
INVARIANTS
  TypeOK
  QuotaOvershootBounded
  SuspensionLeakBounded
  RemovedUserOwnsNothing
PROPERTIES
  DeletedForGood
