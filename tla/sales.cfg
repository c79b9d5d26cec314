SPECIFICATION Spec
CONSTANTS
  PLAN_LIMITS <- Catalogue
  NoDate = NoDate
  None = None
  Pair = {a, b}
  Couple = {x, y}
  \* Three days to the month: a plan is sold, reminded of, runs out and is
  \* renewed.
  MonthDays = 3
  WarnDays = 2
  RemindDays = 1
  Plans = {"FREE", "STAR", "PREMIUM"}
  Months = {1}
  SaleHorizon = 24
  MaxSales = 2
  Products = {o}
  Quotas = {0, 1}
  Durations = {1}
  Cycle = 2
  BoostHorizon = 2
  MaxSold = 2
SYMMETRY Symmetry
CHECK_DEADLOCK FALSE
INVARIANTS
  TypeOK
  LabelFollowsPlan
  
  
  FreeBoostsBounded
  PeriodsTile
