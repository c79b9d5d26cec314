SPECIFICATION Spec
CONSTANTS
  PLAN_LIMITS <- Catalogue
  NoDate = NoDate
  Admins = {a1}
  MonthDays = 3
  WarnDays = 2
  RemindDays = 1
  Plans = {"FREE", "STAR", "PREMIUM"}
  Months = {1}
  Horizon = 24
  MaxSales = 1
CHECK_DEADLOCK FALSE
INVARIANTS
  ExpiryIsMailed
