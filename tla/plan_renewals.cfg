SPECIFICATION Spec
CONSTANTS
  PLAN_LIMITS <- Catalogue
  NoDate = NoDate
  Admins = {a1, a2}
  MonthDays = 3
  WarnDays = 2
  RemindDays = 1
  Plans = {"FREE", "STAR", "PREMIUM"}
  Months = {1}
  Horizon = 16
  MaxSales = 3
SYMMETRY Symmetry
CHECK_DEADLOCK FALSE
PROPERTIES
  RenewalsAccumulate
