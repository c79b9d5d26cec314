SPECIFICATION Spec
CONSTANTS
  PLAN_LIMITS <- Catalogue
  NoDate = NoDate
  PLAN_PRICES <- Prices
INVARIANTS
  PromoNeverTakesAway
  HigherPlanNeverWorse
  
  PreviewIsHonest
