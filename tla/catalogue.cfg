SPECIFICATION Spec
CONSTANTS
  Pair = {a, b}
  Couple = {x, y}
  One = o
  None = None
  MaxImages = 2
  MIN_AGE = 0
  MediaTime = 1
  PlanTable <- PoolTable
  SavePlans = {"PREMIUM"}
  SavePromos <- NoPromo
  MaxSaves = 3
  \* One listing, one save at a time, and the job over four days.
  Pooled = {o}
  Savers = {o}
  JobPlans = {"PREMIUM", "STAR"}
  JobPromos <- StarForAll
  JobSaves = 2
  DAY = 0
  WEEK = 1
  JobTime = 3
  TTL = 2
  Latency = 1
  Inputs <- PromoInputs
  PromoTime = 4
  Versions = 2
  Numbered = {1, 2, 3}
  RunSize = 1
  WindowDays = 3
  DayPicks <- ShownPicks
  TileCap = 2
  TileCount = 3
  Posted = {1, 2}
  HomeSet <- FeedSections
  Default = 1
  MaxRail = 2
  MaxPage = 2
  ViewPool = 2
  Target = 2
  FeedViews = 3
  FeedTime = 1
  Themes = {"cars"}
  MaxSuggestions = 2
  SearchPrices = {1, 2}
  SearchBumps = {1, 2}
  Orderings = {"recent", "price_asc"}
  PageTake = 2
  FuzzyBelow = 2
  Asked = {10, 20}
  Discounts = {0, 5}
SYMMETRY Symmetry
CHECK_DEADLOCK FALSE
INVARIANTS
  TypeOK
  
  ListsBounded
  AnswerWasTrueLately
  FrontPageFair
  
  SearchSound
  ToldIffCheaper
PROPERTIES
  JobsKeepPace
