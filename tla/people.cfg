SPECIFICATION Spec
CONSTANTS
  Pair = {a, b}
  Couple = {x, y}
  COOLDOWN = 0
  WINDOW = 1
  MAX_CODES_PER_15MIN = 1
  OTP_EXPIRY = 2
  MAX_ATTEMPTS = 2
  PRUNE = 1
  TokenLife = 1
  MaxCodes = 3
  OtpTime = 3
  WAIT = 1
  MaxRequests = 3
  CaseTime = 1
  MaxRounds = 2
  Procs = {o}
  ACCESS = 1
  REFRESH = 2
  LAST_SEEN_THROTTLE = 1
  MaxAccounts = 2
  SignTime = 2
  FavoriteRows = 3
  VisitWindow = 2
  VisitDay = 2
  ChartDays = 2
  VisitTime = 5
  MaxVisits = 4
  MAX_SAVED_SEARCHES = 1
  Authors = {o}
  Given = {1, 2}
  MaxReviews = 2
  MaxWrites = 3
  BATCH_SIZE = 2
  MaxRows = 4
  BATCH = 1
  MaxStalls = 1
  MaxEvents = 1
  \* A week of four ticks, so that one has a middle the jitter of the job does
  \* not reach.
  WEEK = 4
  MONTH = 5
  JITTER = 1
  ABSENT = 2
  MaxActivities = 1
  MailTime = 10
  Followers = {o}
  MinInterval = 4
  Lookback = 6
  Retention = 6
  FollowTime = 9
  None = None
SYMMETRY Symmetry
CHECK_DEADLOCK FALSE
INVARIANTS
  TypeOK
  LimitsBounded
  CasesSettle
  SessionsBounded
  FiguresMatchRows
  ExportComplete
  
  
  PushesBounded
  

  
  
