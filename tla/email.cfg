SPECIFICATION FairSpec
CONSTANTS
  Keys = {k1}
  Workers = {w1, w2, w3}
  Attempts = 3
  None = None
INVARIANTS
  TypeOK
  SentMeansMailedOnce
PROPERTIES
  OneAttempt
  JobsSettle
