SPECIFICATION FairSpec
CONSTANTS
  w1 = w1
  w2 = w2
  b1 = b1
  NoOne = NoOne
  Workers = {w1, w2}
  Browsers = {b1}
  MaxTokens = 3
INVARIANTS
  TypeOK
  StoredTokenLives
  HealthyNeverRejected
  HerdRefreshesOnce
PROPERTIES
  DisconnectedStays
  LockIsFreed
CHECK_DEADLOCK FALSE
