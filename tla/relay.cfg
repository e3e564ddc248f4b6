SPECIFICATION FairSpec
CONSTANTS
  x1 = x1
  x2 = x2
  k1 = k1
  LastRow = 3
  Relays = {x1, x2}
  Routed = {1, 2}
  Ids = {k1}
  idOf <- Colliding
  BatchSize = 2
  MaxAttempts = 2
  MaxOutages = 1
  MaxAborts = 1
INVARIANTS
  TypeOK
  PublishedWasSent
  DisjointSlices
PROPERTIES
  DeliveredUnlessParked
CHECK_DEADLOCK FALSE
