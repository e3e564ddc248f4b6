SPECIFICATION Spec
CONSTANTS
  Workers = {w1, w2}
  Capacity = 2
  BucketTtl = 3
  GateLimit = 1
  SlotLimit = 1
  GateLease = 3
  SlotLease = 2
  Timeout = 1
  RetryAfters = {2, 4}
  MaxSkew = 1
  MaxTime = 7
  MaxCrashes = 1
SYMMETRY Symmetry
INVARIANTS TypeOK WithinLimits RateBounded
CHECK_DEADLOCK FALSE
