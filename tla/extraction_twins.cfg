SPECIFICATION Spec
CONSTANTS
  i1 = i1
  i2 = i2
  w1 = w1
  w2 = w2
  k1 = k1
  k2 = k2
  None = None
  Invoices = {i1, i2}
  Workers = {w1, w2}
  Keys = {k1}
  Dated = {i1, i2}
  MaxAttempts = 1
  MaxStalls = 1
  MaxDeliveries = 1
SYMMETRY Symmetry
INVARIANTS
  NoUnflaggedTwins
  NoPhantomOwner
CHECK_DEADLOCK FALSE
