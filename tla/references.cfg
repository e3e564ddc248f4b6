SPECIFICATION Spec
CONSTANTS
  v1 = v1
  v2 = v2
  w1 = w1
  w2 = w2
  Workers = {w1, w2}
  Ids = {v1, v2}
  Names <- Spellings
  Key <- SpeltTwice
  Cut <- FirstForty
  Similar <- Alike
  None = None
  Inactive = Inactive
  Ttl = 1
  MaxEdits = 2
  MaxTasks = 2
  MaxTime = 1
SYMMETRY Symmetry
INVARIANTS TypeOK FreshEnough VendorMadeOnce
CHECK_DEADLOCK FALSE
