SPECIFICATION Spec
CONSTANTS
  r1 = r1
  r2 = r2
  r3 = r3
  Rows = {r1, r2, r3}
  Realms = {1, 2}
  RealmOf <- Owners
  Ids = {1, 2}
  Bills <- Numbered
  Totals = {10, 25}
  Total <- Amounts
  Unit <- Units
  None = None
  Gone = Gone
  PageSize = 1
  MaxEdits = 1
SYMMETRY Symmetry
INVARIANTS TypeOK MissingIsGone RecordIsAccurate
CHECK_DEADLOCK FALSE
