SPECIFICATION Spec
CONSTANTS
  Workers = {w1, w2}
  None = None
  Budget = 1
  MaxCost = 1
  MaxMonth = 2
  MaxStarts = 4
  MaxFailures = 1
  MaxLosses = 1
SYMMETRY Symmetry
INVARIANTS TypeOK CounterExact NeverOvercharged OvershootBounded
CHECK_DEADLOCK FALSE
