SPECIFICATION Spec
CONSTANTS
  i1 = i1
  i2 = i2
  w1 = w1
  w2 = w2
  k1 = k1
  k2 = k2
  None = None
  Invoices = {i1}
  Workers = {w1, w2}
  Keys = {k1}
  Dated = {i1}
  MaxAttempts = 2
  MaxStalls = 1
  MaxDeliveries = 2
PROPERTIES
  CleanIsRouted
CHECK_DEADLOCK FALSE
