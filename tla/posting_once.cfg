SPECIFICATION FairSpec
CONSTANTS
  i1 = i1
  i2 = i2
  w1 = w1
  w2 = w2
  d1 = d1
  d2 = d2
  d3 = d3
  None = None
  Invoices = {i1}
  Workers = {w1, w2}
  DocNumbers = {d1, d2, d3}
  docNumber <- OneNumber
  HandDocs = {d3}
  MaxAttempts = 2
  MaxStalls = 1
  MaxDeliveries = 2
  MaxApprovals = 1
  MaxHandEntered = 1
PROPERTIES
  PostOnceSpec
  JobsSettle
CHECK_DEADLOCK FALSE
