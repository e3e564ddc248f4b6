SPECIFICATION Spec
CONSTANTS
  i1 = i1
  i2 = i2
  w1 = w1
  w2 = w2
  d1 = d1
  d2 = d2
  d3 = d3
  None = None
  Invoices = {i1}
  Workers = {w1, w2}
  DocNumbers = {d1, d3}
  docNumber <- OneNumber
  HandDocs = {d1, d3}
  MaxAttempts = 1
  MaxStalls = 1
  MaxDeliveries = 1
  MaxApprovals = 2
  MaxHandEntered = 1
SYMMETRY WorkerSymmetry
INVARIANTS
  TypeOK
  OneBillPerInvoice
  PostedLinksOwnBill
  NoBillBeforeClaim
  EventsMatchOutcome
PROPERTIES
  PostedIsFinal
CHECK_DEADLOCK FALSE
