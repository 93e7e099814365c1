CONSTANTS
  Docs = {d1, d2}
  Keys = {k1, k2}
  Files = {f1, f2}
  Invoices = {i1}
  Amounts = {1, 2, 3}
  Threshold = 3
  Tolerance = 1
  RoundsOver = {}
  MaxRetries = 1
  ReadingsOf <- SameInvoiceTwoFiles
  Corrections <- IdentityKept
  None = None
  Threads = {t1, t2}
  SlowOwners = FALSE
  DatabaseFaults = TRUE
  LedgerOutages = TRUE
  MaxCrashes = 0
  i1 = i1
  f1 = f1
  f2 = f2
SPECIFICATION Spec
INVARIANTS NoDoublePayment FailedIsUnposted PostedAsDecided
CHECK_DEADLOCK FALSE
SYMMETRY Symmetry
