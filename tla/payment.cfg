CONSTANTS
  Docs = {d1, d2}
  Keys = {k1, k2}
  Files = {f1, f2}
  Invoices = {i1}
  Amounts = {1, 2, 3}
  Threshold = 3
  Tolerance = 1
  RoundsOver = {}
  MaxRetries = 1
  ReadingsOf <- SameInvoiceTwoFiles
  Corrections <- IdentityKept
  None = None
  Threads = {t1}
  SlowOwners = FALSE
  DatabaseFaults = TRUE
  LedgerOutages = TRUE
  MaxCrashes = 1
  i1 = i1
  f1 = f1
  f2 = f2
SPECIFICATION RecordedSpec
INVARIANTS SameFileExtractedOnce OneDocumentPerKey RatesInRange
PROPERTIES FollowsLifecycle AuditChain
CHECK_DEADLOCK FALSE
SYMMETRY Symmetry
