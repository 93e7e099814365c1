CONSTANTS
  Docs = {d1}
  Keys = {k1}
  Files = {f1}
  Invoices = {i1}
  Amounts = {1, 2, 3}
  Threshold = 3
  Tolerance = 1
  RoundsOver = {}
  MaxRetries = 1
  ReadingsOf <- AlwaysClean
  Corrections <- NoCorrection
  None = None
  Threads = {}
  SlowOwners = FALSE
  DatabaseFaults = FALSE
  LedgerOutages = FALSE
  MaxCrashes = 1
  i1 = i1
  f1 = f1
  f2 = f2
SPECIFICATION FairSpec
PROPERTIES NeverLeftStuck
CHECK_DEADLOCK FALSE
