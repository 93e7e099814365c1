CONSTANTS
  Invoices = {}
  Amounts = {2, 8, 10, 12, 13, 99}
  Threshold = 1000
  Tolerance = 2
  RoundsOver <- MCRoundsOver
  None = None
  Texts <- MCTexts
  Long <- MCLong
  Dates = {Mon, Tue}
  Blank = Blank
  NaN = NaN
  Normal <- MCNormal
  Score <- MCScore
  Vendors <- MCVendors
  Attempts <- MCAttempts
  Annotations <- OneSlip
  Requests <- SomeRequests
  Inexact = {2, 8, 10, 12, 13, 99}
  Reviewers = {r1, r2}
  MaxRetries = 1
  DatabaseFaults = TRUE
  Acme = Acme
  AcmeDot = AcmeDot
  Acmee = Acmee
  Axme = Axme
  USD = USD
  Dollars = Dollars
  INV = INV
  inv = inv
  Mon = Mon
  Tue = Tue
SPECIFICATION Spec
INVARIANTS ColumnsTypeOK UntouchedIsPayable ValuesAccountedFor ReasonIsTheCause SleptBetweenAttempts ReadingDecidesAlike MatchIsFirstBest PayablesBounded
PROPERTIES WorkRunsOut HandlerEnds Settles
CHECK_DEADLOCK FALSE
