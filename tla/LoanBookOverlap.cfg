SPECIFICATION Spec

CONSTANTS
  Loans = {l1, l2}
  Receipts = {r1, r2}
  Workers = {w1, w2}
  None = None
  Principals = {100}
  EntryStatuses = {"active"}
  Extras = {}
  Payments <- HalfAndInterest
  RateType = "monthly"
  RatePct = 10000
  EligiblePrincipal = 120
  StartOffsets <- OneOrTwoMonths
  PaidOffsets <- FromToday
  Lags <- NoLag
  TickDays = 31
  LastDay = 0
  AdminActs = {"inline_rows", "delete_loan"}
  SameLoanOverlap = TRUE

SYMMETRY RowSymmetry

PROPERTIES
  AutoCloseJustified
INVARIANTS
  RenewalLinksIntact

CHECK_DEADLOCK FALSE
