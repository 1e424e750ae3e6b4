SPECIFICATION Spec

CONSTANTS
  Loans = {l1, l2, l3}
  Receipts = {r1, r2}
  Workers = {w1}
  None = None
  Principals = {100}
  EntryStatuses = {"active"}
  Extras = {20}
  Payments <- InterestOrAll
  RateType = "monthly"
  RatePct = 10000
  EligiblePrincipal = 120
  StartOffsets <- FromToday
  PaidOffsets <- FromToday
  Lags <- NoLag
  TickDays = 31
  LastDay = 31
  AdminActs = {"inline_rows"}
  SameLoanOverlap = FALSE

SYMMETRY RowSymmetry

INVARIANTS
  NoOverSettlement

CHECK_DEADLOCK FALSE
