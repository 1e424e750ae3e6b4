SPECIFICATION FairSpec

CONSTANTS
  Loans = {l1, l2}
  Receipts = {r1}
  Workers = {w1}
  None = None
  Principals = {100}
  EntryStatuses = {"active"}
  Extras = {}
  Payments <- OneMonth
  RateType = "monthly"
  RatePct = 10000
  EligiblePrincipal = 120
  StartOffsets <- BackDated
  PaidOffsets <- FromToday
  Lags <- UtcLags
  TickDays = 31
  LastDay = 31
  AdminActs = {"edit_loan"}
  SameLoanOverlap = TRUE

PROPERTIES
  DelinquentIsFlagged
  CuredIsCleared

CHECK_DEADLOCK FALSE
